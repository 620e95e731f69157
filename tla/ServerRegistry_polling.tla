------------------------ MODULE ServerRegistry_polling -------------------------
(***************************************************************************)
(* What the worker of ServerRegistry waits on, for any number of           *)
(* descriptors and clients: every client's socket and no closed one, and,  *)
(* in a server's first run, no socket that receive() would block on.  Then *)
(* what rests on it: whom the worker drops, and when the array fits.       *)
(***************************************************************************)
EXTENDS ServerRegistry_proofs, FiniteSetTheorems

-----------------------------------------------------------------------------
(* The inductive invariant. *)

HasInput(s) == pending[s] > 0 \/ s \in hungUp

Listening == running => set \subseteq open /\ set \subseteq ToSet(sockets)

\* What a pass has still to look at is closed by now or is waited on, and there
\* is no pass at select(), nor without a worker.
PassWatched ==
  /\ ready \cap open \subseteq set
  /\ idx = 0 => ready = {}
  /\ ~running => idx = 0

ClientsWatched == \A c \in Conn : Live(c) => running /\ conn[c].sock \in set

OnceEach == \A j, k \in 1..Len(sockets) : sockets[j] = sockets[k] => j = k

\* The array lists each open descriptor once; what the pass has found readable
\* and has not come to yet still is.  Nothing is open before the first start().
FirstRun ==
  /\ starts = 0 => ~running /\ sockets = <<>> /\ open = {}
  /\ starts <= 1 /\ running =>
       /\ ToSet(sockets) = open
       /\ OnceEach
       /\ \A j \in 1..Len(sockets) :
            j >= idx /\ sockets[j] \in ready => HasInput(sockets[j])

\* A pass never waits on what it removes, as removeSocket closes it, too; the
\* array shifts under the pass towards its beginning, so what the pass comes to
\* after a removal it had still to come to before.
PollInv == ~fault => Listening /\ PassWatched /\ ClientsWatched /\ FirstRun

\* What the steps below use of the types and of the tables.
LEMMA Known ==
  ASSUME IInv
  PROVE  /\ sockets \in Seq(Fd) /\ Len(sockets) \in Nat /\ DOMAIN sockets = 1..Len(sockets)
         /\ \A j \in 1..Len(sockets) : sockets[j] \in Fd
         /\ open \subseteq Fd /\ set \subseteq Fd /\ ready \subseteq Fd /\ hungUp \subseteq Fd
         /\ pending \in [Fd -> 0..MaxPending] /\ MaxPending \in Nat
         /\ idx \in Nat /\ starts \in Nat /\ running \in BOOLEAN /\ fault \in BOOLEAN
         /\ \A c \in Conn : Live(c) => conn[c].sock \in Fd
<1>1. TypeOK
  BY DEF IInv
<1>2. sockets \in Seq(Fd)
  BY <1>1 DEF TypeOK
<1>3. Len(sockets) \in Nat /\ DOMAIN sockets = 1..Len(sockets)
      /\ \A j \in 1..Len(sockets) : sockets[j] \in Fd
  BY <1>2, LenProperties, ElementOfSeq
<1>4. starts \in Nat
  BY <1>1, ConstantsTyped DEF TypeOK
<1>5. \A c \in Conn : Live(c) => conn[c].sock \in Fd
  BY <1>1, LiveTyped DEF Connection
<1> QED
  BY <1>1, <1>2, <1>3, <1>4, <1>5, ConstantsTyped DEF TypeOK

\* Removing the first entry that is s moves what is behind it by one place.
LEMMA RemoveFirstShifts ==
  ASSUME NEW q \in Seq(Fd), NEW s
  PROVE  \/ /\ RemoveFirst(q, s) = q
            /\ \A j \in 1..Len(q) : q[j] # s
         \/ \E m \in 1..Len(q) :
              /\ q[m] = s
              /\ Len(RemoveFirst(q, s)) = Len(q) - 1
              /\ \A j \in 1..(Len(q) - 1) :
                   RemoveFirst(q, s)[j] = IF j < m THEN q[j] ELSE q[j + 1]
<1>1. CASE \E j \in 1..Len(q) : q[j] = s
  <2> DEFINE I == {j \in 1..Len(q) : q[j] = s}
             m == Min(I)
  <2>1. m \in 1..Len(q) /\ q[m] = s
    <3>1. I \in SUBSET Nat /\ I # {}
      BY <1>1
    <3>2. m \in I
      <4> HIDE DEF I
      <4> QED BY <3>1, MinOfNaturals
    <3> QED BY <3>2
  <2>2. RemoveFirst(q, s) = SubSeq(q, 1, m-1) \o SubSeq(q, m+1, Len(q))
    BY <1>1 DEF RemoveFirst, RemoveAt, SelectInSeq
  <2> HIDE DEF m
  <2> DEFINE before == SubSeq(q, 1, m-1)
             behind == SubSeq(q, m+1, Len(q))
  <2>3. Len(q) \in Nat
    OBVIOUS
  <2>4. /\ before \in Seq(Fd) /\ Len(before) = m-1
        /\ \A j \in 1..(m-1) : before[j] = q[j]
    BY <2>1, <2>3, SubSeqProperties, ElementOfSeq
  <2>5. /\ behind \in Seq(Fd) /\ Len(behind) = Len(q) - m
        /\ \A j \in 1..(Len(q) - m) : behind[j] = q[m + j]
    BY <2>1, <2>3, SubSeqProperties, ElementOfSeq
  <2> HIDE DEF before, behind
  <2>6. Len(before \o behind) = Len(q) - 1
    <3>1. Len(before \o behind) = Len(before) + Len(behind)
      BY <2>4, <2>5, ConcatProperties
    <3>2. m \in Nat /\ (m-1) + (Len(q) - m) = Len(q) - 1
      BY <2>1, <2>3
    <3> QED BY <2>4, <2>5, <3>1, <3>2
  <2>7. ASSUME NEW j \in 1..(Len(q) - 1)
        PROVE  (before \o behind)[j] = IF j < m THEN q[j] ELSE q[j + 1]
    <3>1. CASE j < m
      <4>1. j \in 1..Len(before) /\ j \in 1..(m-1)
        BY <2>1, <2>3, <2>4, <3>1
      <4> QED BY <2>4, <2>5, <2>6, <3>1, <4>1, ConcatProperties
    <3>2. CASE ~(j < m)
      <4>1. /\ j - Len(before) \in 1..(Len(q) - m)
            /\ m + (j - Len(before)) = j + 1
            /\ ~(j =< Len(before))
        BY <2>1, <2>3, <2>4, <3>2
      <4>2. (before \o behind)[j] = behind[j - Len(before)]
        BY <2>1, <2>3, <2>4, <2>5, <2>6, <4>1, ConcatProperties
      <4> QED BY <2>5, <3>2, <4>1, <4>2
    <3> QED BY <3>1, <3>2
  <2>8. RemoveFirst(q, s) = before \o behind
    BY <2>2 DEF before, behind
  <2> QED BY <2>1, <2>6, <2>7, <2>8
<1>2. CASE ~ \E j \in 1..Len(q) : q[j] = s
  BY <1>2 DEF RemoveFirst
<1> QED
  BY <1>1, <1>2

-----------------------------------------------------------------------------
(* Steps that leave the array alone. *)

\* How a step moves the loop on.
LoopMoves ==
  \/ UNCHANGED loopVars
  \/ running /\ idx' = 0 /\ ready' = {}
  \/ running /\ idx' = 1 /\ ready' = Readable
  \/ running /\ idx \in 1..Len(sockets) /\ idx' = idx + 1 /\ ready' = ready

\* Input is lost only of the socket that the loop is at and goes on from.
InputStays ==
  \A s \in Fd : HasInput(s) =>
    \/ HasInput(s)'
    \/ running /\ idx \in 1..Len(sockets) /\ sockets[idx] = s /\ idx' = idx + 1

\* Every connection after the step was there before it, or is waited on.
ClientsStay ==
  \A c \in Conn : Live(c)' =>
    \/ Live(c) /\ conn'[c].sock = conn[c].sock
    \/ running /\ conn'[c].sock \in set

LEMMA SameArray ==
  ASSUME IInv, PollInv, ~fault, UNCHANGED <<open, running, sockets, set, starts>>,
         LoopMoves, InputStays, ClientsStay
  PROVE  PollInv'
<1>1. Listening /\ PassWatched /\ ClientsWatched /\ FirstRun
  BY DEF PollInv
<1>2. Listening'
  BY <1>1 DEF Listening
<1>3. PassWatched'
  BY <1>1, Known DEF PassWatched, LoopMoves, Readable, loopVars
<1>4. ClientsWatched'
  BY <1>1 DEF ClientsWatched, ClientsStay
<1>5. ASSUME starts <= 1, running, NEW j \in 1..Len(sockets), j >= idx', sockets[j] \in ready'
      PROVE  HasInput(sockets[j])'
  <2>1. sockets[j] \in Fd /\ idx \in Nat /\ j \in Nat
    BY Known
  <2>2. CASE ready' = Readable /\ idx' = 1
    <3>1. HasInput(sockets[j])
      BY <1>5, <2>2 DEF Readable, HasInput
    <3>2. ~(idx \in 1..Len(sockets) /\ idx' = idx + 1)
      BY <2>2
    <3> QED BY <2>1, <3>1, <3>2 DEF InputStays
  <2>3. CASE ready' = ready /\ (idx' = idx \/ (idx \in 1..Len(sockets) /\ idx' = idx + 1))
    <3>1. j >= idx
      BY <1>5, <2>1, <2>3
    <3>2. HasInput(sockets[j])
      BY <1>1, <1>5, <2>3, <3>1 DEF FirstRun
    <3>3. idx' = idx + 1 /\ idx \in 1..Len(sockets) => sockets[idx] # sockets[j]
      BY <1>1, <1>5, <2>1 DEF FirstRun, OnceEach
    <3> QED BY <2>1, <3>2, <3>3 DEF InputStays
  <2> QED BY <1>5, <2>2, <2>3 DEF LoopMoves, loopVars
<1>6. FirstRun'
  BY <1>1, <1>5 DEF FirstRun, OnceEach
<1> QED
  BY <1>2, <1>3, <1>4, <1>6 DEF PollInv

-----------------------------------------------------------------------------
(* Steps that change the array. *)

\* removeSocket, with the client whose socket it was.
LEMMA RemovalKeeps ==
  ASSUME IInv, PollInv, ~fault, NEW s \in Fd, removeSocket(s),
         UNCHANGED <<running, starts, ready>>,
         \/ idx' = idx
         \/ running /\ idx \in 1..Len(sockets) /\ idx' = idx + 1,
         \A c \in Conn : Live(c)' =>
           Live(c) /\ conn'[c].sock = conn[c].sock /\ conn[c].sock # s
  PROVE  PollInv'
<1>0. /\ sockets \in Seq(Fd) /\ Len(sockets) \in Nat /\ DOMAIN sockets = 1..Len(sockets)
      /\ \A j \in 1..Len(sockets) : sockets[j] \in Fd
      /\ idx \in Nat
  BY Known
<1>1. Listening /\ PassWatched /\ ClientsWatched /\ FirstRun
  BY DEF PollInv
<1>2. /\ sockets' = RemoveFirst(sockets, s) /\ sockets' \in Seq(Fd)
      /\ open' = open \ {s} /\ set' = set \ {s}
      /\ \A t \in Fd \ {s} : HasInput(t) => HasInput(t)'
  BY <1>0, RemoveFirstTyped DEF removeSocket, close, HasInput
<1>3. DOMAIN sockets' = 1..Len(sockets') /\ Len(sockets') \in Nat
  BY <1>2
<1>4. \/ sockets' = sockets /\ \A j \in 1..Len(sockets) : sockets[j] # s
      \/ \E m \in 1..Len(sockets) :
           /\ sockets[m] = s
           /\ Len(sockets') = Len(sockets) - 1
           /\ \A j \in 1..(Len(sockets) - 1) :
                sockets'[j] = IF j < m THEN sockets[j] ELSE sockets[j + 1]
  BY <1>0, <1>2, RemoveFirstShifts
\* Where an entry comes from, and where it goes to.
<1>5. ASSUME NEW j \in 1..Len(sockets')
      PROVE  \E k \in 1..Len(sockets) : k \in {j, j + 1} /\ sockets'[j] = sockets[k]
  <2>1. CASE sockets' = sockets
    BY <2>1
  <2>2. CASE Len(sockets') = Len(sockets) - 1
    <3>1. j \in 1..(Len(sockets) - 1) /\ j \in 1..Len(sockets) /\ j + 1 \in 1..Len(sockets)
      BY <1>0, <2>2
    <3>2. sockets'[j] = sockets[j] \/ sockets'[j] = sockets[j + 1]
      BY <1>4, <3>1
    <3> QED BY <3>1, <3>2
  <2> QED BY <1>4, <2>1, <2>2
<1>6. ASSUME NEW j \in 1..Len(sockets), sockets[j] # s
      PROVE  \E k \in 1..Len(sockets') : sockets'[k] = sockets[j]
  <2>1. CASE sockets' = sockets
    BY <2>1
  <2>2. ASSUME NEW m \in 1..Len(sockets), sockets[m] = s,
               Len(sockets') = Len(sockets) - 1,
               \A i \in 1..(Len(sockets) - 1) :
                 sockets'[i] = IF i < m THEN sockets[i] ELSE sockets[i + 1]
        PROVE  \E k \in 1..Len(sockets') : sockets'[k] = sockets[j]
    <3>1. j # m /\ j \in Nat /\ m \in Nat
      BY <1>0, <1>6, <2>2
    <3>2. CASE j < m
      <4>1. j \in 1..(Len(sockets) - 1)
        BY <1>0, <3>2
      <4> QED BY <2>2, <3>2, <4>1
    <3>3. CASE j > m
      <4>1. j - 1 \in 1..(Len(sockets) - 1) /\ ~(j - 1 < m) /\ (j - 1) + 1 = j
        BY <1>0, <3>3
      <4> QED BY <2>2, <4>1
    <3> QED BY <3>1, <3>2, <3>3
  <2> QED BY <1>4, <2>1, <2>2
<1>7. Listening'
  <2> SUFFICES ASSUME running, NEW t \in set, t # s
               PROVE  t \in open \ {s} /\ t \in ToSet(sockets')
    BY <1>2 DEF Listening, ToSet
  <2>1. t \in open /\ \E j \in 1..Len(sockets) : sockets[j] = t
    BY <1>0, <1>1 DEF Listening, ToSet
  <2> QED BY <1>3, <1>6, <2>1 DEF ToSet
<1>8. PassWatched'
  BY <1>1, <1>2 DEF PassWatched
<1>9. ClientsWatched'
  BY <1>1, <1>2 DEF ClientsWatched
<1>10. ASSUME starts = 0
       PROVE  ~running /\ sockets' = <<>> /\ open' = {}
  BY <1>0, <1>1, <1>2, <1>4, <1>10 DEF FirstRun
<1>11. ASSUME starts <= 1, running
       PROVE  /\ ToSet(sockets') = open'
              /\ OnceEach'
              /\ \A j \in 1..Len(sockets') :
                   j >= idx' /\ sockets'[j] \in ready' => HasInput(sockets[j])'
  <2>1. /\ ToSet(sockets) = open /\ OnceEach
        /\ \A j \in 1..Len(sockets) :
             j >= idx /\ sockets[j] \in ready => HasInput(sockets[j])
    BY <1>1, <1>11 DEF FirstRun
  <2>2. \A j \in 1..Len(sockets') : sockets'[j] # s
    <3> SUFFICES ASSUME NEW m \in 1..Len(sockets), sockets[m] = s,
                        Len(sockets') = Len(sockets) - 1,
                        \A i \in 1..(Len(sockets) - 1) :
                          sockets'[i] = IF i < m THEN sockets[i] ELSE sockets[i + 1],
                        NEW j \in 1..(Len(sockets) - 1)
                 PROVE  sockets'[j] # s
      BY <1>4
    <3>1. j # m => sockets[j] # s
      BY <1>0, <2>1 DEF OnceEach
    <3>2. j + 1 \in 1..Len(sockets) /\ j \in 1..Len(sockets) /\ (~(j < m) => j + 1 # m)
      BY <1>0
    <3>3. j + 1 # m => sockets[j + 1] # s
      BY <2>1, <3>2 DEF OnceEach
    <3>4. sockets'[j] = IF j < m THEN sockets[j] ELSE sockets[j + 1]
      OBVIOUS
    <3> QED BY <3>1, <3>2, <3>3, <3>4
  <2>3. ToSet(sockets') = open'
    <3>1. ASSUME NEW t \in ToSet(sockets') PROVE t \in open'
      BY <1>0, <1>2, <1>3, <1>5, <2>1, <2>2, <3>1 DEF ToSet
    <3>2. ASSUME NEW t \in open' PROVE t \in ToSet(sockets')
      <4>1. t # s /\ \E j \in 1..Len(sockets) : sockets[j] = t
        BY <1>0, <1>2, <2>1, <3>2 DEF ToSet
      <4> QED BY <1>3, <1>6, <4>1 DEF ToSet
    <3> QED BY <3>1, <3>2
  <2>4. OnceEach'
    <3> SUFFICES ASSUME NEW m \in 1..Len(sockets),
                        Len(sockets') = Len(sockets) - 1,
                        \A i \in 1..(Len(sockets) - 1) :
                          sockets'[i] = IF i < m THEN sockets[i] ELSE sockets[i + 1],
                        NEW j \in 1..(Len(sockets) - 1), NEW k \in 1..(Len(sockets) - 1),
                        sockets'[j] = sockets'[k]
                 PROVE  j = k
      BY <1>4, <2>1 DEF OnceEach
    <3> DEFINE from(i) == IF i < m THEN i ELSE i + 1
    <3>1. from(j) \in 1..Len(sockets) /\ from(k) \in 1..Len(sockets)
      BY <1>0
    <3>2. sockets[from(j)] = sockets[from(k)]
      OBVIOUS
    <3>3. from(j) = from(k)
      BY <2>1, <3>1, <3>2 DEF OnceEach
    <3> QED BY <1>0, <3>3
  <2>5. ASSUME NEW j \in 1..Len(sockets'), j >= idx', sockets'[j] \in ready'
        PROVE  HasInput(sockets[j])'
    <3>1. PICK k \in 1..Len(sockets) : k \in {j, j + 1} /\ sockets'[j] = sockets[k]
      BY <1>5
    <3>2. k >= idx /\ sockets[k] \in ready
      BY <1>0, <1>3, <2>5, <3>1
    <3>3. HasInput(sockets[k]) /\ sockets[k] \in Fd \ {s}
      BY <1>0, <2>1, <2>2, <3>1, <3>2
    <3> QED BY <1>2, <3>1, <3>3
  <2> QED BY <2>3, <2>4, <2>5
<1>12. FirstRun'
  BY <1>10, <1>11 DEF FirstRun
<1> QED
  BY <1>7, <1>8, <1>9, <1>12 DEF PollInv

\* addSocket of a descriptor that was not open.
LEMMA AcceptKeeps ==
  ASSUME IInv, PollInv, ~fault, NEW s \in Fd, Accept(s)
  PROVE  PollInv'
<1>0. /\ sockets \in Seq(Fd) /\ Len(sockets) \in Nat /\ DOMAIN sockets = 1..Len(sockets)
      /\ \A j \in 1..Len(sockets) : sockets[j] \in Fd
  BY Known
<1>1. Listening /\ PassWatched /\ ClientsWatched /\ FirstRun
  BY DEF PollInv
<1>2. /\ sockets' = Append(sockets, s) /\ set' = set \cup {s} /\ open' = open \cup {s}
      /\ s \notin open /\ running /\ idx = 0
      /\ UNCHANGED <<running, ready, idx, starts, conn>>
  BY DEF Accept, AtSelect, addSocket, loopVars, tableVars, historyVars
<1>3. /\ Len(sockets') = Len(sockets) + 1
      /\ DOMAIN sockets' = 1..(Len(sockets) + 1)
      /\ \A j \in 1..Len(sockets) : sockets'[j] = sockets[j]
      /\ sockets'[Len(sockets) + 1] = s
  BY <1>0, <1>2, AppendProperties
<1>4. ready = {}
  BY <1>1, <1>2 DEF PassWatched
<1>5. ToSet(sockets') = ToSet(sockets) \cup {s}
  <2>1. ASSUME NEW j \in 1..(Len(sockets) + 1)
        PROVE  sockets'[j] \in ToSet(sockets) \cup {s}
    <3>1. j \in 1..Len(sockets) \/ j = Len(sockets) + 1
      BY <1>0
    <3> QED BY <1>0, <1>3, <3>1 DEF ToSet
  <2>2. ASSUME NEW j \in 1..Len(sockets)
        PROVE  sockets[j] \in ToSet(sockets')
    <3>1. j \in 1..(Len(sockets) + 1)
      BY <1>0
    <3> QED BY <1>3, <3>1 DEF ToSet
  <2>3. s \in ToSet(sockets')
    <3>1. Len(sockets) + 1 \in 1..(Len(sockets) + 1)
      BY <1>0
    <3> QED BY <1>3, <3>1 DEF ToSet
  <2> QED BY <1>0, <1>3, <2>1, <2>2, <2>3 DEF ToSet
<1>6. Listening' /\ PassWatched' /\ ClientsWatched'
  BY <1>1, <1>2, <1>4, <1>5 DEF Listening, PassWatched, ClientsWatched, Live
<1>7. ASSUME starts <= 1
      PROVE  ToSet(sockets') = open' /\ OnceEach'
  <2>1. ToSet(sockets) = open /\ OnceEach
    BY <1>1, <1>2, <1>7 DEF FirstRun
  <2>2. \A j \in 1..Len(sockets) : sockets[j] # s
    BY <1>0, <1>2, <2>1 DEF ToSet
  <2>3. ASSUME NEW j \in 1..(Len(sockets) + 1), NEW k \in 1..(Len(sockets) + 1),
               sockets'[j] = sockets'[k]
        PROVE  j = k
    <3>1. /\ j \in 1..Len(sockets) \/ j = Len(sockets) + 1
          /\ k \in 1..Len(sockets) \/ k = Len(sockets) + 1
      BY <1>0
    <3> QED BY <1>3, <2>1, <2>2, <2>3, <3>1 DEF OnceEach
  <2> QED BY <1>2, <1>3, <1>5, <2>1, <2>3 DEF OnceEach
<1>8. FirstRun'
  BY <1>1, <1>2, <1>4, <1>7 DEF FirstRun
<1> QED
  BY <1>6, <1>8 DEF PollInv

\* start() after a stop() is not a first run; before it nothing is open.
LEMMA StartKeeps ==
  ASSUME IInv, PollInv, ~fault, start
  PROVE  PollInv'
<1>1. Listening /\ PassWatched /\ ClientsWatched /\ FirstRun /\ starts \in Nat
  BY Known DEF PollInv
<1>2. /\ ~running /\ running' /\ starts' = starts + 1 /\ set' = {}
      /\ UNCHANGED <<open, sockets, ready, idx, conn>>
  BY DEF start, fdVars, loopVars, tableVars
<1>3. ready = {} /\ \A c \in Conn : ~Live(c)
  BY <1>1, <1>2 DEF PassWatched, ClientsWatched
<1>4. Listening' /\ PassWatched' /\ ClientsWatched'
  BY <1>1, <1>2, <1>3 DEF Listening, PassWatched, ClientsWatched, Live
<1>5. ASSUME starts' <= 1
      PROVE  ToSet(sockets') = open' /\ OnceEach'
  <2>1. sockets' = <<>> /\ open' = {}
    BY <1>1, <1>2, <1>5 DEF FirstRun
  <2> QED BY <2>1 DEF ToSet, OnceEach
<1>6. FirstRun'
  BY <1>1, <1>2, <1>3, <1>5 DEF FirstRun
<1> QED
  BY <1>4, <1>6 DEF PollInv

\* stop() leaves no client, whatever it leaves in the array.
LEMMA StopKeeps ==
  ASSUME IInv, PollInv, ~fault, NEW kill \in BOOLEAN, stop(kill)
  PROVE  PollInv'
<1>1. /\ FirstRun /\ starts \in Nat
      /\ ~running' /\ running /\ idx' = 0 /\ ready' = {} /\ starts' = starts
  BY Known DEF PollInv, stop, historyVars
<1>2. \A c \in Conn : ~Live(c)'
  <2>1. CASE \A s \in Fd : bySock[s] = None
    <3>1. conn' = conn
      BY <2>1 DEF stop, killAllClients, tableVars
    <3>2. \A c \in Conn : Live(c) => conn[c].sock \in Fd /\ bySock[conn[c].sock] = c
      BY Known DEF IInv, TablesAgree
    <3>3. \A c \in Conn : c # None
      BY ConstantsTyped
    <3> QED BY <2>1, <3>1, <3>2, <3>3 DEF Live
  <2>2. CASE ~ \A s \in Fd : bySock[s] = None
    <3>1. conn' = [c \in Conn |-> IF channels[Main][c] > 0 THEN None ELSE conn[c]]
      BY <2>2 DEF stop, killAllClients
    <3>2. \A c \in Conn : Live(c) => channels[Main][c] > 0
      BY DEF IInv, TablesAgree, InChannel
    <3> QED BY <3>1, <3>2 DEF Live
  <2> QED BY <2>1, <2>2
<1>3. starts # 0
  BY <1>1 DEF FirstRun
<1> QED
  BY <1>1, <1>2, <1>3 DEF PollInv, Listening, PassWatched, ClientsWatched, FirstRun

-----------------------------------------------------------------------------
(* Every step. *)

\* killClient of a live connection removes its socket and nobody else's.
LEMMA KillRemoves ==
  ASSUME IInv, ~fault, NEW c \in Conn, Live(c), killClient(c)
  PROVE  \E s \in Fd :
           /\ removeSocket(s)
           /\ \A d \in Conn : Live(d)' =>
                Live(d) /\ conn'[d].sock = conn[d].sock /\ conn[d].sock # s
<1>1. conn[c].sock \in Fd /\ removeSocket(conn[c].sock) /\ conn' = [conn EXCEPT ![c] = None]
  BY Known DEF killClient
<1>2. \A d \in Conn : Live(d) => bySock[conn[d].sock] = d
  BY DEF IInv, TablesAgree
<1>3. conn \in [Conn -> Connection \cup {None}]
  BY DEF IInv, TypeOK
<1>4. \A d \in Conn : Live(d)' => d # c /\ conn'[d] = conn[d] /\ Live(d)
  BY <1>1, <1>3 DEF Live
<1> QED
  BY <1>1, <1>2, <1>4

LEMMA PeersKeep ==
  ASSUME IInv, PollInv, ~fault, Peers
  PROVE  PollInv'
<1>1. /\ UNCHANGED <<open, running, sockets, set, starts, conn>> /\ UNCHANGED loopVars
  BY DEF Peers, PeerConnects, PeerSends, PeerCloses, arrayVars, tableVars, historyVars
<1>2. InputStays
  <2>1. pending \in [Fd -> 0..MaxPending] /\ MaxPending \in Nat
    BY Known
  <2>2. CASE PeerConnects
    BY <2>2 DEF PeerConnects, InputStays, HasInput
  <2>3. ASSUME NEW s \in Fd, PeerSends(s) PROVE InputStays
    BY <2>1, <2>3 DEF PeerSends, InputStays, HasInput
  <2>4. ASSUME NEW s \in Fd, PeerCloses(s) PROVE InputStays
    BY <2>4 DEF PeerCloses, InputStays, HasInput
  <2> QED BY <2>2, <2>3, <2>4 DEF Peers
<1>3. LoopMoves /\ ClientsStay
  BY <1>1 DEF LoopMoves, ClientsStay, Live
<1> QED
  BY <1>1, <1>2, <1>3, SameArray

\* A frame is taken from the socket that the loop is at, and the next is next.
LEMMA ReceiveMoves ==
  ASSUME IInv, NEW s \in Fd, Receives(s)
  PROVE  LoopMoves /\ InputStays /\ UNCHANGED <<running, starts>> /\ s \in ready \cap open
<1>1. pending \in [Fd -> 0..MaxPending]
  BY Known
<1>2. InputStays
  BY <1>1 DEF Receives, At, InputStays, HasInput
<1> QED
  BY <1>2 DEF Receives, At, LoopMoves, historyVars

LEMMA WorkerKeeps ==
  ASSUME IInv, PollInv, ~fault, ~fault', Worker
  PROVE  PollInv'
<1>1. CASE Select \/ EndPass
  <2>1. /\ UNCHANGED <<open, running, sockets, set, starts, conn, pending, hungUp>>
        /\ LoopMoves
    BY <1>1 DEF Select, EndPass, AtSelect, LoopMoves, fdVars, arrayVars, tableVars, historyVars
  <2>2. InputStays /\ ClientsStay
    BY <2>1 DEF InputStays, HasInput, ClientsStay, Live
  <2> QED BY <2>1, <2>2, SameArray
<1>2. ASSUME NEW s \in Fd, Skip(s)
      PROVE  PollInv'
  <2>1. /\ UNCHANGED <<open, running, sockets, set, starts, conn, pending, hungUp>>
        /\ LoopMoves
    BY <1>2 DEF Skip, At, LoopMoves, fdVars, arrayVars, tableVars, historyVars
  <2>2. InputStays /\ ClientsStay
    BY <2>1 DEF InputStays, HasInput, ClientsStay, Live
  <2> QED BY <2>1, <2>2, SameArray
<1>3. ASSUME NEW s \in Fd, Message(s) \/ \E id \in Id : HelloDuplicate(s, id)
      PROVE  PollInv'
  <2>1. Receives(s) /\ UNCHANGED <<open, sockets, set, conn>>
    BY <1>3 DEF Message, HelloDuplicate, arrayVars, tableVars
  <2>2. ClientsStay
    BY <2>1 DEF ClientsStay, Live
  <2> QED BY <2>1, <2>2, ReceiveMoves, SameArray
<1>4. ASSUME NEW s \in Fd, NEW id \in Id, NEW nick \in Nick, NEW c \in Conn,
             Hello(s, id, nick, c)
      PROVE  PollInv'
  <2>1. /\ Receives(s) /\ UNCHANGED <<open, sockets, set>>
        /\ conn' = [conn EXCEPT ![c] = [sock |-> s, id |-> id, nick |-> nick,
                                        active |-> FALSE, chans |-> {}]]
    BY <1>4 DEF Hello, addClient, arrayVars
  <2>2. running /\ s \in set
    BY <2>1 DEF Receives, At, PollInv, PassWatched
  <2>3. conn \in [Conn -> Connection \cup {None}]
    BY DEF IInv, TypeOK
  <2>4. ClientsStay
    <3> SUFFICES ASSUME NEW d \in Conn, Live(d)'
                 PROVE  \/ Live(d) /\ conn'[d].sock = conn[d].sock
                        \/ running /\ conn'[d].sock \in set
      BY DEF ClientsStay
    <3>1. CASE d = c
      BY <2>1, <2>2, <2>3, <3>1
    <3>2. CASE d # c
      BY <2>1, <2>3, <3>2 DEF Live
    <3> QED BY <3>1, <3>2
  <2> QED BY <2>1, <2>4, ReceiveMoves, SameArray
<1>5. ASSUME NEW s \in Fd, ReceivesNothing(s)
      PROVE  /\ UNCHANGED <<running, starts, ready>>
             /\ running /\ idx \in 1..Len(sockets) /\ idx' = idx + 1
  BY <1>5 DEF ReceivesNothing, At, historyVars
<1>6. ASSUME NEW s \in Fd, DropUnregistered(s)
      PROVE  PollInv'
  <2>1. ReceivesNothing(s) /\ removeSocket(s) /\ conn' = conn /\ bySock[s] = None
    BY <1>6 DEF DropUnregistered, tableVars
  <2>2. \A d \in Conn : Live(d)' =>
          Live(d) /\ conn'[d].sock = conn[d].sock /\ conn[d].sock # s
    BY <2>1, ConstantsTyped DEF IInv, TablesAgree, Live
  <2> QED BY <1>5, <2>1, <2>2, RemovalKeeps
<1>7. ASSUME NEW s \in Fd, HangUp(s)
      PROVE  PollInv'
  <2>1. PICK c \in Conn : Live(c) /\ killClient(c) /\ ReceivesNothing(s)
    BY <1>7, HangUpKillsItsOwn
  <2>2. PICK t \in Fd :
          /\ removeSocket(t)
          /\ \A d \in Conn : Live(d)' =>
               Live(d) /\ conn'[d].sock = conn[d].sock /\ conn[d].sock # t
    BY <2>1, KillRemoves
  <2> QED BY <1>5, <2>1, <2>2, RemovalKeeps
<1>8. CASE AcceptFails
  BY <1>8 DEF AcceptFails
<1> QED
  BY <1>1, <1>2, <1>3, <1>4, <1>6, <1>7, <1>8, AcceptKeeps DEF Worker

LEMMA ApplicationKeeps ==
  ASSUME IInv, PollInv, ~fault, ~fault', Application
  PROVE  PollInv'
<1>0. conn \in [Conn -> Connection \cup {None}] /\ None \notin Connection
  BY ConstantsTyped DEF IInv, TypeOK
<1>1. ASSUME AppUnchanged, UNCHANGED <<fdVars, arrayVars>>,
             \A c \in Conn : Live(c)' => Live(c) /\ conn'[c].sock = conn[c].sock
      PROVE  PollInv'
  <2>1. UNCHANGED <<open, running, sockets, set, starts, pending, hungUp>> /\ LoopMoves
    BY <1>1 DEF AppUnchanged, fdVars, arrayVars, LoopMoves
  <2>2. InputStays /\ ClientsStay
    BY <1>1, <2>1 DEF InputStays, HasInput, ClientsStay
  <2> QED BY <2>1, <2>2, SameArray
<1>2. ASSUME NEW c \in Conn, NEW a \in BOOLEAN, SetActive(c, a)
      PROVE  PollInv'
  <2>1. AppUnchanged /\ UNCHANGED <<fdVars, arrayVars>> /\ Live(c)
        /\ conn' = [conn EXCEPT ![c].active = a]
    BY <1>2 DEF SetActive
  <2>2. \A d \in Conn : Live(d)' => Live(d) /\ conn'[d].sock = conn[d].sock
    BY <1>0, <2>1 DEF Live, Connection
  <2> QED BY <1>1, <2>1, <2>2
<1>3. ASSUME NEW c \in Conn, NEW nick \in Nick, Live(c), AppUnchanged,
             UNCHANGED <<fdVars, arrayVars>>, conn' = [conn EXCEPT ![c].nick = nick]
      PROVE  PollInv'
  <2>1. \A d \in Conn : Live(d)' => Live(d) /\ conn'[d].sock = conn[d].sock
    BY <1>0, <1>3 DEF Live, Connection
  <2> QED BY <1>1, <1>3, <2>1
<1>4. ASSUME NEW c \in Conn, NEW nick \in Nick, SetNick(c, nick)
      PROVE  PollInv'
  BY <1>3, <1>4 DEF SetNick
<1>5. ASSUME NEW id \in Id, NEW nick \in Nick, changeNick(id, nick)
      PROVE  PollInv'
  <2>1. byId[id] \in Conn /\ Live(byId[id])
    BY <1>5 DEF changeNick, IInv, TypeOK, TablesAgree
  <2> QED BY <1>3, <1>5, <2>1 DEF changeNick
<1>6. ASSUME NEW n \in Chan, createChannel(n)
      PROVE  PollInv'
  BY <1>1, <1>6 DEF createChannel, Live
<1>7. ASSUME NEW n \in Chan, NEW c \in Conn, joinChannel(n, c) \/ leaveChannel(n, c)
      PROVE  PollInv'
  <2>1. /\ AppUnchanged /\ UNCHANGED <<fdVars, arrayVars>> /\ Live(c)
        /\ \E S : conn' = [conn EXCEPT ![c].chans = S]
    BY <1>7 DEF joinChannel, leaveChannel
  <2>2. \A d \in Conn : Live(d)' => Live(d) /\ conn'[d].sock = conn[d].sock
    BY <1>0, <2>1 DEF Live, Connection
  <2> QED BY <1>1, <2>1, <2>2
<1>8. ASSUME NEW n \in Chan, NEW c \in Conn, sendFails(n, c)
      PROVE  PollInv'
  <2>1. Live(c) /\ killClient(c) /\ AppUnchanged
    BY <1>8 DEF sendFails
  <2>2. PICK t \in Fd :
          /\ removeSocket(t)
          /\ \A d \in Conn : Live(d)' =>
               Live(d) /\ conn'[d].sock = conn[d].sock /\ conn[d].sock # t
    BY <2>1, KillRemoves
  <2>3. UNCHANGED <<running, starts, ready, idx>>
    BY <2>1 DEF AppUnchanged, loopVars
  <2> QED BY <2>2, <2>3, RemovalKeeps
<1>9. ASSUME NEW n \in Chan, deleteChannel(n) \/ sendToFreed(n)
      PROVE  FALSE
  BY <1>9 DEF deleteChannel, sendToFreed
<1> QED
  BY <1>2, <1>4, <1>5, <1>6, <1>7, <1>8, <1>9 DEF Application

LEMMA PollInvPreserved ==
  ASSUME IInv, PollInv, [Next]_vars
  PROVE  PollInv'
<1>1. CASE UNCHANGED vars
  <2>1. UNCHANGED <<open, pending, hungUp, running, sockets, set, ready, idx, conn, starts, fault>>
    BY <1>1 DEF vars, fdVars, arrayVars, loopVars, tableVars, historyVars
  <2> QED BY <2>1 DEF PollInv, Listening, PassWatched, ClientsWatched, FirstRun, OnceEach,
                      HasInput, Live
<1>2. CASE Next /\ fault'
  BY <1>2 DEF PollInv
<1>3. CASE Next /\ ~fault'
  BY <1>3, PeersKeep, WorkerKeeps, ApplicationKeeps, StartKeeps, StopKeeps DEF Next, Control
<1> QED
  BY <1>1, <1>2, <1>3

LEMMA PollInvInit ==
  ASSUME Init
  PROVE  PollInv
BY DEF Init, PollInv, Listening, PassWatched, ClientsWatched, FirstRun, Live

-----------------------------------------------------------------------------
(* The theorems. *)

\* An array that lists every open descriptor once is as long as there are.
LEMMA LengthCounts ==
  ASSUME IInv, OnceEach, ToSet(sockets) = open
  PROVE  Len(sockets) = Cardinality(open)
<1>1. /\ Len(sockets) \in Nat /\ DOMAIN sockets = 1..Len(sockets)
      /\ sockets \in [1..Len(sockets) -> open]
  BY Known DEF ToSet
<1>2. \A t \in open : \E j \in 1..Len(sockets) : sockets[j] = t
  BY <1>1 DEF ToSet
<1>3. sockets \in Bijection(1..Len(sockets), open)
  BY <1>1, <1>2 DEF OnceEach, Bijection, Injection, Surjection, IsInjective
<1> QED
  BY <1>1, <1>3, FS_CountingElements DEF ExistsBijection

\* What the loop waits on is open and listed, and every client is waited on, in
\* every run of the server (addSocket, removeSocket, killClient, killAllClients
\* and the loop in Server.cpp).
THEOREM Polled == Spec => []ClientsArePolled
<1>1. Init => IInv /\ PollInv
  BY IInvInit, PollInvInit
<1>2. IInv /\ PollInv /\ [Next]_vars => (IInv /\ PollInv)'
  BY IInvPreserved, PollInvPreserved
<1>3. PollInv => ClientsArePolled
  BY DEF PollInv, Listening, ClientsWatched, ClientsArePolled
<1> QED
  BY <1>1, <1>2, <1>3, PTL DEF Spec


\* In a server's first run the worker never calls receive() on a socket without
\* input, however often the array shifts under a pass (Server.cpp:234-258,
\* removeSocket).
THEOREM NeverBlocks == Spec => []ReceiveNeverBlocks
<1>1. Init => IInv /\ PollInv
  BY IInvInit, PollInvInit
<1>2. IInv /\ PollInv /\ [Next]_vars => (IInv /\ PollInv)'
  BY IInvPreserved, PollInvPreserved
<1>3. IInv /\ PollInv => ReceiveNeverBlocks
  <2> SUFFICES ASSUME IInv, PollInv, starts <= 1, running, ~fault
               PROVE  /\ ToSet(sockets) = open
                      /\ Len(sockets) = Cardinality(open)
                      /\ idx \in 1..Len(sockets) /\ sockets[idx] \in ready =>
                           pending[sockets[idx]] > 0 \/ sockets[idx] \in hungUp
    BY DEF ReceiveNeverBlocks
  <2>1. /\ ToSet(sockets) = open /\ OnceEach
        /\ \A j \in 1..Len(sockets) :
             j >= idx /\ sockets[j] \in ready => HasInput(sockets[j])
    BY DEF PollInv, FirstRun
  <2>2. idx >= idx
    BY Known
  <2> QED BY <2>1, <2>2, LengthCounts DEF HasInput
<1> QED
  BY <1>1, <1>2, <1>3, PTL DEF Spec

-----------------------------------------------------------------------------
(* Who ends a connection. *)

Ends(c) == Live(c) /\ ~Live(c)'

\* killClient frees nobody else.
LEMMA OnlyOneEnds ==
  ASSUME IInv, NEW c \in Conn, killClient(c)
  PROVE  \A d \in Conn : Ends(d) => d = c
<1>1. conn' = [conn EXCEPT ![c] = None]
  BY DEF killClient
<1>2. conn \in [Conn -> Connection \cup {None}]
  BY DEF IInv, TypeOK
<1> QED
  BY <1>1, <1>2 DEF Ends, Live

\* What ends a connection on its own socket, as the property says.
ReceivedNothing(c) == At(conn[c].sock) /\ conn[c].sock \in ready /\ idx' = idx + 1
SentShort(c) == conn[c].active /\ idx' = idx

\* The connection that the worker kills is the one whose socket it has read.
LEMMA WorkerEnds ==
  ASSUME IInv, ~fault, Worker
  PROVE  \A c \in Conn : Ends(c) => ReceivedNothing(c)
<1>1. CASE conn' = conn
  BY <1>1 DEF Ends, Live
<1>2. ASSUME NEW s \in Fd, HangUp(s)
      PROVE  \A c \in Conn : Ends(c) => ReceivedNothing(c)
  <2>1. PICK c \in Conn : Live(c) /\ killClient(c) /\ conn[c].sock = s /\ ReceivesNothing(s)
    BY <1>2, HangUpKillsItsOwn
  <2> QED BY <2>1, OnlyOneEnds DEF ReceivesNothing, ReceivedNothing
<1>3. ASSUME NEW s \in Fd, NEW id \in Id, NEW nick \in Nick, NEW c \in Conn,
             Hello(s, id, nick, c)
      PROVE  \A d \in Conn : ~Ends(d)
  <2>1. conn' = [conn EXCEPT ![c] = [sock |-> s, id |-> id, nick |-> nick,
                                     active |-> FALSE, chans |-> {}]] /\ ~Live(c)
    BY <1>3 DEF Hello, addClient
  <2>2. conn \in [Conn -> Connection \cup {None}]
    BY DEF IInv, TypeOK
  <2>3. \A d \in Conn : d # c => conn'[d] = conn[d]
    BY <2>1, <2>2
  <2> QED BY <2>1, <2>3 DEF Ends, Live
<1>4. CASE AcceptFails \/ Select \/ EndPass
  <2>1. conn' = conn
    BY <1>4 DEF AcceptFails, Select, EndPass, tableVars
  <2> QED BY <1>1, <2>1
<1>5. ASSUME NEW s \in Fd,
             \/ Accept(s) \/ Skip(s) \/ Message(s) \/ DropUnregistered(s)
             \/ \E id \in Id : HelloDuplicate(s, id)
      PROVE  conn' = conn
  BY <1>5 DEF Accept, Skip, Message, DropUnregistered, HelloDuplicate, tableVars
<1> QED
  BY <1>1, <1>2, <1>3, <1>4, <1>5 DEF Worker

\* Of the application's calls only a message that cannot be sent ends anybody.
LEMMA ApplicationEnds ==
  ASSUME IInv, ~fault, Application
  PROVE  \A c \in Conn : Ends(c) => SentShort(c)
<1>0. conn \in [Conn -> Connection \cup {None}] /\ None \notin Connection
  BY ConstantsTyped DEF IInv, TypeOK
<1>1. ASSUME \/ conn' = conn
             \/ \E c \in Conn : \E r : conn' = [conn EXCEPT ![c] = r] /\ r # None
      PROVE  \A d \in Conn : ~Ends(d)
  BY <1>0, <1>1 DEF Ends, Live
<1>2. ASSUME NEW c \in Conn, NEW a \in BOOLEAN, SetActive(c, a)
      PROVE  \A d \in Conn : ~Ends(d)
  <2>1. conn[c] \in Connection /\ conn' = [conn EXCEPT ![c] = [conn[c] EXCEPT !.active = a]]
    BY <1>0, <1>2 DEF SetActive, Live
  <2>2. [conn[c] EXCEPT !.active = a] \in Connection
    BY <2>1 DEF Connection
  <2> QED BY <1>0, <1>1, <2>1, <2>2
<1>3. ASSUME NEW c \in Conn, NEW nick \in Nick, Live(c), conn' = [conn EXCEPT ![c].nick = nick]
      PROVE  \A d \in Conn : ~Ends(d)
  <2>1. conn[c] \in Connection /\ conn' = [conn EXCEPT ![c] = [conn[c] EXCEPT !.nick = nick]]
    BY <1>0, <1>3 DEF Live
  <2>2. [conn[c] EXCEPT !.nick = nick] \in Connection
    BY <2>1 DEF Connection
  <2> QED BY <1>0, <1>1, <2>1, <2>2
<1>4. ASSUME NEW c \in Conn, NEW nick \in Nick, SetNick(c, nick)
      PROVE  \A d \in Conn : ~Ends(d)
  BY <1>3, <1>4 DEF SetNick
<1>5. ASSUME NEW id \in Id, NEW nick \in Nick, changeNick(id, nick)
      PROVE  \A d \in Conn : ~Ends(d)
  <2>1. byId[id] \in Conn /\ Live(byId[id])
    BY <1>5 DEF changeNick, IInv, TypeOK, TablesAgree
  <2> QED BY <1>3, <1>5, <2>1 DEF changeNick
<1>6. ASSUME NEW n \in Chan, NEW c \in Conn, joinChannel(n, c) \/ leaveChannel(n, c)
      PROVE  \A d \in Conn : ~Ends(d)
  <2>1. /\ Live(c) /\ conn[c] \in Connection
        /\ \/ conn' = [conn EXCEPT ![c] = [conn[c] EXCEPT !.chans = @ \cup {n}]]
           \/ conn' = [conn EXCEPT ![c] = [conn[c] EXCEPT !.chans = @ \ {n}]]
    BY <1>0, <1>6 DEF joinChannel, leaveChannel, Live
  <2>2. /\ [conn[c] EXCEPT !.chans = @ \cup {n}] \in Connection
        /\ [conn[c] EXCEPT !.chans = @ \ {n}] \in Connection
    BY <2>1 DEF Connection
  <2> QED BY <1>0, <1>1, <2>1, <2>2
<1>7. ASSUME NEW n \in Chan, createChannel(n) \/ deleteChannel(n) \/ sendToFreed(n)
      PROVE  \A d \in Conn : ~Ends(d)
  BY <1>1, <1>7 DEF createChannel, deleteChannel, sendToFreed, tableVars
<1>8. ASSUME NEW n \in Chan, NEW c \in Conn, sendFails(n, c)
      PROVE  \A d \in Conn : Ends(d) => SentShort(d)
  BY <1>8, OnlyOneEnds DEF sendFails, AppUnchanged, loopVars, SentShort
<1> QED
  BY <1>2, <1>4, <1>5, <1>6, <1>7, <1>8 DEF Application

\* A connection ends only by what happened on its own socket, or with the server:
\* what run() kills is the connection whose socket it was reading (Server.cpp:
\* 234-258, killClient), although it gets there through two tables, and what
\* send(Channel) kills is the one that took less (Server.cpp:473-479).
THEOREM EndAlone == Spec => EndsByItsOwnSocket
<1>1. Init => IInv
  BY IInvInit
<1>2. IInv /\ [Next]_vars => IInv'
  BY IInvPreserved
<1>3. IInv /\ [Next]_vars =>
        [\A c \in Conn : Live(c) /\ ~Live(c)' =>
           \/ ~running'
           \/ At(conn[c].sock) /\ conn[c].sock \in ready /\ idx' = idx + 1
           \/ conn[c].active /\ idx' = idx]_vars
  <2> SUFFICES ASSUME IInv, Next, NEW c \in Conn, Ends(c), running'
               PROVE  ReceivedNothing(c) \/ SentShort(c)
    BY DEF Ends, ReceivedNothing, SentShort
  <2>1. CASE Peers
    <3>1. conn' = conn
      BY <2>1 DEF Peers, PeerConnects, PeerSends, PeerCloses, tableVars
    <3> QED BY <3>1 DEF Ends, Live
  <2>2. CASE start
    <3>1. conn' = conn
      BY <2>2 DEF start, tableVars
    <3> QED BY <3>1 DEF Ends, Live
  <2>3. ASSUME NEW kill \in BOOLEAN, stop(kill)
        PROVE  FALSE
    BY <2>3 DEF stop
  <2> QED BY <2>1, <2>2, <2>3, WorkerEnds, ApplicationEnds DEF Next, Control
<1> QED
  BY <1>1, <1>2, <1>3, PTL DEF Spec, EndsByItsOwnSocket

-----------------------------------------------------------------------------
(* When the array of sockets fits into its memory. *)

\* In a first run: the array has the memory of its first allocation, if any.
FirstAllocation ==
  starts <= 1 =>
    /\ Len(sockets) <= room
    /\ cap = 0 \/ (cap = SocketsCap /\ room = SocketsCap)

\* What a step does to the array, and that starts only grows.
LEMMA ArraySteps ==
  ASSUME IInv, [Next]_vars
  PROVE  /\ starts' = starts \/ starts' = starts + 1
         /\ \/ UNCHANGED <<sockets, cap, room>>
            \/ UNCHANGED <<cap, room>> /\ \E s \in Fd : sockets' = RemoveFirst(sockets, s)
            \/ ~fault /\ \E s \in Fd : Accept(s)
<1> DEFINE Same == UNCHANGED <<sockets, cap, room>>
           Removes == UNCHANGED <<cap, room>> /\ \E s \in Fd : sockets' = RemoveFirst(sockets, s)
           Kept == starts' = starts
<1>1. CASE UNCHANGED vars
  BY <1>1 DEF vars, arrayVars, historyVars
<1>2. CASE Peers
  BY <1>2 DEF Peers, PeerConnects, PeerSends, PeerCloses, arrayVars, historyVars
<1>3. CASE Control
  BY <1>3 DEF Control, start, stop, arrayVars, historyVars
<1>4. ASSUME NEW c \in Conn, Live(c), killClient(c)
      PROVE  Removes
  BY <1>4, Known DEF killClient, removeSocket
<1>5. CASE ~fault /\ Worker
  <2>1. ASSUME AcceptFails \/ Select \/ EndPass
        PROVE  Same /\ Kept
    BY <2>1 DEF AcceptFails, Select, EndPass, arrayVars, historyVars
  <2>2. ASSUME NEW s \in Fd,
               \/ Skip(s) \/ Message(s)
               \/ \E id \in Id : HelloDuplicate(s, id)
               \/ \E id \in Id, nick \in Nick, c \in Conn : Hello(s, id, nick, c)
        PROVE  Same /\ Kept
    BY <2>2 DEF Skip, Message, HelloDuplicate, Hello, Receives, arrayVars, historyVars
  <2>3. ASSUME NEW s \in Fd, DropUnregistered(s)
        PROVE  Removes /\ Kept
    BY <2>3 DEF DropUnregistered, ReceivesNothing, removeSocket, historyVars
  <2>4. ASSUME NEW s \in Fd, HangUp(s)
        PROVE  Removes /\ Kept
    <3>1. PICK c \in Conn : Live(c) /\ killClient(c) /\ ReceivesNothing(s)
      BY <1>5, <2>4, HangUpKillsItsOwn
    <3>2. Removes
      <4> HIDE DEF Removes
      <4> QED BY <1>4, <3>1
    <3> QED BY <3>1, <3>2 DEF ReceivesNothing, historyVars
  <2>5. ASSUME NEW s \in Fd, Accept(s)
        PROVE  Kept
    BY <2>5 DEF Accept, historyVars
  <2> DEFINE Quiet(s) == \/ Skip(s) \/ Message(s)
                         \/ \E id \in Id : HelloDuplicate(s, id)
                         \/ \E id \in Id, nick \in Nick, c \in Conn : Hello(s, id, nick, c)
  <2>6. \/ AcceptFails \/ Select \/ EndPass
        \/ \E s \in Fd : Quiet(s) \/ DropUnregistered(s) \/ HangUp(s) \/ Accept(s)
    BY <1>5 DEF Worker
  <2>7. ASSUME NEW s \in Fd, Quiet(s)
        PROVE  Same /\ Kept
    BY <2>2, <2>7
  <2> HIDE DEF Same, Removes, Kept, Quiet
  <2>8. (Same \/ Removes \/ \E s \in Fd : Accept(s)) /\ Kept
    BY <2>1, <2>3, <2>4, <2>5, <2>6, <2>7
  <2> QED BY <1>5, <2>8 DEF Same, Removes, Kept
<1>6. CASE Application
  <2>1. ASSUME NEW n \in Chan, NEW c \in Conn, sendFails(n, c)
        PROVE  Removes /\ Kept
    <3>1. Live(c) /\ killClient(c) /\ Kept
      BY <2>1 DEF sendFails, AppUnchanged
    <3>2. Removes
      <4> HIDE DEF Removes
      <4> QED BY <1>4, <3>1
    <3> QED BY <3>1, <3>2
  <2>2. CASE \E c \in Conn, a \in BOOLEAN : SetActive(c, a)
    BY <2>2 DEF SetActive, AppUnchanged, arrayVars
  <2>3. CASE \E c \in Conn, nick \in Nick : SetNick(c, nick)
    BY <2>3 DEF SetNick, AppUnchanged, arrayVars
  <2>4. CASE \E id \in Id, nick \in Nick : changeNick(id, nick)
    BY <2>4 DEF changeNick, AppUnchanged, arrayVars
  <2>5. CASE \E n \in Chan : createChannel(n) \/ deleteChannel(n) \/ sendToFreed(n)
    BY <2>5 DEF createChannel, deleteChannel, sendToFreed, AppUnchanged, arrayVars
  <2>6. CASE \E n \in Chan, c \in Conn : joinChannel(n, c) \/ leaveChannel(n, c)
    BY <2>6 DEF joinChannel, leaveChannel, AppUnchanged, arrayVars
  <2>7. CASE \E n \in Chan, c \in Conn : sendFails(n, c)
    <3> HIDE DEF Removes
    <3>1. Removes /\ Kept
      BY <2>1, <2>7
    <3> QED BY <3>1 DEF Removes
  <2> QED BY <1>6, <2>2, <2>3, <2>4, <2>5, <2>6, <2>7 DEF Application
<1> QED
  BY <1>1, <1>2, <1>3, <1>5, <1>6 DEF Next

\* In a first run every entry of the array has a descriptor of its own, so that it
\* never comes to one place before its capacity, where it would grow.
LEMMA AllocationKept ==
  ASSUME IsFiniteSet(Fd), Cardinality(Fd) < SocketsCap,
         IInv, PollInv, FirstAllocation, [Next]_vars
  PROVE  FirstAllocation'
<1> SUFFICES ASSUME starts' <= 1
             PROVE  /\ Len(sockets') <= room'
                    /\ cap' = 0 \/ (cap' = SocketsCap /\ room' = SocketsCap)
  BY DEF FirstAllocation
<1>0. /\ starts \in Nat /\ sockets \in Seq(Fd) /\ Len(sockets) \in Nat
      /\ SocketsCap \in Nat \ {0} /\ room \in Nat /\ cap \in Nat
  BY Known, RegistryAssumption DEF IInv, TypeOK
<1>1. /\ starts <= 1
      /\ Len(sockets) <= room
      /\ cap = 0 \/ (cap = SocketsCap /\ room = SocketsCap)
  <2>1. starts <= 1
    BY <1>0, ArraySteps
  <2> QED BY <2>1 DEF FirstAllocation
<1>2. CASE UNCHANGED <<sockets, cap, room>>
  BY <1>1, <1>2
<1>3. ASSUME NEW s \in Fd, sockets' = RemoveFirst(sockets, s), UNCHANGED <<cap, room>>
      PROVE  Len(sockets') <= room' /\ UNCHANGED <<cap, room>>
  <2>1. Len(sockets') = Len(sockets) \/ Len(sockets') = Len(sockets) - 1
    BY <1>0, <1>3, RemoveFirstShifts
  <2> QED BY <1>0, <1>1, <1>3, <2>1
<1>4. ASSUME ~fault, NEW s \in Fd, Accept(s)
      PROVE  /\ Len(sockets') <= room'
             /\ cap' = SocketsCap /\ room' = SocketsCap
  <2>1. /\ running /\ s \notin open /\ sockets' = Append(sockets, s)
        /\ addSocket(s)
    BY <1>4 DEF Accept, AtSelect, addSocket
  <2>2. ToSet(sockets) = open /\ OnceEach /\ open \subseteq Fd
    BY <1>1, <1>4, <2>1, Known DEF PollInv, FirstRun
  <2>3. Len(sockets) = Cardinality(open)
    BY <2>2, LengthCounts
  <2>4. Cardinality(open) + 1 <= Cardinality(Fd) /\ Cardinality(Fd) \in Nat
    <3>1. open \cup {s} \subseteq Fd /\ IsFiniteSet(open)
      BY <2>2, FS_Subset
    <3>2. Cardinality(open \cup {s}) = Cardinality(open) + 1
      BY <2>1, <3>1, FS_AddElement
    <3> QED BY <3>1, <3>2, FS_Subset, FS_CardinalityType
  <2>5. Len(sockets) + 1 < SocketsCap /\ Len(sockets') = Len(sockets) + 1
    BY <1>0, <2>1, <2>3, <2>4
  <2> QED BY <1>0, <1>1, <2>1, <2>5 DEF addSocket
<1> QED
  BY <1>1, <1>2, <1>3, <1>4, ArraySteps

\* With fewer descriptors than the first allocation has places, a server's first run
\* never writes behind the array (addSocket, Server.cpp:139-144): only realloc(),
\* whose size is counted in bytes, makes it too small.
THEOREM FewSocketsFit ==
  ASSUME IsFiniteSet(Fd), Cardinality(Fd) < SocketsCap
  PROVE  Spec => [](starts <= 1 => SocketsFit)
<1>1. Init => IInv /\ PollInv /\ FirstAllocation
  <2>1. Init => FirstAllocation
    BY DEF Init, FirstAllocation
  <2> QED BY <2>1, IInvInit, PollInvInit
<1>2. IInv /\ PollInv /\ FirstAllocation /\ [Next]_vars => (IInv /\ PollInv /\ FirstAllocation)'
  BY IInvPreserved, PollInvPreserved, AllocationKept
<1>3. FirstAllocation => (starts <= 1 => SocketsFit)
  BY DEF FirstAllocation, SocketsFit
<1> QED
  BY <1>1, <1>2, <1>3, PTL DEF Spec

===============================================================================
