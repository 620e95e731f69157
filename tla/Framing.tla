--------------------------------- MODULE Framing -------------------------------
(***************************************************************************)
(* One direction of one connection: Socket::send and Server::send(Channel) *)
(* with their mutex on the one side, Socket::receive on the other, and a   *)
(* byte stream between them that is cut anywhere.                          *)
(*                                                                         *)
(* A byte is <<f, k>>, the k-th byte of the f-th frame that was begun.  The *)
(* first Header bytes of a frame hold its length, header included, and the *)
(* first Header bytes of anything else could hold any.                     *)
(***************************************************************************)
EXTENDS Naturals, Sequences, FiniteSets

CONSTANTS
  Sender,     \* threads that send to the connection
  None,
  Header,     \* SOCKET_HEADER
  MaxLen,     \* bound: the length that a header can say
  Lengths,    \* bound: the lengths of the frames that are sent
  MaxFrames,  \* bound: frames sent
  Window      \* bytes in flight, at most

ASSUME FramingAssumption ==
  /\ IsFiniteSet(Sender) /\ None \notin Sender
  /\ Header \in Nat \ {0} /\ MaxLen \in Nat /\ Lengths \subseteq Header..MaxLen
  /\ MaxFrames \in Nat /\ Window \in Nat \ {0}

VARIABLES
  pc,         \* where a sender is
  frame,      \* the frame a sender is writing, 0 before its first byte
  done,       \* how many bytes of it are written
  length,     \* and how many there will be
  locked,     \* the sender came through send(Channel), which locks
  mutex,      \* Thread::mutex exists
  owner,      \* the thread that has locked it
  clash,      \* two threads created the mutex, or one locked it unfinished
  size,       \* history: the lengths of the frames that were begun
  channel,    \* history: which of them came through send(Channel)
  wire,       \* history: the bytes that were written
  open,       \* the connection works
  taken,      \* how many bytes were read
  start,      \* where in the stream the frame being read starts
  want,       \* its length; 0 before it is known
  delivered,  \* history: the frames that receive() returned; 0 for any others
  gone        \* receive() has returned nothing

senderVars   == <<pc, frame, done, length, locked>>
mutexVars    == <<mutex, owner, clash>>
wireVars     == <<size, channel, wire>>
receiverVars == <<taken, start, want, delivered, gone>>
vars == <<senderVars, mutexVars, wireVars, open, receiverVars>>

Pc == {"idle", "lock", "create", "init", "acquire", "write", "kill", "unlock"}

Frame == 1..MaxFrames

TypeOK ==
  /\ pc \in [Sender -> Pc]
  /\ frame \in [Sender -> Frame \cup {0}]
  /\ done \in [Sender -> 0..MaxLen] /\ length \in [Sender -> 0..MaxLen]
  /\ locked \in [Sender -> BOOLEAN]
  /\ mutex \in BOOLEAN /\ owner \in Sender \cup {None} /\ clash \in BOOLEAN
  /\ size \in Seq(Lengths) /\ channel \in Seq(BOOLEAN)
  /\ Len(size) <= MaxFrames /\ Len(channel) = Len(size)
  /\ wire \in Seq(Frame \X (1..MaxLen)) /\ open \in BOOLEAN
  /\ taken \in Nat /\ start \in Nat /\ want \in Nat
  /\ delivered \in Seq(Frame \cup {0}) /\ gone \in BOOLEAN

\* The n-th byte is where it belongs: behind the end of a frame if it starts
\* one, otherwise behind the byte before it in its frame.
Follows(n) ==
  LET f == wire[n][1]
      k == wire[n][2]
  IN  IF k > 1 THEN n > 1 /\ wire[n - 1] = <<f, k - 1>>
      ELSE n > 1 => wire[n - 1][2] = size[wire[n - 1][1]]

Torn == \E n \in 1..Len(wire) : ~Follows(n)

-----------------------------------------------------------------------------
(* Calls.  A frame is at least a header; the length is put into it.  Bounds: *)
(* a call begins while the connection works (it may break during the call)  *)
(* and the stream is whole, and nobody goes on calling for ever.            *)

MayCall(t, n) ==
  /\ pc[t] = "idle"
  /\ open /\ ~Torn
  /\ Len(size) + Cardinality({s \in Sender : pc[s] # "idle"}) < MaxFrames
  /\ length' = [length EXCEPT ![t] = n]
  /\ UNCHANGED <<frame, done, mutexVars, wireVars, open, receiverVars>>

\* send(Channel)
CallChannel(t, n) ==
  /\ MayCall(t, n)
  /\ locked' = [locked EXCEPT ![t] = TRUE]
  /\ pc' = [pc EXCEPT ![t] = "lock"]

\* send(Connection), Client::send and addClient's answer: Socket::send.
CallSend(t, n) ==
  /\ MayCall(t, n)
  /\ locked' = [locked EXCEPT ![t] = FALSE]
  /\ pc' = [pc EXCEPT ![t] = "write"]

-----------------------------------------------------------------------------
(* Thread::lock and unlock: the first to come creates the mutex. *)

LockTest(t) ==
  /\ pc[t] = "lock"
  /\ pc' = [pc EXCEPT ![t] = IF mutex THEN "acquire" ELSE "create"]
  /\ UNCHANGED <<frame, done, length, locked, mutexVars, wireVars, open, receiverVars>>

\* createMutex deletes a mutex that is there by now, locked or not: both
\* threads may pass.
Create(t) ==
  /\ pc[t] = "create"
  /\ mutex' = TRUE /\ owner' = None /\ clash' = (clash \/ mutex)
  /\ pc' = [pc EXCEPT ![t] = "init"]
  /\ UNCHANGED <<frame, done, length, locked, wireVars, open, receiverVars>>

\* Only then does it initialise what the others can see already.
InitMutex(t) ==
  /\ pc[t] = "init"
  /\ owner' = None
  /\ pc' = [pc EXCEPT ![t] = "acquire"]
  /\ UNCHANGED <<frame, done, length, locked, mutex, clash, wireVars, open, receiverVars>>

\* Who locks it before that clashes with its creator, too.
Early == \E s \in Sender : pc[s] = "init"

\* A slip of send(Channel): it returns early with the mutex locked.
AcquireReturning(t) ==
  /\ pc[t] = "acquire"
  /\ owner = None
  /\ owner' = t /\ clash' = (clash \/ Early)
  /\ pc' = [pc EXCEPT ![t] = IF open THEN "write" ELSE "idle"]
  /\ UNCHANGED <<frame, done, length, locked, mutex, wireVars, open, receiverVars>>

\* A slip of send(Channel): it does not wait for the mutex.
AcquireAnyway(t) ==
  /\ pc[t] = "acquire"
  /\ owner' = t /\ clash' = (clash \/ Early)
  /\ pc' = [pc EXCEPT ![t] = IF open THEN "write" ELSE "unlock"]
  /\ UNCHANGED <<frame, done, length, locked, mutex, wireVars, open, receiverVars>>

\* The connections that do not work any more are not in the channel.
Acquire(t) ==
  /\ pc[t] = "acquire"
  /\ owner = None
  /\ owner' = t /\ clash' = (clash \/ Early)
  /\ pc' = [pc EXCEPT ![t] = IF open THEN "write" ELSE "unlock"]
  /\ UNCHANGED <<frame, done, length, locked, mutex, wireVars, open, receiverVars>>

Unlock(t) ==
  /\ pc[t] = "unlock"
  /\ owner' = None
  /\ pc' = [pc EXCEPT ![t] = "idle"]
  /\ UNCHANGED <<frame, done, length, locked, mutex, clash, wireVars, open, receiverVars>>

-----------------------------------------------------------------------------
(* tcp_send, which writes the bytes as the stream takes them. *)

Pieces(f, from, n) == [i \in 1..n |-> <<f, from + i>>]

\* The call returns when all is written.
Written(t, f, to) ==
  IF to < length[t]
  THEN /\ frame' = [frame EXCEPT ![t] = f] /\ done' = [done EXCEPT ![t] = to]
       /\ UNCHANGED pc
  ELSE /\ frame' = [frame EXCEPT ![t] = 0] /\ done' = [done EXCEPT ![t] = 0]
       /\ pc' = [pc EXCEPT ![t] = IF locked[t] THEN "unlock" ELSE "idle"]

\* A slip of tcp_send's caller: one byte too many is asked for.
WriteOnePast(t, k) ==
  /\ pc[t] = "write"
  /\ open
  /\ k <= length[t] - done[t] + 1 /\ Len(wire) + k - taken <= Window
  /\ LET f == IF done[t] = 0 THEN Len(size) + 1 ELSE frame[t] IN
       /\ wire' = wire \o Pieces(f, done[t], k)
       /\ Written(t, f, done[t] + k)
  /\ IF done[t] = 0
     THEN size' = Append(size, length[t]) /\ channel' = Append(channel, locked[t])
     ELSE UNCHANGED <<size, channel>>
  /\ UNCHANGED <<length, locked, mutexVars, open, receiverVars>>

Write(t, k) ==
  /\ pc[t] = "write"
  /\ open
  /\ k <= length[t] - done[t] /\ Len(wire) + k - taken <= Window
  /\ LET f == IF done[t] = 0 THEN Len(size) + 1 ELSE frame[t] IN
       /\ wire' = wire \o Pieces(f, done[t], k)
       /\ Written(t, f, done[t] + k)
  /\ IF done[t] = 0
     THEN size' = Append(size, length[t]) /\ channel' = Append(channel, locked[t])
     ELSE UNCHANGED <<size, channel>>
  /\ UNCHANGED <<length, locked, mutexVars, open, receiverVars>>

WriteEnds(t, l) ==
  /\ pc[t] = "write"
  /\ frame' = [frame EXCEPT ![t] = 0] /\ done' = [done EXCEPT ![t] = 0]
  /\ pc' = [pc EXCEPT ![t] = l]
  /\ UNCHANGED <<length, locked, mutexVars, wireVars, receiverVars>>

\* tcp_send returns less than it was given, as after a signal: Socket::send
\* returns 0, and what is written is written.
SendShort(t) ==
  /\ ~locked[t]
  /\ WriteEnds(t, "idle")
  /\ UNCHANGED open

\* send(Channel) then kills the connection: killClient closes it and calls
\* the listener, all with the mutex locked.
ChannelShort(t) ==
  /\ locked[t]
  /\ WriteEnds(t, "kill")
  /\ open' = FALSE

\* The listener returns from SM_KILL_CLIENT.
ListenerReturns(t) ==
  /\ pc[t] = "kill"
  /\ pc' = [pc EXCEPT ![t] = "unlock"]
  /\ UNCHANGED <<frame, done, length, locked, mutexVars, wireVars, open, receiverVars>>

\* The listener announces the departure to the clients that are left, as the
\* one of examples/server.cpp does: send(Channel) once more.
ListenerAnnounces(t) ==
  /\ pc[t] = "kill"
  /\ pc' = [pc EXCEPT ![t] = "lock"]
  /\ UNCHANGED <<frame, done, length, locked, mutexVars, wireVars, open, receiverVars>>

\* The peer or the network ends the connection.
Breaks ==
  /\ open
  /\ open' = FALSE
  /\ UNCHANGED <<senderVars, mutexVars, wireVars, receiverVars>>

-----------------------------------------------------------------------------
(* Socket::receive, called again after each frame it returns. *)

receiverOnly == UNCHANGED <<senderVars, mutexVars, wireVars, open>>

\* The n bytes of the stream after `start' are the first n of frame f.
Holds(f, n) == \A i \in 1..n : wire[start + i] = <<f, i>>

\* What SOCKET_HEADER_LEN reads from the header at `start': any number, if
\* that is not the header of a frame.
LengthRead(l) ==
  \A f \in 1..Len(size) : Holds(f, Header) => l = size[f]

\* tcp_recv, asked for m bytes, returns k.
Takes(k, m) ==
  /\ ~gone
  /\ k <= m /\ taken + k <= Len(wire)
  /\ taken' = taken + k

\* The loop for the header goes on.
ReceiveHeaderPart(k) ==
  /\ want = 0
  /\ Takes(k, start + Header - taken)
  /\ taken' < start + Header
  /\ UNCHANGED <<start, want, delivered, gone>>
  /\ receiverOnly

\* The frame that receive() returns.
Deliver(n) ==
  /\ delivered' = Append(delivered,
       IF \E f \in 1..Len(size) : n = size[f] /\ Holds(f, n)
       THEN wire[start + 1][1] ELSE 0)
  /\ start' = start + n
  /\ want' = 0
  /\ UNCHANGED gone

Gives(g) == gone' = g /\ UNCHANGED <<start, want, delivered>>

\* A slip of receive(): a frame that is only a header is refused.
ReceiveHeaderWithBody(k, l) ==
  /\ want = 0
  /\ Takes(k, start + Header - taken)
  /\ taken' = start + Header
  /\ LengthRead(l)
  /\ \/ l <= Header /\ Gives(TRUE)
     \/ l > Header /\ want' = l /\ UNCHANGED <<start, delivered, gone>>
  /\ receiverOnly

\* The header is complete.  A length that does not even cover the header, 0
\* among them, ends in a return of nothing.
ReceiveHeader(k, l) ==
  /\ want = 0
  /\ Takes(k, start + Header - taken)
  /\ taken' = start + Header
  /\ LengthRead(l)
  /\ \/ l < Header /\ Gives(TRUE)
     \/ l = Header /\ Deliver(l)
     \/ l > Header /\ want' = l /\ UNCHANGED <<start, delivered, gone>>
  /\ receiverOnly

\* A slip of receive(): the length is taken for that of the body.
ReceiveBodyLong(k) ==
  /\ want > 0
  /\ Takes(k, start + Header + want - taken)
  /\ IF taken' = start + Header + want THEN Deliver(Header + want) ELSE Gives(FALSE)
  /\ receiverOnly

\* The loop for the body, up to the frame's length.
ReceiveBody(k) ==
  /\ want > 0
  /\ Takes(k, start + want - taken)
  /\ IF taken' = start + want THEN Deliver(want) ELSE Gives(FALSE)
  /\ receiverOnly

\* tcp_recv returns 0 or -1, an error on a connection that works among them:
\* what was read of a frame is dropped, and the caller closes the connection.
ReceiveFails ==
  /\ ~gone
  /\ Gives(TRUE)
  /\ open' = FALSE
  /\ UNCHANGED <<senderVars, mutexVars, wireVars, taken>>

-----------------------------------------------------------------------------

Init ==
  /\ pc = [t \in Sender |-> "idle"] /\ frame = [t \in Sender |-> 0]
  /\ done = [t \in Sender |-> 0] /\ length = [t \in Sender |-> 0]
  /\ locked = [t \in Sender |-> FALSE]
  /\ mutex = FALSE /\ owner = None /\ clash = FALSE
  /\ size = <<>> /\ channel = <<>> /\ wire = <<>> /\ open = TRUE
  /\ taken = 0 /\ start = 0 /\ want = 0 /\ delivered = <<>> /\ gone = FALSE

SenderStep(t) ==
  \/ LockTest(t) \/ Create(t) \/ InitMutex(t) \/ Acquire(t) \/ Unlock(t)
  \/ \E k \in 1..MaxLen : Write(t, k)
  \/ (~open \/ gone) /\ (SendShort(t) \/ ChannelShort(t))
  \/ ListenerReturns(t) \/ ListenerAnnounces(t)

ReceiverStep ==
  \/ \E k \in 1..MaxLen :
       \/ ReceiveHeaderPart(k) \/ ReceiveBody(k)
       \/ \E l \in 0..MaxLen : ReceiveHeader(k, l)
  \/ ~open /\ ReceiveFails

Environment ==
  \/ Breaks \/ ReceiveFails
  \/ \E t \in Sender :
       \/ SendShort(t) \/ ChannelShort(t)
       \/ \E n \in Lengths : CallChannel(t, n) \/ CallSend(t, n)

Next == ReceiverStep \/ Environment \/ \E t \in Sender : SenderStep(t)

Spec == Init /\ [][Next]_vars

FairSpec ==
  /\ Spec /\ WF_vars(ReceiverStep)
  /\ \A t \in Sender : WF_vars(SenderStep(t))

-----------------------------------------------------------------------------
(* Properties. *)

\* The mutex is there so that the frames of two threads do not mix on a
\* socket: where the stream is torn, one of the two frames came in by
\* Socket::send, which does not lock, or two threads met in creating the mutex.
\* A frame that send(Channel) has cut short is never followed by another.
LockedNeverTear ==
  ~clash =>
    \A n \in 2..Len(wire) :
      Follows(n) \/ ~channel[wire[n][1]] \/ ~channel[wire[n - 1][1]]

\* Whatever happens to send(Channel) between lock() and unlock(), nobody left to
\* send to, a connection that is killed, a listener that is called, the mutex is
\* left neither locked nor to another: who holds it is on its way to unlock(), or
\* its listener has gone to lock it once more, and nobody else is in between.
HeldInside ==
  ~clash =>
    /\ owner # None =>
         locked[owner] /\ pc[owner] \in {"write", "kill", "unlock", "lock", "acquire"}
    /\ \A t \in Sender :
         locked[t] /\ pc[t] \in {"write", "kill", "unlock"} => owner = t

\* Frames arrive whole, once and in order, however the stream cuts them, as
\* long as it is not torn.
Queue == INSTANCE FrameQueue WITH sent <- Len(size), spoilt <- Torn

ImplementsQueue == Queue!Spec

\* A sender waits for a mutex that it has locked itself.
SelfLocked == \E t \in Sender : pc[t] = "acquire" /\ owner = t

\* Every send() returns, unless some listener announces a departure with the
\* mutex locked: then none of them does.
SendReturns ==
  \A t \in Sender : pc[t] # "idle" ~> pc[t] = "idle" \/ SelfLocked \/ clash

\* What is written arrives, unless the connection breaks or is torn.
FramesArrive ==
  \A f \in Frame :
    f <= Len(size) /\ wire # <<>> /\ wire[Len(wire)] = <<f, size[f]>> ~>
      Len(delivered) >= f \/ Torn \/ ~open
================================================================================
