------------------------------- MODULE Socket --------------------------------
(***************************************************************************)
(* What a connection sends to its client (shared/Networking/Socket,        *)
(* NetworkThread, game/Server/WorldSocket), in the build without completion*)
(* ports.  Threads of the world put packets into the MPSCQueue             *)
(* _bufferQueue and may close the socket; the network thread moves packets *)
(* into buffers, writes the buffers, waits when it cannot, closes and      *)
(* removes the socket.  It also answers the client by itself until there is*)
(* a session.                                                              *)
(*                                                                         *)
(* A packet is a node of the queue; a buffer holds up to BufferSize.       *)
(***************************************************************************)
EXTENDS MPSCQueue, Integers, SequencesExt

CONSTANTS
  Sender,       \* who sends a packet, a function on Node
  Challenge,    \* the packet of SendAuthSession
  Answer,       \* the packet of SendAuthResponseError
  BufferSize    \* _sendBufferSize

ASSUME SocketAssumption ==
  /\ Sender \in [Node -> Thread]
  /\ Challenge \in Node /\ Answer \in Node /\ Challenge # Answer
  /\ Sender[Challenge] = Consumer /\ Sender[Answer] = Consumer
  /\ BufferSize \in Nat \ {0}

OpenState_Closing == "closing"
OpenState_Closed  == "closed"

VARIABLES
  openState,        \* _openState, a set of the two flags
  writeQueue,       \* _writeQueue
  isWritingAsync,   \* _isWritingAsync
  network,          \* where the network thread is
  buffer,           \* the buffer of WorldSocket::Update
  admitted,         \* packets that SendPacket has found the socket open for
  session,          \* has the session been created?
  lost,             \* is the connection lost?
  kicked,           \* has the world closed the socket?
  sent,             \* the packets in the order of the queue
  wire              \* the packets that were written

socketVars == <<openState, writeQueue, isWritingAsync>>
world      == <<admitted, session, lost, kicked>>
vars       == <<queueVars, socketVars, world, network, buffer, sent, wire>>

TypeOK ==
  /\ QueueTypeOK
  /\ openState \subseteq {OpenState_Closing, OpenState_Closed}
  /\ writeQueue \in Seq(Seq(Node) \ {<<>>})
  /\ isWritingAsync \in BOOLEAN /\ (isWritingAsync => writeQueue # <<>>)
  /\ network \in {"idle", "dequeue", "update", "send", "callbacks", "answer", "close",
                  "removed"}
  /\ buffer \in Seq(Node) /\ Len(buffer) <= BufferSize
  /\ admitted \subseteq Node
  /\ session \in BOOLEAN /\ lost \in BOOLEAN /\ kicked \in BOOLEAN
  /\ sent \in Seq(Node) /\ wire \in Seq(Node)

Init ==
  /\ QueueInit
  /\ openState = {} /\ writeQueue = <<>> /\ isWritingAsync = FALSE
  /\ network = "idle" /\ buffer = <<>>
  /\ admitted = {} /\ session = FALSE /\ lost = FALSE /\ kicked = FALSE
  /\ sent = <<>> /\ wire = <<>>

IsOpen == openState = {}

IsNew(n) == n \notin admitted /\ n \notin Range(sent)

-----------------------------------------------------------------------------
(* The threads of the world.                                               *)

(* SendPacket, up to Enqueue.                                               *)
SendPacket(n) ==
  /\ session /\ Sender[n] # Consumer /\ IsNew(n) /\ IsOpen
  /\ \A m \in admitted : Sender[m] # Sender[n]
  /\ link[Sender[n]] = Nil
  /\ admitted' = admitted \cup {n}
  /\ UNCHANGED <<queueVars, socketVars, session, lost, kicked, network, buffer, sent, wire>>

Enqueue(n) ==
  /\ n \in admitted
  /\ Exchange(Sender[n], n)
  /\ admitted' = admitted \ {n} /\ sent' = Append(sent, n)
  /\ UNCHANGED <<tail, dequeue, taken, socketVars, session, lost, kicked, network, buffer, wire>>

EndEnqueue(t) ==
  /\ t # Consumer /\ Link(t)
  /\ UNCHANGED <<tail, dequeue, taken, socketVars, world, network, buffer, sent, wire>>

(* WorldSession::KickPlayer, CloseSocket.                                   *)
KickPlayer ==
  /\ session /\ ~ kicked
  /\ kicked' = TRUE
  /\ openState' = openState \cup {OpenState_Closed}
  /\ UNCHANGED <<queueVars, writeQueue, isWritingAsync, admitted, session, lost,
                 network, buffer, sent, wire>>

(* The connection is lost: all writes fail from now on.                     *)
LoseConnection ==
  /\ ~ lost /\ lost' = TRUE
  /\ UNCHANGED <<queueVars, socketVars, admitted, session, kicked, network, buffer, sent, wire>>

-----------------------------------------------------------------------------
(* HandleQueue: the first buffer is written, in part or not at all.         *)

CloseIfFlushed(rest) ==
  openState' = IF openState = {OpenState_Closing} /\ rest = <<>>
               THEN openState \cup {OpenState_Closed} ELSE openState

WriteFails == lost \/ OpenState_Closed \in openState

(* Written so far, but not taken off the buffer.                            *)
WriteSomeAgain(k) ==
  LET first == Head(writeQueue)
      rest  == Tail(writeQueue)
  IN /\ ~ WriteFails /\ k \in 1 .. Len(first)
     /\ wire' = wire \o SubSeq(first, 1, k)
     /\ IF k < Len(first)
        THEN isWritingAsync' = TRUE /\ UNCHANGED <<openState, writeQueue>>
        ELSE /\ writeQueue' = rest
             /\ isWritingAsync' = FALSE /\ CloseIfFlushed(rest)

WriteSome(k) ==
  LET first == Head(writeQueue)
      rest  == Tail(writeQueue)
  IN /\ ~ WriteFails /\ k \in 1 .. Len(first)
     /\ wire' = wire \o SubSeq(first, 1, k)
     /\ IF k < Len(first)
        THEN /\ writeQueue' = <<SubSeq(first, k + 1, Len(first))>> \o rest
             /\ isWritingAsync' = TRUE /\ UNCHANGED openState
        ELSE /\ writeQueue' = rest
             /\ isWritingAsync' = FALSE /\ CloseIfFlushed(rest)

WriteError ==
  /\ WriteFails
  /\ writeQueue' = Tail(writeQueue)
  /\ isWritingAsync' = FALSE /\ CloseIfFlushed(Tail(writeQueue))
  /\ UNCHANGED wire

WouldBlock ==
  /\ ~ WriteFails /\ isWritingAsync' = TRUE
  /\ UNCHANGED <<openState, writeQueue, wire>>

HandleQueue ==
  \/ WriteError \/ WouldBlock
  \/ \E k \in 1 .. BufferSize : WriteSome(k)

-----------------------------------------------------------------------------
(* The network thread: WorldSocket::Update and BaseSocket::Update.          *)

NetworkUnchanged == UNCHANGED <<world, sent>>

StartUpdate ==
  /\ network = "idle"
  /\ network' = "dequeue"
  /\ UNCHANGED <<queueVars, socketVars, buffer, wire>> /\ NetworkUnchanged

(* A packet goes into the buffer, which is queued when it is full; the rest *)
(* of it is queued when there are no more packets.                          *)
QueuePacket(b) == writeQueue' = IF b = <<>> THEN writeQueue ELSE Append(writeQueue, b)

Dequeue ==
  /\ network = "dequeue" /\ DequeueStep
  /\ \/ /\ dequeue' # "idle"
        /\ UNCHANGED <<network, buffer, writeQueue>>
     \/ /\ dequeue' = "idle" /\ taken' # taken
        /\ \E n \in taken' \ taken :
             IF Len(buffer) = BufferSize
             THEN QueuePacket(buffer) /\ buffer' = <<n>>
             ELSE buffer' = Append(buffer, n) /\ UNCHANGED writeQueue
        /\ UNCHANGED network
     \/ /\ dequeue' = "idle" /\ taken' = taken
        /\ QueuePacket(buffer) /\ buffer' = <<>>
        /\ network' = "update"
  /\ UNCHANGED <<openState, isWritingAsync, wire>> /\ NetworkUnchanged

UpdateWithNothingToSend ==
  /\ network = "update"
  /\ network' = IF isWritingAsync \/ writeQueue = <<>> THEN "callbacks"
                ELSE IF OpenState_Closed \in openState THEN "removed"
                ELSE "send"
  /\ UNCHANGED <<queueVars, socketVars, buffer, wire>> /\ NetworkUnchanged

(* BaseSocket::Update: when it returns false the thread removes the socket. *)
(* HandleQueue does nothing when there is nothing to write.                 *)
Update ==
  /\ network = "update"
  /\ network' = IF OpenState_Closed \in openState THEN "removed"
                ELSE IF isWritingAsync \/ writeQueue = <<>> THEN "callbacks"
                ELSE "send"
  /\ UNCHANGED <<queueVars, socketVars, buffer, wire>> /\ NetworkUnchanged

(* The loop of Update: until the queue is empty or a buffer is not written. *)
SendQueue ==
  /\ network = "send" /\ HandleQueue
  /\ network' = IF WriteFails \/ isWritingAsync' \/ writeQueue' = <<>>
                THEN "callbacks" ELSE "send"
  /\ UNCHANGED <<queueVars, buffer>> /\ NetworkUnchanged

(* WriteHandlerWrapper: the socket has become writable, or an error.        *)
WriteHandlerWrapper ==
  /\ network \in {"idle", "removed"} /\ isWritingAsync
  /\ WriteError \/ \E k \in 1 .. BufferSize : WriteSome(k)
  /\ UNCHANGED <<queueVars, network, buffer>> /\ NetworkUnchanged

(* ReadHandlerInternal with an error.                                       *)
ReadError ==
  /\ network = "idle" /\ lost /\ OpenState_Closed \notin openState
  /\ openState' = openState \cup {OpenState_Closed}
  /\ UNCHANGED <<queueVars, writeQueue, isWritingAsync, network, buffer, wire>>
  /\ NetworkUnchanged

-----------------------------------------------------------------------------
(* ProcessReadyCallbacks, at the end of Update.                             *)

NoCallback ==
  /\ network = "callbacks"
  /\ network' = "idle"
  /\ UNCHANGED <<queueVars, socketVars, buffer, wire>> /\ NetworkUnchanged

(* SendPacket by the network thread, up to the exchange.                    *)
Answers(n, then) ==
  /\ IF IsOpen
     THEN /\ Exchange(Consumer, n) /\ sent' = Append(sent, n)
          /\ network' = "answer"
     ELSE /\ network' = then
          /\ UNCHANGED <<next, head, link, sent>>
  /\ UNCHANGED <<tail, dequeue, taken, socketVars, world, buffer, wire>>

(* The address is not banned: SendAuthSession.                              *)
SendAuthSession ==
  /\ network = "callbacks" /\ sent = <<>> /\ ~ session
  /\ Answers(Challenge, "idle")

IsBannedAddress ==
  /\ network = "callbacks" /\ sent = <<>> /\ ~ session
  /\ network' = "close"
  /\ UNCHANGED <<queueVars, socketVars, buffer, wire>> /\ NetworkUnchanged

(* HandleAuthSessionCallback: the client has answered the challenge.        *)
Authenticates == network = "callbacks" /\ ~ session /\ wire = <<Challenge>> /\ IsNew(Answer)

SendAuthResponseError == Authenticates /\ Answers(Answer, "close")

CreateSession ==
  /\ Authenticates
  /\ session' = TRUE /\ network' = "idle"
  /\ UNCHANGED <<queueVars, socketVars, admitted, lost, kicked, buffer, sent, wire>>

EndAnswer ==
  /\ network = "answer" /\ Link(Consumer)
  /\ network' = IF IsNew(Answer) THEN "idle" ELSE "close"
  /\ UNCHANGED <<tail, dequeue, taken, socketVars, buffer, wire>> /\ NetworkUnchanged

DelayedCloseSocket ==
  /\ network = "close" /\ network' = "idle"
  /\ openState' = IF openState # {} THEN openState \cup {OpenState_Closing}
                  ELSE {OpenState_Closing}
                       \cup (IF writeQueue = <<>> THEN {OpenState_Closed} ELSE {})
  /\ UNCHANGED <<queueVars, writeQueue, isWritingAsync, buffer, wire>>
  /\ NetworkUnchanged

-----------------------------------------------------------------------------
NetworkStep ==
  \/ StartUpdate \/ Dequeue \/ Update \/ SendQueue \/ ReadError
  \/ NoCallback \/ SendAuthSession \/ IsBannedAddress \/ SendAuthResponseError
  \/ CreateSession \/ EndAnswer \/ DelayedCloseSocket

Next ==
  \/ NetworkStep \/ WriteHandlerWrapper \/ KickPlayer \/ LoseConnection
  \/ \E n \in Node : SendPacket(n) \/ Enqueue(n)
  \/ \E t \in Thread : EndEnqueue(t)

(* The network thread updates its sockets every millisecond, and its        *)
(* handlers get their turn in between; threads finish what they have begun; *)
(* and a client reads what it is sent, unless the connection is lost.       *)
Fairness ==
  /\ WF_vars(NetworkStep) /\ SF_vars(WriteHandlerWrapper)
  /\ \A t \in Thread : WF_vars(EndEnqueue(t))

Spec == Init /\ [][Next]_vars /\ Fairness

-----------------------------------------------------------------------------
(* Safety.                                                                 *)

(* The packets after the first ones that were written and up to those that  *)
(* were taken from the queue are in the buffers, one after the other: the   *)
(* i-th buffer of _writeQueue ends with the packet cut[i].                  *)
WaitsInOrder(written, all) ==
  LET last == Len(writeQueue)
  IN /\ all <= Len(sent)
     /\ \E cut \in [0 .. last -> 0 .. all] :
          /\ cut[0] = written
          /\ \A i \in 1 .. last : writeQueue[i] = SubSeq(sent, cut[i - 1] + 1, cut[i])
          /\ buffer = SubSeq(sent, cut[last] + 1, all)

(* The client receives packets in the order in which they were put into the *)
(* queue, each once and none left out (partial writes, full buffers and the *)
(* two queues in between notwithstanding).  Until a write fails, all that   *)
(* was taken from _bufferQueue has been written or waits in the buffers, and*)
(* who waits to write has something to write (TypeOK).                      *)
WireInOrder ==
  /\ TypeOK
  /\ Len(wire) <= Len(sent) /\ wire = SubSeq(sent, 1, Len(wire))
  /\ ~ WriteFails => WaitsInOrder(Len(wire), Cardinality(taken))

(* Socket.h says of OpenState_Closing: "Transition to Closed state after    *)
(* sending all queued data".                                               *)
ClosesAfterSending ==
  openState = {OpenState_Closing, OpenState_Closed} /\ ~ lost /\ ~ kicked
    => Range(sent) \subseteq Range(wire)

-----------------------------------------------------------------------------
(* Liveness.                                                               *)

(* A packet that was put into the queue is received, unless the socket is   *)
(* closed or the connection lost: no write is forgotten between the timer   *)
(* of Update and the handler that waits for the socket (_isWritingAsync).   *)
(* And a socket that is closed, by whichever thread, is removed.            *)
ConnectionProgresses ==
  /\ \A n \in Node : n \in Range(sent) ~> n \in Range(wire) \/ WriteFails
  /\ OpenState_Closed \in openState ~> network = "removed"

=============================================================================
