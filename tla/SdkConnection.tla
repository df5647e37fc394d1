----------------------------- MODULE SdkConnection -----------------------------
(***************************************************************************)
(* sdk/src/ws.ts and sdk/src/session.ts: a BuildSession of the client SDK  *)
(* and the connections it creates.  A connection is one call of            *)
(* createAgentConnection: it asks for a URL with a fresh ticket, opens a   *)
(* WebSocket, and tries again after a delay when either ends.  close()     *)
(* drops a connection, connect() creates the next one; what is still under *)
(* way in the old one goes on beside it.                                   *)
(*                                                                         *)
(* A step is one task of the event loop: an API call, a timer, the end of  *)
(* getUrl(), or an event of a WebSocket with the listeners it calls.       *)
(***************************************************************************)
EXTENDS Naturals, Sequences, FiniteSets

CONSTANTS
  Conns,        \* connections that may have something under way (bound)
  Sockets,      \* WebSocket objects in use (bound)
  MaxRetries,   \* retry.maxRetries (Infinity by default); 0 does what enabled = false does
  MaxQueue,     \* maxPendingSends, 1000 in the code
  MaxSends,     \* messages the program sends (bound)
  None

ASSUME SdkAssumption ==
  /\ MaxRetries \in Nat /\ MaxSends \in Nat
  /\ MaxQueue \in Nat \ {0}
  /\ None \notin Conns \cup Sockets

VARIABLES
  session,  \* this.connection and state.connection of the session
  conn,     \* the variables of each createAgentConnection call
  sock,     \* the WebSockets
  next,     \* the next message of the program
  handed,   \* history: the program's messages handed to an open socket
  echo      \* history: a connection the session has dropped called a listener

vars == <<session, conn, sock, next, handed, echo>>

-------------------------------------------------------------------------------
(* Types *)

\* A frame is a message of the program, or the greeting: session_init with the
\* credentials, followed by get_conversation_state.
Greeting == 0
Frames == 0..MaxSends

Session == [current : Conns \cup {None},
            shown   : {"disconnected", "connecting", "connected"}]

Connection == [closed   : BOOLEAN,             \* closedByUser
               isOpen   : BOOLEAN,
               ws       : Sockets \cup {None},
               attempts : 0..MaxRetries,       \* reconnectAttempts
               timers   : Nat,                 \* reconnect timers pending
               urls     : Nat,                 \* calls of getUrl in flight
               queue    : Seq(Frames)]         \* pendingSends

\* "closing" sockets have still to fire their close event.
Socket == [state : {"connecting", "open", "closing", "closed"},
           conn  : Conns \cup {None},
           said  : {"nothing", "greeting", "message"}]   \* first frame sent

TypeOK ==
  /\ session \in Session
  /\ conn \in [Conns -> Connection]
  /\ \A c \in Conns : Len(conn[c].queue) <= MaxQueue
  /\ sock \in [Sockets -> Socket]
  /\ next \in 1..(MaxSends + 1)
  /\ handed \subseteq 1..MaxSends
  /\ echo \in BOOLEAN

Unused == [closed |-> TRUE, isOpen |-> FALSE, ws |-> None, attempts |-> 0,
           timers |-> 0, urls |-> 0, queue |-> <<>>]

ClosedSocket == [state |-> "closed", conn |-> None, said |-> "nothing"]

Init ==
  /\ session = [current |-> None, shown |-> "disconnected"]
  /\ conn = [c \in Conns |-> Unused]
  /\ sock = [s \in Sockets |-> ClosedSocket]
  /\ next = 1
  /\ handed = {}
  /\ echo = FALSE

-------------------------------------------------------------------------------
(* Helpers *)

SocketsOf(c) == {s \in Sockets : sock[s].conn = c /\ sock[s].state # "closed"}

\* What a connection has under way towards an open socket, or with one.
Attempts(c) == conn[c].timers + conn[c].urls + Cardinality(SocketsOf(c))

FreeConns == {c \in Conns : c # session.current /\ Attempts(c) = 0}

FreeSockets ==
  {s \in Sockets : sock[s].state = "closed" /\ \A c \in Conns : conn[c].ws # s}

Messages(frames) == {frames[i] : i \in 1..Len(frames)} \ {Greeting}

\* Mutant: the queue has no limit.
EnqueueUnbounded(k, f) == [k EXCEPT !.queue = Append(@, f)]

\* A frame for later; the oldest goes when there are too many.
Enqueue(k, f) ==
  [k EXCEPT !.queue = IF Len(@) < MaxQueue THEN Append(@, f)
                      ELSE Append(Tail(@), f)]

\* Socket k when frames are handed to it; only an open one sends them.
Says(k, frames) ==
  [k EXCEPT !.said = IF k.state # "open" \/ @ # "nothing" \/ frames = <<>> THEN @
                     ELSE IF Head(frames) = Greeting THEN "greeting" ELSE "message"]

\* Mutant: a pending timer does not keep another from being set.
ScheduleAgain(k) ==
  IF k.closed \/ k.attempts >= MaxRetries
  THEN k
  ELSE [k EXCEPT !.timers = @ + 1, !.attempts = @ + 1]

\* scheduleReconnect
Schedule(k) ==
  IF k.closed \/ k.attempts >= MaxRetries \/ k.timers > 0
  THEN k
  ELSE [k EXCEPT !.timers = @ + 1, !.attempts = @ + 1]

OnError(k) == Schedule(k)

\* Mutant: the close event only schedules.
OnCloseStillOpen(k) == Schedule(k)

OnClose(k) == Schedule([k EXCEPT !.isOpen = FALSE])

\* The listeners of a connection keep calling the session that dropped it.
Heard(c) == echo' = (echo \/ c # session.current)

-------------------------------------------------------------------------------
(* The session's API *)

\* connect(), when the session has no connection.
Connect ==
  /\ session.current = None
  /\ \E c \in FreeConns :
       /\ session' = [current |-> c, shown |-> "connecting"]
       /\ conn' = [conn EXCEPT ![c] = [Unused EXCEPT !.closed = FALSE, !.urls = 1]]
  /\ UNCHANGED <<sock, next, handed, echo>>

\* startGeneration(), followUp(), deployPreview(), ...
Send ==
  LET c == session.current
  IN /\ c # None
     /\ next <= MaxSends
     /\ next' = next + 1
     /\ IF conn[c].isOpen /\ conn[c].ws # None
        THEN LET s == conn[c].ws
             IN /\ sock' = [sock EXCEPT ![s] = Says(@, <<next>>)]
                /\ handed' = IF sock[s].state = "open" THEN handed \cup {next} ELSE handed
                /\ UNCHANGED conn
        ELSE /\ conn' = [conn EXCEPT ![c] = Enqueue(@, next)]
             /\ UNCHANGED <<sock, handed>>
     /\ UNCHANGED <<session, echo>>

\* Mutant: the state of the session is kept.
CloseShowing ==
  LET c == session.current
      s == conn[c].ws
  IN /\ c # None
     /\ session' = [session EXCEPT !.current = None]
     /\ conn' = [conn EXCEPT ![c] = [Unused EXCEPT !.urls = conn[c].urls]]
     /\ sock' = IF s # None /\ sock[s].state \in {"connecting", "open"}
                THEN [sock EXCEPT ![s].state = "closing"] ELSE sock
     /\ UNCHANGED <<next, handed, echo>>

\* close(): of the connection only a call of getUrl and a socket that has still
\* to fire its close event are left.  (The code also keeps reconnectAttempts,
\* which nothing reads once closedByUser is set.)
Close ==
  LET c == session.current
      s == conn[c].ws
  IN /\ c # None
     /\ session' = [current |-> None, shown |-> "disconnected"]
     /\ conn' = [conn EXCEPT ![c] = [Unused EXCEPT !.urls = conn[c].urls]]
     /\ sock' = IF s # None /\ sock[s].state \in {"connecting", "open"}
                THEN [sock EXCEPT ![s].state = "closing"] ELSE sock
     /\ UNCHANGED <<next, handed, echo>>

-------------------------------------------------------------------------------
(* connectNow *)

TimerFires(c) ==
  /\ conn[c].timers > 0
  /\ conn' = [conn EXCEPT ![c].timers = @ - 1, ![c].urls = @ + 1]
  /\ UNCHANGED <<session, sock, next, handed, echo>>

\* getUrl() answers: closedByUser is not looked at again.
UrlArrives(c) ==
  /\ conn[c].urls > 0
  /\ \E s \in FreeSockets :
       /\ conn' = [conn EXCEPT ![c].urls = @ - 1, ![c].ws = s]
       /\ sock' = [sock EXCEPT ![s] = [ClosedSocket EXCEPT !.state = "connecting",
                                                          !.conn = c]]
  /\ UNCHANGED <<session, next, handed, echo>>

\* Mutant: without a URL there is nothing to try again.
UrlFailsQuietly(c) ==
  /\ conn[c].urls > 0
  /\ conn' = [conn EXCEPT ![c].urls = @ - 1]
  /\ UNCHANGED <<session, sock, next, handed, echo>>

\* getUrl() or the WebSocket constructor throws.
UrlFails(c) ==
  /\ conn[c].urls > 0
  /\ conn' = [conn EXCEPT ![c] = Schedule([conn[c] EXCEPT !.urls = @ - 1])]
  /\ UNCHANGED <<session, sock, next, handed, echo>>

-------------------------------------------------------------------------------
(* Events of the WebSockets *)

\* Mutant: the queue is flushed before the listeners of ws:open are called.
OpeningFramesFlushFirst(c) ==
  IF session.current = c THEN Append(conn[c].queue, Greeting) ELSE conn[c].queue

\* What connection c sends when its socket opens: the session's listener greets,
\* then the queue is flushed.
OpeningFrames(c) ==
  IF session.current = c THEN <<Greeting>> \o conn[c].queue ELSE conn[c].queue

\* Mutant: the queue is kept.
OpenedKeeping(k) == [k EXCEPT !.isOpen = TRUE, !.attempts = 0]

Opened(k) == [k EXCEPT !.isOpen = TRUE, !.attempts = 0, !.queue = <<>>]

\* onOpen.  The listener greets on the session's connection, which may be a
\* later one than the one whose socket has opened.
Opens(s) ==
  LET c == sock[s].conn
      d == session.current
      opened == [sock[s] EXCEPT !.state = "open"]
      sent == [sock EXCEPT ![s] = Says(opened, OpeningFrames(c))]
  IN /\ sock[s].state = "connecting"
     /\ session' = [session EXCEPT !.shown = "connected"]
     /\ IF d \in {c, None}
        THEN /\ sock' = sent
             /\ conn' = [conn EXCEPT ![c] = Opened(@)]
        ELSE IF conn[d].isOpen /\ conn[d].ws # None
             THEN /\ sock' = [sent EXCEPT ![conn[d].ws] = Says(@, <<Greeting>>)]
                  /\ conn' = [conn EXCEPT ![c] = Opened(@)]
             ELSE /\ sock' = sent
                  /\ conn' = [conn EXCEPT ![c] = Opened(@),
                                          ![d] = Enqueue(@, Greeting)]
     /\ handed' = handed \cup Messages(conn[c].queue)
     /\ Heard(c)
     /\ UNCHANGED next

\* The server closes, or the network does; the socket has still to say so.
ServerCloses(s) ==
  /\ sock[s].state = "open"
  /\ sock' = [sock EXCEPT ![s].state = "closing"]
  /\ UNCHANGED <<session, conn, next, handed, echo>>

\* The close event.
SocketEnds(s) ==
  LET c == sock[s].conn
  IN /\ sock[s].state = "closing"
     /\ sock' = [sock EXCEPT ![s] = ClosedSocket]
     /\ conn' = [conn EXCEPT ![c] = OnClose(@)]
     /\ session' = [session EXCEPT !.shown = "disconnected"]
     /\ Heard(c)
     /\ UNCHANGED <<next, handed>>

\* An error event, with the close event in the same task; not every runtime
\* fires the latter when the socket has never been open.
SocketFails(s) ==
  LET c == sock[s].conn
  IN /\ \/ /\ sock[s].state \in {"connecting", "open"}
           /\ conn' = [conn EXCEPT ![c] = OnClose(OnError(@))]
           /\ session' = [session EXCEPT !.shown = "disconnected"]
        \/ /\ sock[s].state = "connecting"
           /\ conn' = [conn EXCEPT ![c] = OnError(@)]
           /\ UNCHANGED session
     /\ sock' = [sock EXCEPT ![s] = ClosedSocket]
     /\ Heard(c)
     /\ UNCHANGED <<next, handed>>

-------------------------------------------------------------------------------

ConnStep(c) == TimerFires(c) \/ UrlArrives(c) \/ UrlFails(c)

SocketStep(s) == Opens(s) \/ ServerCloses(s) \/ SocketEnds(s) \/ SocketFails(s)

Next ==
  \/ Connect \/ Send \/ Close
  \/ \E c \in Conns : ConnStep(c)
  \/ \E s \in Sockets : SocketStep(s)

Spec == Init /\ [][Next]_vars

\* Timers fire; requests and handshakes end, one way or the other.
FairSpec ==
  /\ Spec
  /\ \A c \in Conns : WF_vars(TimerFires(c)) /\ WF_vars(UrlArrives(c) \/ UrlFails(c))
  /\ \A s \in Sockets :
       /\ WF_vars(sock[s].state = "connecting" /\ (Opens(s) \/ SocketFails(s)))
       /\ WF_vars(SocketEnds(s))

-------------------------------------------------------------------------------
(* Properties *)

\* A connection works at one thing at a time: it waits for its timer, for a URL,
\* or has one socket.  Two would receive every message of the agent twice.
OneAttempt == \A c \in Conns : Attempts(c) <= 1

\* "Connections automatically reconnect": a session that has neither a socket
\* nor an attempt under way has used up its retries.
NeverStranded ==
  \A c \in Conns : session.current = c /\ Attempts(c) = 0 =>
    conn[c].attempts = MaxRetries

\* The agent knows the credentials before it is asked for anything: on every
\* socket session_init comes first, also when messages were queued.
CredentialsFirst == \A s \in Sockets : sock[s].said # "message"

\* Messages reach the agent in the order in which the program sent them, and
\* none reaches it twice, across reconnections and reopened sessions: what still
\* waits in a queue is in order, and later than all that was handed to a socket.
InOrder ==
  \A c \in Conns : \A i \in 1..Len(conn[c].queue) :
    LET f == conn[c].queue[i]
    IN f # Greeting => /\ \A m \in handed : m < f
                       /\ \A j \in 1..(i - 1) : conn[c].queue[j] < f

\* isOpen is the state of the socket of `ws` up to its close event, so send()
\* never hands a message to a socket that is still connecting, and a message is
\* queued only while none is open.
OpenIsHonest ==
  \A c \in Conns :
    /\ conn[c].isOpen => /\ conn[c].ws # None
                         /\ sock[conn[c].ws].conn = c
                         /\ sock[conn[c].ws].state \in {"open", "closing"}
    /\ conn[c].isOpen => conn[c].queue = <<>>

\* What the session shows is what its connection is, until a connection that the
\* session has dropped calls its listeners.
ShownIsTrue ==
  ~echo => /\ session.shown = "connected" =>
                session.current # None /\ conn[session.current].isOpen
           /\ session.current # None /\ conn[session.current].isOpen =>
                session.shown = "connected"

\* "Close the session": a session that was closed has no open socket.  The code
\* keeps it unless close() comes while getUrl() is in flight.
CloseIsFinal == \A s \in Sockets : sock[s].state = "open" => ~conn[sock[s].conn].closed

\* A queued message is sent, dropped by close(), or left when retries are used
\* up; it never waits on a connection that could still be tried.
QueueSettles ==
  \A c \in Conns :
    conn[c].queue # <<>> ~> conn[c].queue = <<>> \/ conn[c].attempts = MaxRetries
===============================================================================
