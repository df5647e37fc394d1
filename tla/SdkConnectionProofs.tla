--------------------------- MODULE SdkConnectionProofs ---------------------------
(* Proofs about SdkConnection, for any number of connections, sockets, retries  *)
(* and messages.                                                                *)
EXTENDS SdkConnection, FiniteSetTheorems, TLAPS

\* A dropped connection has nothing to send and nothing to wait for; only a call
\* of getUrl and a socket may be left of it.
Lifecycle ==
  \A c \in Conns :
    /\ conn[c].closed <=> c # session.current
    /\ conn[c].closed => conn[c].timers = 0 /\ conn[c].queue = <<>>

\* What OneAttempt counts, without counting.
Idle(c) == conn[c].timers = 0 /\ conn[c].urls = 0 /\ SocketsOf(c) = {}

Exclusive ==
  \A c \in Conns :
    /\ conn[c].timers + conn[c].urls <= 1
    /\ conn[c].timers + conn[c].urls = 1 => SocketsOf(c) = {}
    /\ \A s, t \in SocketsOf(c) : s = t

\* NeverStranded likewise.
Retrying ==
  \A c \in Conns : session.current = c /\ Idle(c) => conn[c].attempts = MaxRetries

\* A socket that can still open, or is open, is the `ws` of its connection, and
\* the greeting was its first frame unless the session has dropped it.
LastSocket ==
  \A s \in Sockets :
    /\ sock[s].state # "closed" => sock[s].conn \in Conns
    /\ sock[s].state \in {"connecting", "open"} => conn[sock[s].conn].ws = s
    /\ sock[s].state = "open" /\ sock[s].conn = session.current =>
         sock[s].said = "greeting"

\* No two connections share a socket.
OwnSocket ==
  \A c, d \in Conns : conn[c].ws = conn[d].ws => c = d \/ conn[c].ws = None

\* Only messages that were sent are handed to a socket or wait in a queue.
Sent ==
  /\ handed \subseteq 1..(next - 1)
  /\ \A c \in Conns : \A i \in 1..Len(conn[c].queue) : conn[c].queue[i] < next

Safe ==
  /\ TypeOK /\ Lifecycle /\ Exclusive /\ Retrying /\ LastSocket /\ OwnSocket /\ Sent
  /\ CredentialsFirst /\ InOrder /\ OpenIsHonest /\ ShownIsTrue

-------------------------------------------------------------------------------
(* Helpers *)

\* A connection is idle exactly when it attempts nothing.
LEMMA AttemptsCount ==
  ASSUME TypeOK, Exclusive, NEW c \in Conns
  PROVE  Attempts(c) <= 1 /\ (Attempts(c) = 0 <=> Idle(c))
  <1>1. conn[c].timers \in Nat /\ conn[c].urls \in Nat
    BY DEF TypeOK, Connection
  <1>2. CASE SocketsOf(c) = {}
    <2>1. Cardinality(SocketsOf(c)) = 0
      BY <1>2, FS_EmptySet
    <2>2. QED
      BY <1>1, <1>2, <2>1 DEF Exclusive, Attempts, Idle
  <1>3. CASE SocketsOf(c) # {}
    <2>1. PICK s : s \in SocketsOf(c)
      BY <1>3
    <2>2. SocketsOf(c) = {s}
      BY <2>1 DEF Exclusive
    <2>3. Cardinality(SocketsOf(c)) = 1
      BY <2>2, FS_Singleton
    <2>4. QED
      BY <1>1, <1>3, <2>3 DEF Exclusive, Attempts, Idle
  <1>4. QED
    BY <1>2, <1>3

LEMMA ScheduleFacts ==
  ASSUME NEW k \in Connection
  PROVE  /\ Schedule(k) \in Connection
         /\ Schedule(k).closed = k.closed /\ Schedule(k).isOpen = k.isOpen
         /\ Schedule(k).ws = k.ws /\ Schedule(k).urls = k.urls
         /\ Schedule(k).queue = k.queue
         /\ \/ Schedule(k).timers = k.timers
            \/ ~k.closed /\ k.timers = 0 /\ Schedule(k).timers = 1
         /\ ~k.closed /\ Schedule(k).timers = 0 => Schedule(k).attempts = MaxRetries
  <1>1. CASE k.closed \/ k.attempts >= MaxRetries \/ k.timers > 0
    <2>1. Schedule(k) = k
      BY <1>1 DEF Schedule
    <2>2. QED
      BY <1>1, <2>1, SdkAssumption DEF Connection
  <1>2. CASE ~(k.closed \/ k.attempts >= MaxRetries \/ k.timers > 0)
    <2>1. Schedule(k) = [k EXCEPT !.timers = @ + 1, !.attempts = @ + 1]
      BY <1>2 DEF Schedule
    <2>2. k.timers = 0 /\ ~k.closed /\ k.attempts + 1 \in 0..MaxRetries
      BY <1>2, SdkAssumption DEF Connection
    <2>3. Schedule(k) = [k EXCEPT !.timers = 1, !.attempts = k.attempts + 1]
      BY <2>1, <2>2 DEF Connection
    <2>4. Schedule(k) \in Connection
      <3> DEFINE r == [k EXCEPT !.timers = 1]
      <3>1. r \in Connection
        BY DEF Connection
      <3>2. [r EXCEPT !.attempts = k.attempts + 1] \in Connection
        <4> HIDE DEF r
        <4>1. QED
          BY <2>2, <3>1 DEF Connection
      <3>3. QED
        BY <2>3, <3>2
    <2>5. Schedule(k).timers = 1
      BY <2>3 DEF Connection
    <2>6. /\ Schedule(k).closed = k.closed /\ Schedule(k).isOpen = k.isOpen
          /\ Schedule(k).ws = k.ws /\ Schedule(k).urls = k.urls
          /\ Schedule(k).queue = k.queue
      BY <2>3 DEF Connection
    <2>7. QED
      BY <2>2, <2>4, <2>5, <2>6
  <1>3. QED
    BY <1>1, <1>2

LEMMA EnqueueFacts ==
  ASSUME NEW k \in Connection, Len(k.queue) <= MaxQueue, NEW f \in Frames
  PROVE  /\ Enqueue(k, f) \in Connection
         /\ Len(Enqueue(k, f).queue) <= MaxQueue
         /\ Enqueue(k, f).closed = k.closed /\ Enqueue(k, f).isOpen = k.isOpen
         /\ Enqueue(k, f).ws = k.ws /\ Enqueue(k, f).urls = k.urls
         /\ Enqueue(k, f).timers = k.timers /\ Enqueue(k, f).attempts = k.attempts
         /\ LET q == Enqueue(k, f).queue
            IN /\ q # <<>> /\ q[Len(q)] = f
               /\ \E d \in {0, 1} : \A i \in 1..(Len(q) - 1) :
                    i + d \in 1..Len(k.queue) /\ q[i] = k.queue[i + d]
  <1> DEFINE q == IF Len(k.queue) < MaxQueue THEN Append(k.queue, f)
                  ELSE Append(Tail(k.queue), f)
  <1>1. k.queue \in Seq(Frames) /\ Len(k.queue) \in Nat
    BY DEF Connection
  <1>2. /\ q \in Seq(Frames) /\ Len(q) <= MaxQueue
        /\ q # <<>> /\ q[Len(q)] = f
        /\ \E d \in {0, 1} : \A i \in 1..(Len(q) - 1) :
             i + d \in 1..Len(k.queue) /\ q[i] = k.queue[i + d]
    <2>1. CASE Len(k.queue) < MaxQueue
      <3>1. q = Append(k.queue, f) /\ Len(q) = Len(k.queue) + 1
        BY <1>1, <2>1
      <3>2. \A i \in 1..(Len(q) - 1) :
              i + 0 \in 1..Len(k.queue) /\ q[i] = k.queue[i + 0]
        BY <1>1, <3>1
      <3>3. QED
        BY <1>1, <2>1, <3>1, <3>2, SdkAssumption
    <2>2. CASE ~(Len(k.queue) < MaxQueue)
      <3>1. k.queue # <<>>
        BY <1>1, <2>2, SdkAssumption
      <3>2. /\ Tail(k.queue) \in Seq(Frames) /\ Len(Tail(k.queue)) = Len(k.queue) - 1
            /\ \A i \in 1..(Len(k.queue) - 1) : Tail(k.queue)[i] = k.queue[i + 1]
        BY <1>1, <3>1
      <3>3. q = Append(Tail(k.queue), f) /\ Len(q) = Len(k.queue)
        BY <1>1, <2>2, <3>2
      <3>4. \A i \in 1..(Len(q) - 1) :
              i + 1 \in 1..Len(k.queue) /\ q[i] = k.queue[i + 1]
        BY <1>1, <3>2, <3>3
      <3>5. q \in Seq(Frames) /\ q # <<>> /\ q[Len(q)] = f
        BY <1>1, <3>1, <3>2, <3>3
      <3>6. QED
        BY <1>1, <3>3, <3>4, <3>5
    <2>3. QED
      BY <2>1, <2>2
  <1>3. Enqueue(k, f) = [k EXCEPT !.queue = q]
    BY DEF Enqueue
  <1>4. Enqueue(k, f).queue = q
    BY <1>3 DEF Connection
  <1> HIDE DEF q
  <1>5. QED
    BY <1>2, <1>3, <1>4 DEF Connection

LEMMA SaysFacts ==
  ASSUME NEW k \in Socket, NEW frames \in Seq(Frames)
  PROVE  /\ Says(k, frames) \in Socket
         /\ Says(k, frames).state = k.state /\ Says(k, frames).conn = k.conn
         /\ k.said # "nothing" => Says(k, frames).said = k.said
         /\ k.said = "nothing" /\ k.state = "open" /\ frames # <<>> =>
              Says(k, frames).said =
                IF Head(frames) = Greeting THEN "greeting" ELSE "message"
         /\ k.state # "open" \/ frames = <<>> => Says(k, frames).said = k.said
  BY DEF Says, Socket

\* InOrder, of one queue.
Ordered(q, h) ==
  \A i \in 1..Len(q) :
    q[i] # Greeting => /\ \A m \in h : m < q[i]
                       /\ \A j \in 1..(i - 1) : q[j] < q[i]

LEMMA OrderedQueues == InOrder <=> \A c \in Conns : Ordered(conn[c].queue, handed)
  BY DEF InOrder, Ordered

LEMMA EnqueueOrdered ==
  ASSUME NEW k \in Connection, Len(k.queue) <= MaxQueue, NEW f \in Frames, NEW h,
         Ordered(k.queue, h),
         f = Greeting \/ ((\A m \in h : m < f) /\ \A i \in 1..Len(k.queue) : k.queue[i] < f)
  PROVE  Ordered(Enqueue(k, f).queue, h)
  <1> DEFINE q == Enqueue(k, f).queue
  <1>1. q \in Seq(Frames) /\ k.queue \in Seq(Frames)
    BY EnqueueFacts DEF Connection
  <1>2. PICK d \in {0, 1} : \A i \in 1..(Len(q) - 1) :
          i + d \in 1..Len(k.queue) /\ q[i] = k.queue[i + d]
    BY EnqueueFacts
  <1>3. q[Len(q)] = f
    BY EnqueueFacts
  <1> HIDE DEF q
  <1>4. SUFFICES ASSUME NEW i \in 1..Len(q), q[i] # Greeting
                 PROVE  /\ \A m \in h : m < q[i]
                        /\ \A j \in 1..(i - 1) : q[j] < q[i]
    BY DEF Ordered, q
  <1>5. Len(q) \in Nat /\ Len(k.queue) \in Nat
    BY <1>1
  <1>6. CASE i = Len(q)
    BY <1>2, <1>3, <1>4, <1>5, <1>6
  <1>7. CASE i # Len(q)
    <2>1. i + d \in 1..Len(k.queue) /\ q[i] = k.queue[i + d]
      BY <1>2, <1>5, <1>7
    <2>2. \A j \in 1..(i - 1) : j + d \in 1..((i + d) - 1) /\ q[j] = k.queue[j + d]
      BY <1>2, <1>5, <1>7
    <2>3. QED
      BY <1>4, <2>1, <2>2 DEF Ordered
  <1>8. QED
    BY <1>6, <1>7

\* A connection with no more than n calls of getUrl.
Bare(closed, n) == [Unused EXCEPT !.closed = closed, !.urls = n]

LEMMA BareFacts ==
  ASSUME NEW b \in BOOLEAN, NEW n \in Nat
  PROVE  /\ Bare(b, n) \in Connection
         /\ Bare(b, n).closed = b /\ ~Bare(b, n).isOpen /\ Bare(b, n).ws = None
         /\ Bare(b, n).timers = 0 /\ Bare(b, n).urls = n
         /\ Bare(b, n).queue = <<>> /\ Len(Bare(b, n).queue) = 0
         /\ Len(Bare(b, n).queue) <= MaxQueue
  <1> DEFINE u == Unused
  <1>1. <<>> \in Seq(Frames) /\ Len(<<>>) = 0 /\ 0 \in 0..MaxRetries
    BY SdkAssumption
  <1>2. u \in Connection
    BY <1>1 DEF Unused, Connection
  <1>3. /\ ~u.isOpen /\ u.ws = None /\ u.timers = 0 /\ u.queue = <<>>
    BY DEF Unused
  <1>4. Bare(b, n) = [u EXCEPT !.closed = b, !.urls = n]
    BY DEF Bare
  <1> HIDE DEF u
  <1>5. QED
    <2>1. Bare(b, n).queue = <<>>
      BY <1>2, <1>3, <1>4 DEF Connection
    <2>2. Len(<<>>) <= MaxQueue
      BY <1>1, SdkAssumption
    <2>3. QED
      BY <1>1, <1>2, <1>3, <1>4, <2>1, <2>2 DEF Connection

LEMMA BareClosed ==
  ASSUME NEW n \in Nat
  PROVE  Bare(TRUE, n) = [Unused EXCEPT !.urls = n]
  <1> DEFINE u == Unused
  <1>1. u \in Connection /\ u.closed = TRUE
    <2>1. <<>> \in Seq(Frames) /\ 0 \in 0..MaxRetries
      BY SdkAssumption
    <2>2. QED
      BY <2>1 DEF Unused, Connection
  <1>2. Bare(TRUE, n) = [u EXCEPT !.closed = TRUE, !.urls = n]
    BY DEF Bare
  <1> HIDE DEF u
  <1>3. [u EXCEPT !.closed = TRUE, !.urls = n] = [u EXCEPT !.urls = n]
    BY <1>1 DEF Connection
  <1>4. QED
    BY <1>2, <1>3 DEF u

\* One connection is replaced, and nothing else changes in the others.
LEMMA ReplaceFacts ==
  ASSUME TypeOK, NEW c \in Conns, NEW k \in Connection, Len(k.queue) <= MaxQueue,
         conn' = [conn EXCEPT ![c] = k]
  PROVE  /\ conn' \in [Conns -> Connection] /\ conn'[c] = k
         /\ \A d \in Conns : d # c => conn'[d] = conn[d]
         /\ \A d \in Conns : Len(conn'[d].queue) <= MaxQueue
  BY DEF TypeOK

-------------------------------------------------------------------------------
(* The session's API *)

LEMMA ConnectKeeps ==
  ASSUME Safe, Connect
  PROVE  Safe'
  <1>1. PICK c \in FreeConns :
          /\ session' = [current |-> c, shown |-> "connecting"]
          /\ conn' = [conn EXCEPT ![c] = [Unused EXCEPT !.closed = FALSE, !.urls = 1]]
    BY DEF Connect
  <1>2. /\ session.current = None /\ c \in Conns /\ c # None
        /\ UNCHANGED <<sock, next, handed, echo>>
    BY SdkAssumption DEF Connect, FreeConns
  <1>3. Idle(c)
    BY <1>1, AttemptsCount DEF Safe, FreeConns
  <1>4. /\ conn' \in [Conns -> Connection]
        /\ \A d \in Conns : d # c => conn'[d] = conn[d]
        /\ \A d \in Conns : Len(conn'[d].queue) <= MaxQueue
        /\ ~conn'[c].closed /\ ~conn'[c].isOpen /\ conn'[c].ws = None
        /\ conn'[c].timers = 0 /\ conn'[c].urls = 1
        /\ conn'[c].queue = <<>> /\ Len(conn'[c].queue) = 0
    <2>1. conn' = [conn EXCEPT ![c] = Bare(FALSE, 1)]
      BY <1>1 DEF Bare
    <2>2. QED
      <3>1. Bare(FALSE, 1) \in Connection /\ Len(Bare(FALSE, 1).queue) <= MaxQueue
        BY BareFacts
      <3>2. /\ ~Bare(FALSE, 1).closed /\ ~Bare(FALSE, 1).isOpen
            /\ Bare(FALSE, 1).ws = None /\ Bare(FALSE, 1).timers = 0
            /\ Bare(FALSE, 1).urls = 1 /\ Bare(FALSE, 1).queue = <<>>
            /\ Len(Bare(FALSE, 1).queue) = 0
        BY BareFacts
      <3>3. QED
        BY <1>2, <2>1, <3>1, <3>2, ReplaceFacts DEF Safe
  <1>5. \A d \in Conns : SocketsOf(d)' = SocketsOf(d)
    BY <1>2 DEF SocketsOf
  <1>6. TypeOK'
    BY <1>1, <1>2, <1>4, SdkAssumption DEF Safe, TypeOK, Session
  <1>7. Lifecycle' /\ Retrying'
    BY <1>1, <1>2, <1>4, SdkAssumption DEF Safe, Lifecycle, Retrying, Idle
  <1>11. Exclusive'
    <2>1. ASSUME NEW d \in Conns, d # c
          PROVE  /\ conn'[d].timers + conn'[d].urls <= 1
                 /\ conn'[d].timers + conn'[d].urls = 1 => SocketsOf(d)' = {}
                 /\ \A s, t \in SocketsOf(d)' : s = t
      BY <1>4, <1>5, <2>1 DEF Safe, Exclusive
    <2>2. conn'[c].timers + conn'[c].urls = 1 /\ SocketsOf(c)' = {}
      BY <1>2, <1>3, <1>4, <1>5 DEF Idle
    <2>3. QED
      BY <2>1, <2>2 DEF Exclusive
  <1>8. LastSocket' /\ OwnSocket'
    BY <1>1, <1>2, <1>3, <1>4 DEF Safe, LastSocket, OwnSocket, Idle, SocketsOf
  <1>9. Sent' /\ InOrder'
    BY <1>2, <1>4 DEF Safe, Sent, InOrder
  <1>12. CredentialsFirst' /\ OpenIsHonest' /\ ShownIsTrue'
    BY <1>1, <1>2, <1>4 DEF Safe, CredentialsFirst, OpenIsHonest, ShownIsTrue
  <1>10. QED
    BY <1>6, <1>7, <1>8, <1>9, <1>11, <1>12 DEF Safe

LEMMA CloseKeeps ==
  ASSUME Safe, Close
  PROVE  Safe'
  <1> DEFINE c == session.current
             s == conn[c].ws
  <1>1. /\ c \in Conns
        /\ session' = [current |-> None, shown |-> "disconnected"]
        /\ conn' = [conn EXCEPT ![c] = [Unused EXCEPT !.urls = conn[c].urls]]
        /\ sock' = IF s # None /\ sock[s].state \in {"connecting", "open"}
                   THEN [sock EXCEPT ![s].state = "closing"] ELSE sock
        /\ UNCHANGED <<next, handed, echo>>
    BY DEF Close, Safe, TypeOK, Session
  <1>2. s \in Sockets \cup {None} /\ conn[c].urls \in Nat
    BY <1>1 DEF Safe, TypeOK, Connection
  <1> HIDE DEF c, s
  <1>3. /\ conn' \in [Conns -> Connection]
        /\ \A d \in Conns : d # c => conn'[d] = conn[d]
        /\ \A d \in Conns : Len(conn'[d].queue) <= MaxQueue
        /\ conn'[c].closed /\ ~conn'[c].isOpen /\ conn'[c].ws = None
        /\ conn'[c].timers = 0 /\ conn'[c].urls = conn[c].urls
        /\ conn'[c].queue = <<>> /\ Len(conn'[c].queue) = 0
    <2> DEFINE k == Bare(TRUE, conn[c].urls)
    <2>1. k = [Unused EXCEPT !.urls = conn[c].urls]
      BY <1>2, BareClosed
    <2>2. conn' = [conn EXCEPT ![c] = k]
      BY <1>1, <2>1
    <2>3. k \in Connection /\ Len(k.queue) <= MaxQueue
      BY <1>2, BareFacts
    <2>4. /\ k.closed /\ ~k.isOpen /\ k.ws = None /\ k.timers = 0
          /\ k.urls = conn[c].urls /\ k.queue = <<>> /\ Len(k.queue) = 0
      BY <1>2, BareFacts
    <2> HIDE DEF k
    <2>5. QED
      BY <1>1, <2>2, <2>3, <2>4, ReplaceFacts DEF Safe
  <1>4. /\ sock' \in [Sockets -> Socket]
        /\ \A t \in Sockets : sock'[t].conn = sock[t].conn /\ sock'[t].said = sock[t].said
        /\ \A t \in Sockets : t # s => sock'[t] = sock[t]
        /\ s \in Sockets => sock'[s].state \in {"closing", "closed"}
        /\ \A t \in Sockets : sock'[t].state = "closed" <=> sock[t].state = "closed"
    BY <1>1, <1>2, SdkAssumption DEF Safe, TypeOK, Socket
  <1>5. \A d \in Conns : SocketsOf(d)' = SocketsOf(d)
    BY <1>4 DEF SocketsOf
  <1>6. TypeOK'
    BY <1>1, <1>3, <1>4, SdkAssumption DEF Safe, TypeOK, Session
  <1>7. Lifecycle' /\ Retrying'
    BY <1>1, <1>3, SdkAssumption DEF Safe, Lifecycle, Retrying, c
  <1>8. Exclusive'
    <2>1. \A d \in Conns : /\ conn'[d].timers \in {0, conn[d].timers}
                           /\ conn'[d].urls = conn[d].urls
                           /\ conn[d].timers \in Nat /\ conn[d].urls \in Nat
      BY <1>1, <1>3 DEF Safe, TypeOK, Connection
    <2>2. QED
      BY <1>5, <2>1 DEF Safe, Exclusive
  <1>9. LastSocket'
    <2> SUFFICES ASSUME NEW t \in Sockets
                 PROVE  /\ sock'[t].state # "closed" => sock'[t].conn \in Conns
                        /\ sock'[t].state \in {"connecting", "open"} =>
                             conn'[sock'[t].conn].ws = t
                        /\ sock'[t].state = "open" => sock'[t].conn # None
      BY <1>1 DEF LastSocket
    <2>1. CASE t = s
      BY <1>4, <2>1 DEF Safe, LastSocket
    <2>2. CASE t # s
      BY <1>1, <1>3, <1>4, <2>2, SdkAssumption DEF Safe, LastSocket, s
    <2>3. QED
      BY <2>1, <2>2
  <1>10. Sent' /\ InOrder' /\ ShownIsTrue'
    BY <1>1, <1>3 DEF Safe, Sent, InOrder, ShownIsTrue
  <1>11. CredentialsFirst'
    BY <1>4 DEF Safe, CredentialsFirst
  <1>12. OpenIsHonest'
    <2> SUFFICES ASSUME NEW d \in Conns, d # c, conn[d].isOpen
                 PROVE  /\ conn[d].ws # None /\ sock'[conn[d].ws].conn = d
                        /\ sock'[conn[d].ws].state \in {"open", "closing"}
                        /\ conn[d].queue = <<>>
      BY <1>3 DEF OpenIsHonest
    <2>1. /\ conn[d].ws \in Sockets /\ sock[conn[d].ws].conn = d
          /\ sock[conn[d].ws].state \in {"open", "closing"} /\ conn[d].queue = <<>>
      BY DEF Safe, OpenIsHonest, TypeOK, Connection
    <2>2. conn[d].ws # s
      BY <1>1, <2>1, SdkAssumption DEF Safe, OwnSocket, s
    <2>3. QED
      BY <1>4, <2>1, <2>2, SdkAssumption
  <1>13. OwnSocket'
    BY <1>3 DEF Safe, OwnSocket
  <1>14. QED
    BY <1>6, <1>7, <1>8, <1>9, <1>10, <1>11, <1>12, <1>13 DEF Safe

LEMMA SendKeeps ==
  ASSUME Safe, Send
  PROVE  Safe'
  <1> DEFINE c == session.current
             s == conn[c].ws
  <1>1. /\ c \in Conns /\ next <= MaxSends /\ next' = next + 1
        /\ UNCHANGED <<session, echo>>
    BY DEF Send, Safe, TypeOK, Session
  <1>2. /\ next \in Frames /\ next # Greeting /\ next \in Nat /\ MaxSends \in Nat
        /\ next' \in 1..(MaxSends + 1)
    BY <1>1, SdkAssumption DEF Safe, TypeOK, Frames, Greeting
  <1>3. \A d \in Conns : conn[d].queue \in Seq(Frames) /\ Len(conn[d].queue) \in Nat
    BY DEF Safe, TypeOK, Connection
  <1>4. CASE conn[c].isOpen /\ s # None
    <2>1. /\ sock' = [sock EXCEPT ![s] = Says(@, <<next>>)]
          /\ handed' = IF sock[s].state = "open" THEN handed \cup {next} ELSE handed
          /\ conn' = conn
      BY <1>4 DEF Send
    <2>2. /\ s \in Sockets /\ sock[s].conn = c /\ sock[s].state \in {"open", "closing"}
          /\ conn[c].queue = <<>>
      BY <1>1, <1>4 DEF Safe, OpenIsHonest, TypeOK, Connection
    <2>3. sock[s].state = "open" => sock[s].said = "greeting"
      BY <2>2 DEF Safe, LastSocket
    <2> HIDE DEF s
    <2>4. /\ Says(sock[s], <<next>>) \in Socket
          /\ Says(sock[s], <<next>>).state = sock[s].state
          /\ Says(sock[s], <<next>>).conn = sock[s].conn
          /\ Says(sock[s], <<next>>).said = sock[s].said
      <3>1. sock[s] \in Socket /\ <<next>> \in Seq(Frames)
        BY <1>2, <2>2 DEF Safe, TypeOK
      <3>2. QED
        BY <2>2, <2>3, <3>1, SaysFacts
    <2>5. /\ sock' \in [Sockets -> Socket]
          /\ \A t \in Sockets : /\ sock'[t].state = sock[t].state
                                /\ sock'[t].conn = sock[t].conn
                                /\ sock'[t].said = sock[t].said
      BY <2>1, <2>2, <2>4 DEF Safe, TypeOK
    <2>6. \A d \in Conns : SocketsOf(d)' = SocketsOf(d)
      BY <2>5 DEF SocketsOf
    <2>7. TypeOK'
      BY <1>1, <1>2, <2>1, <2>5 DEF Safe, TypeOK
    <2>8. Lifecycle' /\ Exclusive' /\ Retrying' /\ OwnSocket' /\ ShownIsTrue'
      BY <1>1, <2>1, <2>6
      DEF Safe, Lifecycle, Exclusive, Retrying, Idle, OwnSocket, ShownIsTrue
    <2>9. LastSocket' /\ CredentialsFirst'
      BY <1>1, <2>1, <2>5 DEF Safe, LastSocket, CredentialsFirst
    <2>10. OpenIsHonest'
      <3>1. \A d \in Conns : conn[d].isOpen => conn[d].ws \in Sockets
        BY DEF Safe, OpenIsHonest, TypeOK, Connection
      <3>2. QED
        BY <2>1, <2>5, <3>1 DEF Safe, OpenIsHonest
    <2>11. \A d \in Conns : conn[d].queue = <<>>
      BY <1>1, <2>2 DEF Safe, Lifecycle
    <2>12. Sent'
      BY <1>1, <1>2, <2>1, <2>11 DEF Safe, Sent, TypeOK
    <2>13. InOrder'
      BY <2>1, <2>11 DEF InOrder
    <2>14. QED
      BY <2>7, <2>8, <2>9, <2>10, <2>12, <2>13 DEF Safe
  <1>5. CASE ~(conn[c].isOpen /\ s # None)
    <2>1. conn' = [conn EXCEPT ![c] = Enqueue(conn[c], next)] /\ UNCHANGED <<sock, handed>>
      BY <1>5 DEF Send
    <2>2. conn[c] \in Connection /\ Len(conn[c].queue) <= MaxQueue
      BY <1>1 DEF Safe, TypeOK
    <2> DEFINE k == Enqueue(conn[c], next)
    <2>3. /\ k \in Connection /\ Len(k.queue) <= MaxQueue
          /\ k.closed = conn[c].closed /\ k.isOpen = conn[c].isOpen /\ k.ws = conn[c].ws
          /\ k.urls = conn[c].urls /\ k.timers = conn[c].timers
          /\ k.attempts = conn[c].attempts
      BY <1>2, <2>2, EnqueueFacts
    <2>4. Ordered(k.queue, handed)
      <3>1. (\A m \in handed : m < next)
             /\ \A i \in 1..Len(conn[c].queue) : conn[c].queue[i] < next
        <4>1. handed \subseteq 1..(next - 1)
          BY DEF Safe, Sent
        <4>2. \A i \in 1..Len(conn[c].queue) : conn[c].queue[i] < next
          BY <1>1 DEF Safe, Sent
        <4>3. QED
          BY <1>2, <4>1, <4>2
      <3>2. Ordered(conn[c].queue, handed)
        BY <1>1, OrderedQueues DEF Safe
      <3>3. QED
        BY <1>2, <2>2, <3>1, <3>2, EnqueueOrdered
    <2>5. \A i \in 1..Len(k.queue) : k.queue[i] < next + 1
      <3>1. k.queue[Len(k.queue)] = next
        BY <1>2, <2>2, EnqueueFacts
      <3>2. PICK d \in {0, 1} : \A i \in 1..(Len(k.queue) - 1) :
              i + d \in 1..Len(conn[c].queue) /\ k.queue[i] = conn[c].queue[i + d]
        BY <1>2, <2>2, EnqueueFacts
      <3>3. k.queue \in Seq(Frames) /\ Len(k.queue) \in Nat
        BY <2>3 DEF Connection
      <3> HIDE DEF k
      <3>4. ASSUME NEW i \in 1..(Len(k.queue) - 1)
            PROVE  k.queue[i] < next + 1
        <4>1. i + d \in 1..Len(conn[c].queue) /\ k.queue[i] = conn[c].queue[i + d]
          BY <3>2
        <4>2. conn[c].queue[i + d] < next
          BY <1>1, <4>1 DEF Safe, Sent
        <4>3. conn[c].queue[i + d] \in Frames
          BY <1>1, <1>3, <4>1
        <4>4. QED
          BY <1>2, <4>1, <4>2, <4>3, SdkAssumption DEF Frames
      <3>5. QED
        BY <1>2, <3>1, <3>3, <3>4
    <2> HIDE DEF k
    <2>6. conn' = [conn EXCEPT ![c] = k]
      BY <2>1 DEF k
    <2>7. /\ conn' \in [Conns -> Connection] /\ conn'[c] = k
          /\ \A d \in Conns : d # c => conn'[d] = conn[d]
          /\ \A d \in Conns : Len(conn'[d].queue) <= MaxQueue
      BY <1>1, <2>3, <2>6, ReplaceFacts DEF Safe
    <2>8. TypeOK'
      BY <1>1, <1>2, <2>1, <2>7 DEF Safe, TypeOK
    <2>9. \A d \in Conns : SocketsOf(d)' = SocketsOf(d)
      BY <2>1 DEF SocketsOf
    <2>10. Lifecycle' /\ OwnSocket' /\ ShownIsTrue'
      BY <1>1, <2>3, <2>7 DEF Safe, Lifecycle, OwnSocket, ShownIsTrue
    <2>11. \A d \in Conns : /\ conn'[d].timers = conn[d].timers
                            /\ conn'[d].urls = conn[d].urls
                            /\ conn'[d].attempts = conn[d].attempts
                            /\ conn'[d].ws = conn[d].ws
                            /\ conn'[d].isOpen = conn[d].isOpen
      BY <2>3, <2>7
    <2>12. Exclusive' /\ Retrying'
      BY <1>1, <2>9, <2>11 DEF Safe, Exclusive, Retrying, Idle
    <2>13. LastSocket' /\ CredentialsFirst'
      BY <1>1, <2>1, <2>11 DEF Safe, LastSocket, CredentialsFirst
    <2>14. OpenIsHonest'
      BY <1>5, <2>1, <2>3, <2>7 DEF Safe, OpenIsHonest
    <2>15. Sent'
      <3>1. handed' \subseteq 1..(next' - 1)
        BY <1>1, <1>2, <2>1 DEF Safe, Sent
      <3>2. ASSUME NEW d \in Conns, d # c, NEW i \in 1..Len(conn[d].queue)
            PROVE  conn[d].queue[i] < next + 1
        BY <1>2, <1>3 DEF Safe, Sent, Frames
      <3>3. QED
        BY <1>1, <2>5, <2>7, <3>1, <3>2 DEF Sent
    <2>16. InOrder'
      <3>1. \A d \in Conns : Ordered(conn'[d].queue, handed')
        BY <2>1, <2>4, <2>7, OrderedQueues DEF Safe
      <3>2. QED
        BY <3>1 DEF InOrder, Ordered
    <2>17. QED
      BY <2>8, <2>10, <2>12, <2>13, <2>14, <2>15, <2>16 DEF Safe
  <1>6. QED
    BY <1>4, <1>5

-------------------------------------------------------------------------------
(* connectNow *)

\* Only the timers, the calls of getUrl and the attempts of c change, to k's.
LEMMA CountersKeep ==
  ASSUME Safe, NEW c \in Conns, NEW k \in Connection,
         conn' = [conn EXCEPT ![c] = k], UNCHANGED <<session, sock, next, handed, echo>>,
         k.closed = conn[c].closed, k.isOpen = conn[c].isOpen, k.ws = conn[c].ws,
         k.queue = conn[c].queue,
         k.closed => k.timers = 0,
         SocketsOf(c) = {} \/ k.timers + k.urls = 0,
         k.timers + k.urls <= 1,
         c = session.current /\ k.timers + k.urls = 0 /\ SocketsOf(c) = {} =>
           k.attempts = MaxRetries
  PROVE  Safe'
  <1>1. /\ conn' \in [Conns -> Connection] /\ conn'[c] = k
        /\ \A d \in Conns : d # c => conn'[d] = conn[d]
        /\ \A d \in Conns : Len(conn'[d].queue) <= MaxQueue
    BY ReplaceFacts DEF Safe, TypeOK
  <1>2. \A d \in Conns : /\ conn'[d].closed = conn[d].closed
                         /\ conn'[d].isOpen = conn[d].isOpen
                         /\ conn'[d].ws = conn[d].ws
                         /\ conn'[d].queue = conn[d].queue
    BY <1>1
  <1>3. \A d \in Conns : SocketsOf(d)' = SocketsOf(d)
    BY DEF SocketsOf
  <1>4. k.timers \in Nat /\ k.urls \in Nat
    BY DEF Connection
  <1>5. TypeOK'
    BY <1>1 DEF Safe, TypeOK
  <1>6. Lifecycle'
    BY <1>1, <1>2 DEF Safe, Lifecycle
  <1>7. Exclusive'
    <2>1. ASSUME NEW d \in Conns, d # c
          PROVE  /\ conn'[d].timers + conn'[d].urls <= 1
                 /\ conn'[d].timers + conn'[d].urls = 1 => SocketsOf(d)' = {}
                 /\ \A s, t \in SocketsOf(d)' : s = t
      BY <1>1, <1>3, <2>1 DEF Safe, Exclusive
    <2>2. \A s, t \in SocketsOf(c)' : s = t
      BY <1>3 DEF Safe, Exclusive
    <2>3. k.timers + k.urls = 1 => SocketsOf(c)' = {}
      BY <1>3, <1>4
    <2>4. QED
      BY <1>1, <2>1, <2>2, <2>3 DEF Exclusive
  <1>8. Retrying'
    <2>1. ASSUME NEW d \in Conns, session.current = d, Idle(d)', d # c
          PROVE  conn'[d].attempts = MaxRetries
      BY <1>1, <1>3, <2>1 DEF Safe, Retrying, Idle
    <2>2. c = session.current /\ Idle(c)' => conn'[c].attempts = MaxRetries
      BY <1>1, <1>3, <1>4 DEF Idle
    <2>3. QED
      BY <2>1, <2>2 DEF Retrying
  <1>9. LastSocket' /\ OwnSocket' /\ CredentialsFirst' /\ ShownIsTrue'
    <2>1. session' = session /\ session.current \in Conns \cup {None}
      BY DEF Safe, TypeOK, Session
    <2>2. QED
      BY <1>2, <2>1, SdkAssumption
      DEF Safe, LastSocket, OwnSocket, CredentialsFirst, ShownIsTrue
  <1>10. OpenIsHonest'
    BY <1>2 DEF Safe, OpenIsHonest
  <1>11. Sent' /\ InOrder'
    BY <1>2 DEF Safe, Sent, InOrder
  <1>12. QED
    BY <1>5, <1>6, <1>7, <1>8, <1>9, <1>10, <1>11 DEF Safe

LEMMA TimerFiresKeeps ==
  ASSUME Safe, NEW c \in Conns, TimerFires(c)
  PROVE  Safe'
  <1> DEFINE k == [conn[c] EXCEPT !.timers = @ - 1, !.urls = @ + 1]
  <1>1. conn[c] \in Connection /\ conn[c].timers \in Nat /\ conn[c].urls \in Nat
    BY DEF Safe, TypeOK, Connection
  <1>2. conn[c].timers > 0
    BY DEF TimerFires
  <1>3. conn[c].timers + conn[c].urls <= 1
    BY DEF Safe, Exclusive
  <1>4. conn[c].timers = 1 /\ conn[c].urls = 0
    BY <1>1, <1>2, <1>3
  <1>5. SocketsOf(c) = {} /\ ~conn[c].closed
    BY <1>4 DEF Safe, Exclusive, Lifecycle
  <1>6. conn' = [conn EXCEPT ![c] = k] /\ UNCHANGED <<session, sock, next, handed, echo>>
    BY DEF TimerFires, Safe, TypeOK
  <1>7. k = [conn[c] EXCEPT !.timers = 0, !.urls = 1]
    BY <1>1, <1>4
  <1> HIDE DEF k
  <1>8. /\ k \in Connection /\ k.timers = 0 /\ k.urls = 1
        /\ k.closed = conn[c].closed /\ k.isOpen = conn[c].isOpen
        /\ k.ws = conn[c].ws /\ k.queue = conn[c].queue
    BY <1>1, <1>7 DEF Connection
  <1>9. k.timers + k.urls <= 1 /\ k.timers + k.urls # 0
    BY <1>8
  <1>10. QED
    BY <1>5, <1>6, <1>8, <1>9, CountersKeep

LEMMA UrlFailsKeeps ==
  ASSUME Safe, NEW c \in Conns, UrlFails(c)
  PROVE  Safe'
  <1> DEFINE b == [conn[c] EXCEPT !.urls = @ - 1]
             k == Schedule(b)
  <1>1. conn[c] \in Connection /\ conn[c].timers \in Nat /\ conn[c].urls \in Nat
    BY DEF Safe, TypeOK, Connection
  <1>2. conn[c].urls > 0
    BY DEF UrlFails
  <1>3. conn[c].timers + conn[c].urls <= 1
    BY DEF Safe, Exclusive
  <1>4. conn[c].timers = 0 /\ conn[c].urls = 1
    BY <1>1, <1>2, <1>3
  <1>5. SocketsOf(c) = {}
    BY <1>4 DEF Safe, Exclusive
  <1>6. conn[c].closed <=> c # session.current
    BY DEF Safe, Lifecycle
  <1>7. conn' = [conn EXCEPT ![c] = k] /\ UNCHANGED <<session, sock, next, handed, echo>>
    BY DEF UrlFails
  <1>8. b = [conn[c] EXCEPT !.urls = 0]
    BY <1>1, <1>4
  <1> HIDE DEF b
  <1>9. /\ b \in Connection /\ b.timers = 0 /\ b.urls = 0
        /\ b.closed = conn[c].closed /\ b.isOpen = conn[c].isOpen
        /\ b.ws = conn[c].ws /\ b.queue = conn[c].queue
    BY <1>1, <1>4, <1>8 DEF Connection
  <1>10. /\ k \in Connection /\ k.closed = b.closed /\ k.isOpen = b.isOpen
         /\ k.ws = b.ws /\ k.urls = b.urls /\ k.queue = b.queue
         /\ k.timers = 0 \/ (~b.closed /\ k.timers = 1)
         /\ ~b.closed /\ k.timers = 0 => k.attempts = MaxRetries
    BY <1>9, ScheduleFacts
  <1> HIDE DEF k
  <1>11. /\ k.closed => k.timers = 0
         /\ k.timers + k.urls <= 1
         /\ c = session.current /\ k.timers + k.urls = 0 => k.attempts = MaxRetries
    BY <1>6, <1>9, <1>10
  <1>12. QED
    BY <1>5, <1>7, <1>9, <1>10, <1>11, CountersKeep

LEMMA UrlArrivesKeeps ==
  ASSUME Safe, NEW c \in Conns, UrlArrives(c)
  PROVE  Safe'
  <1>1. PICK s \in FreeSockets :
          /\ conn' = [conn EXCEPT ![c].urls = @ - 1, ![c].ws = s]
          /\ sock' = [sock EXCEPT ![s] = [ClosedSocket EXCEPT !.state = "connecting",
                                                              !.conn = c]]
    BY DEF UrlArrives
  <1>2. /\ s \in Sockets /\ sock[s].state = "closed" /\ \A d \in Conns : conn[d].ws # s
        /\ s # None /\ UNCHANGED <<session, next, handed, echo>>
    BY SdkAssumption DEF UrlArrives, FreeSockets
  <1>3. conn[c] \in Connection /\ conn[c].timers \in Nat /\ conn[c].urls \in Nat
    BY DEF Safe, TypeOK, Connection
  <1>4. conn[c].timers = 0 /\ conn[c].urls = 1
    <2>1. conn[c].urls > 0
      BY DEF UrlArrives
    <2>2. conn[c].timers + conn[c].urls <= 1
      BY DEF Safe, Exclusive
    <2>3. QED
      BY <1>3, <2>1, <2>2
  <1>5. SocketsOf(c) = {}
    BY <1>4 DEF Safe, Exclusive
  <1> DEFINE k == [conn[c] EXCEPT !.urls = 0, !.ws = s]
  <1>6. conn' = [conn EXCEPT ![c] = k]
    <2>1. conn \in [Conns -> Connection]
      BY DEF Safe, TypeOK
    <2>2. [conn EXCEPT ![c].urls = @ - 1, ![c].ws = s]
            = [conn EXCEPT ![c] = [[conn[c] EXCEPT !.urls = conn[c].urls - 1]
                                     EXCEPT !.ws = s]]
      BY <2>1
    <2>3. conn[c].urls - 1 = 0
      BY <1>4
    <2>4. QED
      BY <1>1, <2>2, <2>3
  <1>7. /\ k \in Connection /\ k.timers = 0 /\ k.urls = 0 /\ k.ws = s
        /\ k.closed = conn[c].closed /\ k.isOpen = conn[c].isOpen
        /\ k.queue = conn[c].queue
    BY <1>2, <1>3, <1>4 DEF Connection
  <1> HIDE DEF k
  <1>8. /\ conn' \in [Conns -> Connection] /\ conn'[c] = k
        /\ \A d \in Conns : d # c => conn'[d] = conn[d]
        /\ \A d \in Conns : Len(conn'[d].queue) <= MaxQueue
    BY <1>6, <1>7, ReplaceFacts DEF Safe, TypeOK
  <1> DEFINE n == [ClosedSocket EXCEPT !.state = "connecting", !.conn = c]
  <1>9. n \in Socket /\ n.state = "connecting" /\ n.conn = c /\ n.said = "nothing"
    <2> DEFINE z == ClosedSocket
    <2>1. z \in Socket /\ z.said = "nothing"
      BY DEF ClosedSocket, Socket
    <2> HIDE DEF z
    <2>2. n = [z EXCEPT !.state = "connecting", !.conn = c]
      BY DEF z
    <2> HIDE DEF n
    <2>3. QED
      BY <2>1, <2>2 DEF Socket
  <1> HIDE DEF n
  <1>10. /\ sock' \in [Sockets -> Socket]
         /\ sock'[s].state = "connecting" /\ sock'[s].conn = c /\ sock'[s].said = "nothing"
         /\ \A t \in Sockets : t # s => sock'[t] = sock[t]
    <2>1. sock' = [sock EXCEPT ![s] = n]
      BY <1>1 DEF n
    <2>2. QED
      BY <1>2, <1>9, <2>1 DEF Safe, TypeOK
  <1>11. SocketsOf(c)' = {s} /\ \A d \in Conns : d # c => SocketsOf(d)' = SocketsOf(d)
    BY <1>2, <1>5, <1>10 DEF SocketsOf
  <1>12. TypeOK'
    BY <1>2, <1>8, <1>10 DEF Safe, TypeOK
  <1>13. Lifecycle'
    BY <1>2, <1>7, <1>8 DEF Safe, Lifecycle
  <1>14. Exclusive'
    <2>1. ASSUME NEW d \in Conns, d # c
          PROVE  /\ conn'[d].timers + conn'[d].urls <= 1
                 /\ conn'[d].timers + conn'[d].urls = 1 => SocketsOf(d)' = {}
                 /\ \A t, u \in SocketsOf(d)' : t = u
      BY <1>8, <1>11, <2>1 DEF Safe, Exclusive
    <2>2. conn'[c].timers + conn'[c].urls = 0
      BY <1>7, <1>8
    <2>3. QED
      BY <1>11, <2>1, <2>2 DEF Exclusive
  <1>15. Retrying'
    BY <1>2, <1>8, <1>11 DEF Safe, Retrying, Idle
  <1>16. LastSocket'
    <2> SUFFICES ASSUME NEW t \in Sockets
                 PROVE  /\ sock'[t].state # "closed" => sock'[t].conn \in Conns
                        /\ sock'[t].state \in {"connecting", "open"} =>
                             conn'[sock'[t].conn].ws = t
                        /\ sock'[t].state = "open" /\ sock'[t].conn = session'.current =>
                             sock'[t].said = "greeting"
      BY DEF LastSocket
    <2>1. CASE t = s
      BY <1>7, <1>8, <1>10, <2>1
    <2>2. CASE t # s
      <3>1. sock[t].state # "closed" => sock[t].conn # c
        BY <1>5, <2>2 DEF SocketsOf
      <3>2. sock[t].state # "closed" => sock[t].conn \in Conns
        BY DEF Safe, LastSocket
      <3>3. QED
        BY <1>2, <1>8, <1>10, <2>2, <3>1, <3>2 DEF Safe, LastSocket
    <2>3. QED
      BY <2>1, <2>2
  <1>17. OwnSocket' /\ CredentialsFirst'
    BY <1>2, <1>7, <1>8, <1>10 DEF Safe, OwnSocket, CredentialsFirst
  <1>18. ~conn[c].isOpen
    BY <1>5 DEF Safe, OpenIsHonest, SocketsOf, TypeOK, Connection
  <1>19. OpenIsHonest'
    <2> SUFFICES ASSUME NEW d \in Conns, d # c, conn[d].isOpen
                 PROVE  /\ conn[d].ws # None /\ sock'[conn[d].ws].conn = d
                        /\ sock'[conn[d].ws].state \in {"open", "closing"}
                        /\ conn[d].queue = <<>>
      BY <1>7, <1>8, <1>18 DEF OpenIsHonest
    <2>1. /\ conn[d].ws \in Sockets /\ conn[d].ws # None /\ sock[conn[d].ws].conn = d
          /\ sock[conn[d].ws].state \in {"open", "closing"} /\ conn[d].queue = <<>>
      BY DEF Safe, OpenIsHonest, TypeOK, Connection
    <2>2. QED
      BY <1>2, <1>10, <2>1
  <1>20. ShownIsTrue'
    <2>1. session'= session /\ echo' = echo /\ session.current \in Conns \cup {None}
      BY <1>2 DEF Safe, TypeOK, Session
    <2>2. \A d \in Conns : conn'[d].isOpen = conn[d].isOpen
      BY <1>7, <1>8
    <2>3. QED
      BY <2>1, <2>2 DEF Safe, ShownIsTrue
  <1>21. Sent' /\ InOrder'
    <2>1. \A d \in Conns : conn'[d].queue = conn[d].queue
      BY <1>7, <1>8
    <2>2. QED
      BY <1>2, <2>1 DEF Safe, Sent, InOrder
  <1>22. QED
    BY <1>12, <1>13, <1>14, <1>15, <1>16, <1>17, <1>19, <1>20, <1>21 DEF Safe

-------------------------------------------------------------------------------
(* Events of the WebSockets *)

\* A socket that has not ended is all that its connection works at.
LEMMA OnlySocket ==
  ASSUME Safe, NEW s \in Sockets, sock[s].state # "closed"
  PROVE  /\ sock[s].conn \in Conns
         /\ SocketsOf(sock[s].conn) = {s}
         /\ conn[sock[s].conn].timers = 0 /\ conn[sock[s].conn].urls = 0
  <1> DEFINE c == sock[s].conn
  <1>1. c \in Conns
    BY DEF Safe, LastSocket
  <1>2. s \in SocketsOf(c)
    BY <1>1 DEF SocketsOf
  <1>3. SocketsOf(c) = {s}
    BY <1>1, <1>2 DEF Safe, Exclusive
  <1>4. conn[c].timers \in Nat /\ conn[c].urls \in Nat
    BY <1>1 DEF Safe, TypeOK, Connection
  <1>5. conn[c].timers + conn[c].urls <= 1 /\ conn[c].timers + conn[c].urls # 1
    BY <1>1, <1>2 DEF Safe, Exclusive
  <1>6. QED
    BY <1>1, <1>3, <1>4, <1>5

LEMMA ServerClosesKeeps ==
  ASSUME Safe, NEW s \in Sockets, ServerCloses(s)
  PROVE  Safe'
  <1>1. /\ sock[s].state = "open" /\ UNCHANGED <<session, conn, next, handed, echo>>
        /\ sock' = [sock EXCEPT ![s].state = "closing"]
    BY DEF ServerCloses
  <1>2. /\ sock' \in [Sockets -> Socket] /\ sock'[s].state = "closing"
        /\ \A t \in Sockets : sock'[t].conn = sock[t].conn /\ sock'[t].said = sock[t].said
        /\ \A t \in Sockets : t # s => sock'[t] = sock[t]
    BY <1>1 DEF Safe, TypeOK, Socket
  <1>3. \A d \in Conns : SocketsOf(d)' = SocketsOf(d)
    BY <1>1, <1>2 DEF SocketsOf
  <1>4. TypeOK'
    BY <1>1, <1>2 DEF Safe, TypeOK
  <1>5. Lifecycle' /\ Exclusive' /\ Retrying' /\ OwnSocket' /\ ShownIsTrue'
    BY <1>1, <1>3
    DEF Safe, Lifecycle, Exclusive, Retrying, Idle, OwnSocket, ShownIsTrue
  <1>6. LastSocket' /\ CredentialsFirst'
    BY <1>1, <1>2 DEF Safe, LastSocket, CredentialsFirst
  <1>7. OpenIsHonest'
    <2>1. \A d \in Conns : conn[d].isOpen => conn[d].ws \in Sockets
      BY DEF Safe, OpenIsHonest, TypeOK, Connection
    <2>2. QED
      BY <1>1, <1>2, <2>1 DEF Safe, OpenIsHonest
  <1>8. Sent' /\ InOrder'
    BY <1>1 DEF Safe, Sent, InOrder
  <1>9. QED
    BY <1>4, <1>5, <1>6, <1>7, <1>8 DEF Safe

\* A socket ends, and its connection becomes k.
LEMMA SocketGone ==
  ASSUME Safe, NEW s \in Sockets, sock[s].state # "closed", NEW k \in Connection,
         NEW c \in Conns, sock[s].conn = c,
         sock' = [sock EXCEPT ![s] = ClosedSocket],
         conn' = [conn EXCEPT ![c] = k],
         \/ session' = [session EXCEPT !.shown = "disconnected"]
         \/ session' = session /\ ~conn[c].isOpen,
         Heard(c), UNCHANGED <<next, handed>>,
         ~k.isOpen, k.closed = conn[c].closed, k.ws = conn[c].ws,
         k.urls = 0, k.queue = conn[c].queue,
         k.timers = 0 \/ (~k.closed /\ k.timers = 1),
         ~k.closed /\ k.timers = 0 => k.attempts = MaxRetries
  PROVE  Safe'
  <1>1. SocketsOf(c) = {s}
    BY OnlySocket
  <1>2. /\ conn' \in [Conns -> Connection] /\ conn'[c] = k
        /\ \A d \in Conns : d # c => conn'[d] = conn[d]
        /\ \A d \in Conns : Len(conn'[d].queue) <= MaxQueue
    BY <1>1, ReplaceFacts DEF Safe, TypeOK
  <1>3. /\ sock' \in [Sockets -> Socket] /\ sock'[s].state = "closed"
        /\ sock'[s].conn = None /\ sock'[s].said = "nothing"
        /\ \A t \in Sockets : t # s => sock'[t] = sock[t]
    <2>1. ClosedSocket \in Socket
      BY DEF ClosedSocket, Socket
    <2>2. ClosedSocket.state = "closed" /\ ClosedSocket.conn = None
          /\ ClosedSocket.said = "nothing"
      BY DEF ClosedSocket
    <2>3. QED
      BY <2>1, <2>2 DEF Safe, TypeOK
  <1>4. /\ session' \in Session /\ session'.current = session.current
        /\ session.current \in Conns \cup {None}
        /\ session'.shown = "disconnected" \/ (session' = session /\ ~conn[c].isOpen)
    BY DEF Safe, TypeOK, Session
  <1>5. echo' = (echo \/ c # session.current) /\ echo' \in BOOLEAN
    BY DEF Heard, Safe, TypeOK
  <1>6. SocketsOf(c)' = {} /\ \A d \in Conns : d # c => SocketsOf(d)' = SocketsOf(d)
    <2>1. \A t \in Sockets : sock[t].conn = c /\ sock[t].state # "closed" => t = s
      BY <1>1 DEF SocketsOf
    <2>2. QED
      BY <1>3, <2>1, SdkAssumption DEF SocketsOf
  <1>7. TypeOK'
    BY <1>2, <1>3, <1>4, <1>5 DEF Safe, TypeOK
  <1>8. \A d \in Conns : /\ conn'[d].closed = conn[d].closed
                         /\ conn'[d].ws = conn[d].ws
                         /\ conn'[d].queue = conn[d].queue
                         /\ conn'[d].isOpen => conn[d].isOpen
    BY <1>2
  <1>9. Lifecycle'
    BY <1>2, <1>4, <1>8 DEF Safe, Lifecycle
  <1>10. Exclusive'
    <2>1. ASSUME NEW d \in Conns, d # c
          PROVE  /\ conn'[d].timers + conn'[d].urls <= 1
                 /\ conn'[d].timers + conn'[d].urls = 1 => SocketsOf(d)' = {}
                 /\ \A t, u \in SocketsOf(d)' : t = u
      BY <1>2, <1>6, <2>1 DEF Safe, Exclusive
    <2>2. conn'[c].timers + conn'[c].urls <= 1
      BY <1>2
    <2>3. QED
      BY <1>2, <1>6, <2>1, <2>2 DEF Exclusive
  <1>11. Retrying'
    <2>1. ASSUME NEW d \in Conns, session.current = d, Idle(d)', d # c
          PROVE  conn'[d].attempts = MaxRetries
      BY <1>2, <1>6, <2>1 DEF Safe, Retrying, Idle
    <2>2. ASSUME c = session.current, Idle(c)'
          PROVE  conn'[c].attempts = MaxRetries
      <3>1. ~k.closed
        BY <1>1, <2>2 DEF Safe, Lifecycle
      <3>2. k.timers = 0
        BY <1>2, <2>2 DEF Idle
      <3>3. QED
        BY <1>2, <3>1, <3>2
    <2>3. QED
      BY <1>4, <2>1, <2>2 DEF Retrying
  <1>12. LastSocket'
    BY <1>3, <1>4, <1>8 DEF Safe, LastSocket
  <1>13. OwnSocket' /\ CredentialsFirst'
    BY <1>3, <1>8 DEF Safe, OwnSocket, CredentialsFirst
  <1>14. Sent' /\ InOrder'
    BY <1>8 DEF Safe, Sent, InOrder
  <1>15. OpenIsHonest'
    <2> SUFFICES ASSUME NEW d \in Conns, d # c, conn[d].isOpen
                 PROVE  /\ conn[d].ws # None /\ sock'[conn[d].ws].conn = d
                        /\ sock'[conn[d].ws].state \in {"open", "closing"}
                        /\ conn[d].queue = <<>>
      BY <1>2 DEF OpenIsHonest
    <2>1. /\ conn[d].ws \in Sockets /\ conn[d].ws # None /\ sock[conn[d].ws].conn = d
          /\ sock[conn[d].ws].state \in {"open", "closing"} /\ conn[d].queue = <<>>
      BY DEF Safe, OpenIsHonest, TypeOK, Connection
    <2>2. conn[d].ws # s
      BY <2>1
    <2>3. QED
      BY <1>3, <2>1, <2>2
  <1>16. ShownIsTrue'
    <2> SUFFICES ASSUME ~echo'
                 PROVE  /\ session'.shown = "connected" =>
                             /\ session'.current # None
                             /\ conn'[session'.current].isOpen
                        /\ session'.current # None /\ conn'[session'.current].isOpen =>
                             session'.shown = "connected"
      BY DEF ShownIsTrue
    <2>1. c = session.current /\ ~echo
      BY <1>5
    <2>2. ~conn'[session'.current].isOpen
      BY <1>2, <1>4, <2>1
    <2>3. session'.shown # "connected"
      BY <1>4, <2>1 DEF Safe, ShownIsTrue
    <2>4. QED
      BY <2>2, <2>3
  <1>17. QED
    BY <1>7, <1>9, <1>10, <1>11, <1>12, <1>13, <1>14, <1>15, <1>16 DEF Safe

LEMMA OnCloseFacts ==
  ASSUME NEW k \in Connection
  PROVE  /\ OnClose(k) \in Connection
         /\ ~OnClose(k).isOpen /\ OnClose(k).closed = k.closed /\ OnClose(k).ws = k.ws
         /\ OnClose(k).urls = k.urls /\ OnClose(k).queue = k.queue
         /\ \/ OnClose(k).timers = k.timers
            \/ ~k.closed /\ k.timers = 0 /\ OnClose(k).timers = 1
         /\ ~k.closed /\ OnClose(k).timers = 0 => OnClose(k).attempts = MaxRetries
  <1> DEFINE b == [k EXCEPT !.isOpen = FALSE]
  <1>1. /\ b \in Connection /\ ~b.isOpen /\ b.closed = k.closed /\ b.ws = k.ws
        /\ b.urls = k.urls /\ b.queue = k.queue /\ b.timers = k.timers
    BY DEF Connection
  <1>2. OnClose(k) = Schedule(b)
    BY DEF OnClose
  <1> HIDE DEF b
  <1>3. QED
    BY <1>1, <1>2, ScheduleFacts

LEMMA SocketEndsKeeps ==
  ASSUME Safe, NEW s \in Sockets, SocketEnds(s)
  PROVE  Safe'
  <1>0. sock[s].state # "closed"
    BY DEF SocketEnds
  <1> PICK c \in Conns : sock[s].conn = c
    BY <1>0, OnlySocket
  <1> DEFINE k == OnClose(conn[c])
  <1>1. /\ sock[s].state # "closed"
        /\ sock' = [sock EXCEPT ![s] = ClosedSocket]
        /\ conn' = [conn EXCEPT ![c] = k]
        /\ session' = [session EXCEPT !.shown = "disconnected"]
        /\ Heard(c) /\ UNCHANGED <<next, handed>>
    BY DEF SocketEnds
  <1>2. /\ c \in Conns /\ conn[c] \in Connection /\ conn[c].timers = 0
        /\ conn[c].urls = 0
    BY <1>1, OnlySocket DEF Safe, TypeOK
  <1>3. /\ k \in Connection /\ ~k.isOpen /\ k.closed = conn[c].closed
        /\ k.ws = conn[c].ws /\ k.urls = 0 /\ k.queue = conn[c].queue
        /\ k.timers = 0 \/ (~k.closed /\ k.timers = 1)
        /\ ~k.closed /\ k.timers = 0 => k.attempts = MaxRetries
    <2>1. /\ k \in Connection /\ ~k.isOpen /\ k.closed = conn[c].closed
          /\ k.ws = conn[c].ws /\ k.urls = conn[c].urls /\ k.queue = conn[c].queue
          /\ \/ k.timers = conn[c].timers
             \/ ~conn[c].closed /\ conn[c].timers = 0 /\ k.timers = 1
          /\ ~conn[c].closed /\ k.timers = 0 => k.attempts = MaxRetries
      BY <1>2, OnCloseFacts
    <2> HIDE DEF k
    <2>2. QED
      BY <1>2, <2>1 DEF Connection
  <1> HIDE DEF k
  <1>4. QED
    BY <1>1, <1>3, SocketGone

LEMMA SocketFailsKeeps ==
  ASSUME Safe, NEW s \in Sockets, SocketFails(s)
  PROVE  Safe'
  <1>0. sock[s].state # "closed"
    BY DEF SocketFails
  <1> PICK c \in Conns : sock[s].conn = c
    BY <1>0, OnlySocket
  <1> DEFINE e == OnError(conn[c])
  <1>1. /\ sock[s].state \in {"connecting", "open"}
        /\ sock' = [sock EXCEPT ![s] = ClosedSocket]
        /\ Heard(c) /\ UNCHANGED <<next, handed>>
    BY DEF SocketFails
  <1>2. /\ c \in Conns /\ conn[c] \in Connection /\ conn[c].timers = 0
        /\ conn[c].urls = 0
    BY <1>1, OnlySocket DEF Safe, TypeOK
  <1>3. /\ e \in Connection /\ e.closed = conn[c].closed /\ e.isOpen = conn[c].isOpen
        /\ e.ws = conn[c].ws /\ e.urls = 0 /\ e.queue = conn[c].queue
        /\ e.timers = 0 \/ (~e.closed /\ e.timers = 1)
        /\ ~e.closed /\ e.timers = 0 => e.attempts = MaxRetries
    <2>1. /\ e \in Connection /\ e.closed = conn[c].closed /\ e.isOpen = conn[c].isOpen
          /\ e.ws = conn[c].ws /\ e.urls = conn[c].urls /\ e.queue = conn[c].queue
          /\ \/ e.timers = conn[c].timers
             \/ ~conn[c].closed /\ conn[c].timers = 0 /\ e.timers = 1
          /\ ~conn[c].closed /\ e.timers = 0 => e.attempts = MaxRetries
      BY <1>2, ScheduleFacts DEF OnError
    <2> HIDE DEF e
    <2>2. QED
      BY <1>2, <2>1 DEF Connection
  <1>4. CASE /\ conn' = [conn EXCEPT ![c] = OnClose(OnError(conn[c]))]
             /\ session' = [session EXCEPT !.shown = "disconnected"]
    <2> DEFINE k == OnClose(e)
    <2>1. conn' = [conn EXCEPT ![c] = k]
      BY <1>4
    <2> HIDE DEF e
    <2>2. /\ k \in Connection /\ ~k.isOpen /\ k.closed = conn[c].closed
          /\ k.ws = conn[c].ws /\ k.urls = 0 /\ k.queue = conn[c].queue
          /\ k.timers = 0 \/ (~k.closed /\ k.timers = 1)
          /\ ~k.closed /\ k.timers = 0 => k.attempts = MaxRetries
      BY <1>3, OnCloseFacts
    <2> HIDE DEF k
    <2>3. QED
      BY <1>1, <1>4, <2>1, <2>2, SocketGone
  <1>5. CASE /\ sock[s].state = "connecting"
             /\ conn' = [conn EXCEPT ![c] = OnError(conn[c])]
             /\ session' = session
    <2>1. ~conn[c].isOpen
      BY <1>2, <1>5 DEF Safe, OpenIsHonest, LastSocket
    <2>2. conn' = [conn EXCEPT ![c] = e]
      BY <1>5
    <2> HIDE DEF e
    <2>3. QED
      BY <1>1, <1>3, <1>5, <2>1, <2>2, SocketGone
  <1>6. QED
    BY <1>4, <1>5 DEF SocketFails

\* Socket s of c opens: it has heard the greeting when c is the session's
\* connection, c has no queue any more, and no other connection has changed but
\* for its queue.
LEMMA SocketOpened ==
  ASSUME Safe, NEW s \in Sockets, NEW c \in Conns,
         sock[s].state = "connecting", sock[s].conn = c,
         sock' \in [Sockets -> Socket],
         sock'[s].state = "open", sock'[s].conn = c, sock'[s].said # "message",
         c = session.current => sock'[s].said = "greeting",
         \A t \in Sockets : t # s => /\ sock'[t].state = sock[t].state
                                     /\ sock'[t].conn = sock[t].conn
                                     /\ sock'[t].said = sock[t].said,
         conn' \in [Conns -> Connection],
         \A d \in Conns : /\ Len(conn'[d].queue) <= MaxQueue
                          /\ conn'[d].closed = conn[d].closed
                          /\ conn'[d].timers = conn[d].timers
                          /\ conn'[d].urls = conn[d].urls
                          /\ conn'[d].ws = conn[d].ws
                          /\ conn'[d].isOpen = (conn[d].isOpen \/ d = c)
                          /\ d # c => conn'[d].attempts = conn[d].attempts
                          /\ conn'[d].isOpen \/ conn'[d].closed => conn'[d].queue = <<>>
                          /\ Ordered(conn'[d].queue, handed')
                          /\ \A i \in 1..Len(conn'[d].queue) : conn'[d].queue[i] < next,
         session' = [session EXCEPT !.shown = "connected"],
         handed' \subseteq 1..(next - 1), handed' \subseteq 1..MaxSends,
         Heard(c), UNCHANGED next
  PROVE  Safe'
  <1>1. /\ session' \in Session /\ session'.current = session.current
        /\ session.current \in Conns \cup {None} /\ session'.shown = "connected"
    BY DEF Safe, TypeOK, Session
  <1>2. echo' = (echo \/ c # session.current) /\ echo' \in BOOLEAN
    BY DEF Heard, Safe, TypeOK
  <1>3. \A d \in Conns : SocketsOf(d)' = SocketsOf(d)
    BY DEF SocketsOf
  <1>4. SocketsOf(c) = {s}
    BY OnlySocket
  <1>5. TypeOK'
    BY <1>1, <1>2 DEF Safe, TypeOK
  <1>6. Lifecycle'
    BY <1>1 DEF Safe, Lifecycle
  <1>7. Exclusive'
    BY <1>3 DEF Safe, Exclusive
  <1>8. Retrying'
    <2>1. ~Idle(c)'
      BY <1>3, <1>4 DEF Idle
    <2>2. \A d \in Conns : d # c /\ session.current = d /\ Idle(d)' =>
            conn'[d].attempts = MaxRetries
      BY <1>3 DEF Safe, Retrying, Idle
    <2>3. QED
      BY <1>1, <2>1, <2>2 DEF Retrying
  <1>9. conn[c].ws = s
    BY DEF Safe, LastSocket
  <1>10. LastSocket'
    <2> SUFFICES ASSUME NEW t \in Sockets
                 PROVE  /\ sock'[t].state # "closed" => sock'[t].conn \in Conns
                        /\ sock'[t].state \in {"connecting", "open"} =>
                             conn'[sock'[t].conn].ws = t
                        /\ sock'[t].state = "open" /\ sock'[t].conn = session'.current =>
                             sock'[t].said = "greeting"
      BY DEF LastSocket
    <2>1. CASE t = s
      BY <1>1, <1>9, <2>1
    <2>2. CASE t # s
      BY <1>1, <2>2 DEF Safe, LastSocket
    <2>3. QED
      BY <2>1, <2>2
  <1>11. OwnSocket' /\ CredentialsFirst'
    BY DEF Safe, OwnSocket, CredentialsFirst
  <1>12. Sent'
    BY DEF Sent
  <1>13. InOrder'
    <2>1. \A d \in Conns : Ordered(conn'[d].queue, handed')
      OBVIOUS
    <2>2. QED
      BY <2>1 DEF InOrder, Ordered
  <1>14. OpenIsHonest'
    <2> SUFFICES ASSUME NEW d \in Conns, conn'[d].isOpen
                 PROVE  /\ conn'[d].ws # None /\ sock'[conn'[d].ws].conn = d
                        /\ sock'[conn'[d].ws].state \in {"open", "closing"}
      BY DEF OpenIsHonest
    <2>1. CASE d = c
      BY <1>9, <2>1, SdkAssumption
    <2>2. CASE d # c
      <3>1. /\ conn[d].ws \in Sockets /\ conn[d].ws # None /\ sock[conn[d].ws].conn = d
            /\ sock[conn[d].ws].state \in {"open", "closing"}
        BY <2>2 DEF Safe, OpenIsHonest, TypeOK, Connection
      <3>2. conn[d].ws # s
        BY <3>1, <2>2
      <3>3. QED
        BY <3>1, <3>2
    <2>3. QED
      BY <2>1, <2>2
  <1>15. ShownIsTrue'
    <2> SUFFICES ASSUME ~echo'
                 PROVE  session'.current # None /\ conn'[session'.current].isOpen
      BY <1>1 DEF ShownIsTrue
    <2>1. QED
      BY <1>1, <1>2, SdkAssumption
  <1>16. QED
    BY <1>5, <1>6, <1>7, <1>8, <1>10, <1>11, <1>12, <1>13, <1>14, <1>15 DEF Safe

LEMMA OpenedFacts ==
  ASSUME NEW k \in Connection
  PROVE  /\ Opened(k) \in Connection /\ Opened(k).isOpen
         /\ Opened(k).queue = <<>> /\ Len(Opened(k).queue) <= MaxQueue
         /\ Opened(k).closed = k.closed /\ Opened(k).ws = k.ws
         /\ Opened(k).timers = k.timers /\ Opened(k).urls = k.urls
  <1>1. <<>> \in Seq(Frames) /\ Len(<<>>) <= MaxQueue /\ 0 \in 0..MaxRetries
    BY SdkAssumption
  <1> DEFINE q == <<>>
  <1>2. q \in Seq(Frames) /\ Len(q) <= MaxQueue
    BY <1>1
  <1>3. Opened(k) = [k EXCEPT !.isOpen = TRUE, !.attempts = 0, !.queue = q]
    BY DEF Opened
  <1> HIDE DEF q
  <1>4. /\ Opened(k) \in Connection /\ Opened(k).isOpen
        /\ Opened(k).queue = q
        /\ Opened(k).closed = k.closed /\ Opened(k).ws = k.ws
        /\ Opened(k).timers = k.timers /\ Opened(k).urls = k.urls
    BY <1>1, <1>2, <1>3 DEF Connection
  <1>5. QED
    BY <1>1, <1>2, <1>4 DEF q

\* The first frame on the socket that opens is the greeting, if there is one.
LEMMA OpeningSocket ==
  ASSUME Safe, NEW s \in Sockets, NEW c \in Conns,
         sock[s].state = "connecting", sock[s].conn = c
  PROVE  LET o == Says([sock[s] EXCEPT !.state = "open"], OpeningFrames(c))
         IN /\ o \in Socket /\ o.state = "open" /\ o.conn = c /\ o.said # "message"
            /\ c = session.current => o.said = "greeting"
  <1> DEFINE z == [sock[s] EXCEPT !.state = "open"]
             f == OpeningFrames(c)
  <1>1. /\ z \in Socket /\ z.state = "open" /\ z.conn = c /\ z.said = sock[s].said
        /\ z.said \in {"nothing", "greeting", "message"}
    BY DEF Safe, TypeOK, Socket
  <1>2. z.said # "message"
    BY <1>1 DEF Safe, CredentialsFirst
  <1>3. conn[c].queue \in Seq(Frames) /\ Greeting \in Frames
    BY SdkAssumption DEF Safe, TypeOK, Connection, Greeting, Frames
  <1> HIDE DEF z
  <1>4. CASE session.current = c
    <2>1. f = <<Greeting>> \o conn[c].queue
      BY <1>4 DEF OpeningFrames
    <2>2. f \in Seq(Frames) /\ f # <<>> /\ Head(f) = Greeting
      BY <1>3, <2>1
    <2> HIDE DEF f
    <2>3. QED
      BY <1>1, <1>2, <2>2, SaysFacts DEF z, f
  <1>5. CASE session.current # c
    <2>1. f = <<>>
      BY <1>5 DEF OpeningFrames, Safe, Lifecycle
    <2>2. f \in Seq(Frames)
      BY <2>1
    <2> HIDE DEF f
    <2>3. QED
      BY <1>1, <1>2, <1>5, <2>1, <2>2, SaysFacts DEF z, f
  <1>6. QED
    BY <1>4, <1>5

LEMMA OpensKeeps ==
  ASSUME Safe, NEW s \in Sockets, Opens(s)
  PROVE  Safe'
  <1>1. sock[s].state = "connecting"
    BY DEF Opens
  <1>2. PICK c \in Conns : sock[s].conn = c
    BY <1>1, OnlySocket
  <1>3. PICK d \in Conns \cup {None} : session.current = d
    BY DEF Safe, TypeOK, Session
  <1> DEFINE o == Says([sock[s] EXCEPT !.state = "open"], OpeningFrames(c))
             sent == [sock EXCEPT ![s] = o]
  <1>4. /\ o \in Socket /\ o.state = "open" /\ o.conn = c /\ o.said # "message"
        /\ c = session.current => o.said = "greeting"
    BY <1>1, <1>2, OpeningSocket
  <1>5. /\ session' = [session EXCEPT !.shown = "connected"]
        /\ handed' = handed \cup Messages(conn[c].queue)
        /\ Heard(c) /\ UNCHANGED next
        /\ \/ d \in {c, None} /\ sock' = sent /\ conn' = [conn EXCEPT ![c] = Opened(@)]
           \/ /\ d \notin {c, None} /\ conn[d].isOpen /\ conn[d].ws # None
              /\ sock' = [sent EXCEPT ![conn[d].ws] = Says(@, <<Greeting>>)]
              /\ conn' = [conn EXCEPT ![c] = Opened(@)]
           \/ /\ d \notin {c, None} /\ ~(conn[d].isOpen /\ conn[d].ws # None)
              /\ sock' = sent
              /\ conn' = [conn EXCEPT ![c] = Opened(@), ![d] = Enqueue(@, Greeting)]
    BY <1>2, <1>3 DEF Opens
  <1> HIDE DEF o
  <1>6. /\ sent \in [Sockets -> Socket] /\ sent[s] = o
        /\ \A t \in Sockets : t # s => sent[t] = sock[t]
    BY <1>4 DEF Safe, TypeOK
  <1> HIDE DEF sent
  <1>7. conn[c] \in Connection /\ conn[c].queue \in Seq(Frames)
    BY DEF Safe, TypeOK, Connection
  <1>8. handed' \subseteq 1..(next - 1) /\ handed' \subseteq 1..MaxSends
    <2>1. \A i \in 1..Len(conn[c].queue) :
            conn[c].queue[i] \in Frames /\ conn[c].queue[i] < next
      BY <1>7 DEF Safe, Sent
    <2>2. Messages(conn[c].queue) \subseteq 1..(next - 1)
      BY <2>1, SdkAssumption DEF Messages, Frames, Greeting, Safe, TypeOK
    <2>3. handed \subseteq 1..(next - 1) /\ next \in 1..(MaxSends + 1)
      BY DEF Safe, Sent, TypeOK
    <2>4. QED
      BY <1>5, <2>2, <2>3, SdkAssumption
  \* No other queue holds a message when c's is handed over.
  <1>9. \A e \in Conns : e # c => Ordered(conn[e].queue, handed')
    <2>1. CASE conn[c].queue = <<>>
      <3>1. handed' = handed
        BY <1>5, <2>1 DEF Messages
      <3>2. QED
        BY <3>1, OrderedQueues DEF Safe
    <2>2. CASE conn[c].queue # <<>>
      <3>1. c = session.current
        BY <2>2 DEF Safe, Lifecycle
      <3>2. \A e \in Conns : e # c => conn[e].queue = <<>>
        BY <3>1 DEF Safe, Lifecycle
      <3>3. QED
        BY <3>2 DEF Ordered
    <2>3. QED
      BY <2>1, <2>2
  <1> DEFINE k == Opened(conn[c])
  <1>10. /\ k \in Connection /\ k.isOpen
         /\ k.queue = <<>> /\ Len(k.queue) <= MaxQueue
         /\ k.closed = conn[c].closed /\ k.ws = conn[c].ws
         /\ k.timers = conn[c].timers /\ k.urls = conn[c].urls
    BY <1>7, OpenedFacts
  <1>11. [conn EXCEPT ![c] = Opened(@)] = [conn EXCEPT ![c] = k]
    OBVIOUS
  <1> HIDE DEF k
  <1>12. Ordered(k.queue, handed')
    BY <1>10 DEF Ordered
  <1>13. \A e \in Conns :
           /\ conn[e] \in Connection /\ Len(conn[e].queue) <= MaxQueue
           /\ conn[e].isOpen \/ conn[e].closed => conn[e].queue = <<>>
           /\ \A i \in 1..Len(conn[e].queue) : conn[e].queue[i] < next
    BY DEF Safe, TypeOK, OpenIsHonest, Lifecycle, Sent
  \* What SocketOpened asks of the connections.
  <1> DEFINE Fits(x) ==
        /\ Len(conn'[x].queue) <= MaxQueue
        /\ conn'[x].closed = conn[x].closed
        /\ conn'[x].timers = conn[x].timers
        /\ conn'[x].urls = conn[x].urls
        /\ conn'[x].ws = conn[x].ws
        /\ conn'[x].isOpen = (conn[x].isOpen \/ x = c)
        /\ x # c => conn'[x].attempts = conn[x].attempts
        /\ conn'[x].isOpen \/ conn'[x].closed => conn'[x].queue = <<>>
        /\ Ordered(conn'[x].queue, handed')
        /\ \A i \in 1..Len(conn'[x].queue) : conn'[x].queue[i] < next
  <1>14. conn'[c] = k => Fits(c)
    BY <1>10, <1>12 DEF Connection
  <1>15. ASSUME NEW x \in Conns, x # c, conn'[x] = conn[x]
         PROVE  Fits(x)
    BY <1>9, <1>13, <1>15 DEF Connection
  <1>16. CASE d \in {c, None} /\ sock' = sent /\ conn' = [conn EXCEPT ![c] = k]
    <2>1. /\ conn' \in [Conns -> Connection] /\ conn'[c] = k
          /\ \A x \in Conns : x # c => conn'[x] = conn[x]
      BY <1>10, <1>16 DEF Safe, TypeOK
    <2>2. \A x \in Conns : Fits(x)
      BY <1>14, <1>15, <2>1
    <2>3. QED
      BY <1>1, <1>2, <1>4, <1>5, <1>6, <1>8, <1>16, <2>1, <2>2, SocketOpened
  <1>17. CASE /\ d \notin {c, None} /\ conn[d].isOpen /\ conn[d].ws # None
              /\ sock' = [sent EXCEPT ![conn[d].ws] = Says(@, <<Greeting>>)]
              /\ conn' = [conn EXCEPT ![c] = k]
    <2>1. /\ conn' \in [Conns -> Connection] /\ conn'[c] = k
          /\ \A x \in Conns : x # c => conn'[x] = conn[x]
      BY <1>10, <1>17 DEF Safe, TypeOK
    <2>2. \A x \in Conns : Fits(x)
      BY <1>14, <1>15, <2>1
    <2>3. PICK t \in Sockets : t = conn[d].ws
      BY <1>17 DEF Safe, TypeOK, Connection
    <2>4. /\ sock[t].conn = d /\ sock[t].state \in {"open", "closing"} /\ t # s
          /\ sock[t] \in Socket
      BY <1>2, <1>17, <2>3 DEF Safe, OpenIsHonest, TypeOK
    <2>5. sock[t].state = "open" => sock[t].said = "greeting"
      BY <1>3, <2>4 DEF Safe, LastSocket
    <2> DEFINE u == Says(sock[t], <<Greeting>>)
    <2>6. /\ u \in Socket /\ u.state = sock[t].state /\ u.conn = sock[t].conn
          /\ u.said = sock[t].said
      <3>1. <<Greeting>> \in Seq(Frames)
        BY SdkAssumption DEF Greeting, Frames
      <3>2. QED
        BY <2>4, <2>5, <3>1, SaysFacts
    <2>7. sock' = [sent EXCEPT ![t] = u]
      BY <1>6, <1>17, <2>3, <2>4
    <2> HIDE DEF u
    <2>8. /\ sock' \in [Sockets -> Socket] /\ sock'[s] = o
          /\ \A x \in Sockets : x # s => /\ sock'[x].state = sock[x].state
                                         /\ sock'[x].conn = sock[x].conn
                                         /\ sock'[x].said = sock[x].said
      BY <1>6, <2>4, <2>6, <2>7
    <2>9. QED
      BY <1>1, <1>2, <1>4, <1>5, <1>8, <2>1, <2>2, <2>8, SocketOpened
  <1>18. CASE /\ d \notin {c, None} /\ ~(conn[d].isOpen /\ conn[d].ws # None)
              /\ sock' = sent
              /\ conn' = [conn EXCEPT ![c] = k, ![d] = Enqueue(conn[d], Greeting)]
    <2> DEFINE e == Enqueue(conn[d], Greeting)
    <2>1. d \in Conns /\ d # c /\ Greeting \in Frames
      BY <1>18, SdkAssumption DEF Greeting, Frames
    <2>2. /\ e \in Connection /\ Len(e.queue) <= MaxQueue
          /\ e.closed = conn[d].closed /\ e.isOpen = conn[d].isOpen /\ e.ws = conn[d].ws
          /\ e.urls = conn[d].urls /\ e.timers = conn[d].timers
          /\ e.attempts = conn[d].attempts
      BY <1>13, <2>1, EnqueueFacts
    <2>3. ~e.isOpen /\ ~e.closed
      BY <1>3, <1>18, <2>1, <2>2 DEF Safe, OpenIsHonest, Lifecycle
    <2>4. Ordered(e.queue, handed')
      BY <1>9, <1>13, <2>1, EnqueueOrdered
    <2>5. \A i \in 1..Len(e.queue) : e.queue[i] < next
      <3>1. e.queue[Len(e.queue)] = 0 /\ next \in Nat \ {0}
        BY <1>13, <2>1, EnqueueFacts DEF Greeting, Safe, TypeOK
      <3>2. PICK p \in {0, 1} : \A i \in 1..(Len(e.queue) - 1) :
              i + p \in 1..Len(conn[d].queue) /\ e.queue[i] = conn[d].queue[i + p]
        BY <1>13, <2>1, EnqueueFacts
      <3>3. Len(e.queue) \in Nat
        BY <2>2 DEF Connection
      <3> HIDE DEF e
      <3>4. ASSUME NEW i \in 1..(Len(e.queue) - 1)
            PROVE  e.queue[i] < next
        <4>1. i + p \in 1..Len(conn[d].queue) /\ e.queue[i] = conn[d].queue[i + p]
          BY <3>2
        <4>2. QED
          BY <1>13, <2>1, <4>1
      <3>5. QED
        BY <3>1, <3>3, <3>4
    <2> HIDE DEF e
    <2>6. /\ conn' \in [Conns -> Connection] /\ conn'[c] = k /\ conn'[d] = e
          /\ \A x \in Conns : x # c /\ x # d => conn'[x] = conn[x]
      BY <1>10, <1>18, <2>1, <2>2 DEF Safe, TypeOK, e
    <2>7. Fits(d)
      <3>1. conn'[d].isOpen = (conn[d].isOpen \/ d = c)
        BY <1>13, <2>1, <2>2, <2>6 DEF Connection
      <3>2. ~conn'[d].isOpen /\ ~conn'[d].closed
        BY <2>3, <2>6
      <3>3. QED
        BY <2>1, <2>2, <2>4, <2>5, <2>6, <3>1, <3>2
    <2>8. \A x \in Conns : Fits(x)
      BY <1>14, <1>15, <2>6, <2>7
    <2>9. /\ sock' \in [Sockets -> Socket] /\ sock'[s] = o
          /\ \A x \in Sockets : x # s => /\ sock'[x].state = sock[x].state
                                         /\ sock'[x].conn = sock[x].conn
                                         /\ sock'[x].said = sock[x].said
      BY <1>6, <1>18
    <2>10. QED
      BY <1>1, <1>2, <1>4, <1>5, <1>8, <2>6, <2>8, <2>9, SocketOpened
  <1>19. QED
    BY <1>5, <1>11, <1>16, <1>17, <1>18 DEF k

-------------------------------------------------------------------------------
(* Theorems *)

LEMMA SafeInvariant == Spec => []Safe
  <1>1. ASSUME Init
        PROVE  Safe
    <2>1. Unused \in Connection /\ Unused.closed = TRUE /\ ~Unused.isOpen
          /\ Unused.ws = None /\ Unused.timers = 0 /\ Unused.urls = 0
          /\ Unused.queue = <<>> /\ Len(Unused.queue) <= MaxQueue
      <3>1. Bare(TRUE, 0) = Unused
        BY BareClosed DEF Unused
      <3>2. QED
        BY <3>1, BareFacts
    <2>2. ClosedSocket \in Socket /\ ClosedSocket.state = "closed"
          /\ ClosedSocket.said = "nothing"
      BY DEF ClosedSocket, Socket
    <2>3. /\ \A c \in Conns : conn[c] = Unused
          /\ \A s \in Sockets : sock[s] = ClosedSocket
          /\ session.current = None /\ session.shown = "disconnected"
          /\ handed = {} /\ next = 1
      BY <1>1 DEF Init
    <2>4. TypeOK
      <3>1. session \in Session
        <4>1. session = [current |-> None, shown |-> "disconnected"]
          BY <1>1 DEF Init
        <4>2. [current |-> None, shown |-> "disconnected"] \in Session
          BY DEF Session
        <4>3. QED
          BY <4>1, <4>2
      <3>2. next \in 1..(MaxSends + 1) /\ handed \subseteq 1..MaxSends
        BY <2>3, SdkAssumption
      <3>3. echo \in BOOLEAN
        BY <1>1 DEF Init
      <3>4. conn \in [Conns -> Connection] /\ sock \in [Sockets -> Socket]
        BY <1>1, <2>1, <2>2 DEF Init
      <3>5. QED
        BY <2>1, <2>3, <3>1, <3>2, <3>3, <3>4 DEF TypeOK
    <2>5. Lifecycle /\ OwnSocket /\ OpenIsHonest /\ ShownIsTrue
      BY <2>1, <2>3, SdkAssumption
      DEF Lifecycle, OwnSocket, OpenIsHonest, ShownIsTrue
    <2>6. Exclusive /\ Retrying
      BY <2>1, <2>2, <2>3, SdkAssumption DEF Exclusive, Retrying, SocketsOf
    <2>7. LastSocket /\ CredentialsFirst
      BY <2>2, <2>3 DEF LastSocket, CredentialsFirst
    <2>8. Sent /\ InOrder
      BY <2>1, <2>3 DEF Sent, InOrder
    <2>9. QED
      BY <2>4, <2>5, <2>6, <2>7, <2>8 DEF Safe
  <1>2. Safe /\ [Next]_vars => Safe'
    <2> SUFFICES ASSUME Safe, [Next]_vars
                 PROVE  Safe'
      OBVIOUS
    <2>1. CASE UNCHANGED vars
      BY <2>1
      DEF vars, Safe, TypeOK, Lifecycle, Exclusive, Retrying, Idle, SocketsOf,
          LastSocket, OwnSocket, Sent, CredentialsFirst, InOrder, OpenIsHonest,
          ShownIsTrue
    <2>2. CASE Connect \/ Send \/ Close
      BY <2>2, ConnectKeeps, SendKeeps, CloseKeeps
    <2>3. CASE \E c \in Conns : ConnStep(c)
      BY <2>3, TimerFiresKeeps, UrlArrivesKeeps, UrlFailsKeeps DEF ConnStep
    <2>4. CASE \E s \in Sockets : SocketStep(s)
      BY <2>4, OpensKeeps, ServerClosesKeeps, SocketEndsKeeps, SocketFailsKeeps
      DEF SocketStep
    <2>5. QED
      BY <2>1, <2>2, <2>3, <2>4 DEF Next
  <1>3. QED
    BY <1>1, <1>2, PTL DEF Spec

\* Every variable keeps its type; no queue outgrows its limit.
THEOREM ConnectionTypes == Spec => []TypeOK
  BY SafeInvariant, PTL DEF Safe

\* A connection never waits for two things, and never has two sockets.
THEOREM OneAttemptAtATime == Spec => []OneAttempt
  <1>1. Safe => OneAttempt
    BY AttemptsCount DEF Safe, OneAttempt
  <1>2. QED
    BY <1>1, SafeInvariant, PTL

\* A session whose connection attempts nothing has used up its retries.
THEOREM SessionsAreNeverStranded == Spec => []NeverStranded
  <1>1. Safe => NeverStranded
    BY AttemptsCount DEF Safe, Retrying, NeverStranded
  <1>2. QED
    BY <1>1, SafeInvariant, PTL

\* No message of the program precedes the greeting on a socket.
THEOREM CredentialsComeFirst == Spec => []CredentialsFirst
  BY SafeInvariant, PTL DEF Safe

\* What waits in a queue is in order, and later than what was handed over.
THEOREM MessagesStayInOrder == Spec => []InOrder
  BY SafeInvariant, PTL DEF Safe

\* isOpen says of `ws` what is true of it.
THEOREM OpenMeansOpen == Spec => []OpenIsHonest
  BY SafeInvariant, PTL DEF Safe

\* Only a dropped connection can make the session show what is not so.
THEOREM SessionShowsTheTruth == Spec => []ShownIsTrue
  BY SafeInvariant, PTL DEF Safe

-------------------------------------------------------------------------------
(* What close() ends stays ended *)

\* Nothing of a closed connection is under way but close events.
Ended(c) ==
  /\ conn[c].closed /\ conn[c].urls = 0
  /\ \A s \in SocketsOf(c) : sock[s].state = "closing"

\* close() without a call of getUrl in flight ends the connection, and it stays
\* ended until connect() takes its place.
CloseEnds ==
  [][\A c \in Conns :
       /\ Ended(c) \/ (session.current = c /\ conn[c].urls = 0)
       /\ session'.current # c
       => Ended(c)']_vars

\* A step that gives the connection no URL to wait for and no socket that could
\* open.
LEMMA EndedFrame ==
  ASSUME Safe', NEW c \in Conns, session'.current # c, conn'[c].urls = 0,
         \A s \in Sockets : \/ sock'[s].conn # c
                            \/ sock'[s].state \in {"closing", "closed"}
  PROVE  Ended(c)'
  BY DEF Safe, Lifecycle, Ended, SocketsOf

\* close() closes the socket that could still open.
LEMMA CloseEnded ==
  ASSUME Safe, Safe', NEW c \in Conns, session.current = c, conn[c].urls = 0, Close
  PROVE  Ended(c)'
  <1>1. session'.current = None /\ c # None
    BY SdkAssumption DEF Close
  <1>2. conn'[c].urls = 0
    <2>1. conn' = [conn EXCEPT ![c] = [Unused EXCEPT !.urls = conn[c].urls]]
      BY DEF Close
    <2>2. QED
      BY <2>1 DEF Safe, TypeOK, Unused
  <1>3. ASSUME NEW s \in Sockets, sock'[s].conn = c
        PROVE  sock'[s].state \in {"closing", "closed"}
    <2>1. sock' = IF conn[c].ws # None /\ sock[conn[c].ws].state \in {"connecting", "open"}
                  THEN [sock EXCEPT ![conn[c].ws].state = "closing"] ELSE sock
      BY DEF Close
    <2>2. sock[s] \in Socket /\ sock[s].conn = c
      BY <1>3, <2>1 DEF Safe, TypeOK, Socket
    <2>3. CASE sock[s].state \in {"connecting", "open"}
      <3>1. conn[c].ws = s
        BY <2>2, <2>3 DEF Safe, LastSocket
      <3>2. QED
        BY <2>1, <2>2, <2>3, <3>1, SdkAssumption DEF Safe, TypeOK, Socket
    <2>4. CASE sock[s].state \in {"closing", "closed"}
      BY <2>1, <2>2, <2>4 DEF Safe, TypeOK, Socket
    <2>5. QED
      BY <2>2, <2>3, <2>4 DEF Socket
  <1>4. QED
    BY <1>1, <1>2, <1>3, EndedFrame

\* No step but connect() opens anything for an ended connection.
LEMMA EndedStays ==
  ASSUME Safe, Safe', NEW c \in Conns, Ended(c), session'.current # c, [Next]_vars
  PROVE  Ended(c)'
  <1> DEFINE Quiet == \A s \in Sockets : \/ sock'[s].conn # c
                                         \/ sock'[s].state \in {"closing", "closed"}
  <1>1. /\ session.current # c /\ conn[c].urls = 0 /\ conn[c].timers = 0
        /\ conn[c] \in Connection /\ c # None
    BY SdkAssumption DEF Safe, TypeOK, Lifecycle, Ended
  <1>2. \A s \in Sockets : /\ sock[s] \in Socket
                           /\ sock[s].conn # c \/ sock[s].state \in {"closing", "closed"}
    BY DEF Safe, TypeOK, Ended, SocketsOf
  <1>3. ASSUME conn'[c].urls = 0, Quiet
        PROVE  Ended(c)'
    BY <1>3, EndedFrame
  <1>4. ASSUME sock' = sock
        PROVE  Quiet
    BY <1>2, <1>4
  <1>5. ASSUME NEW s \in Sockets, NEW k, sock' = [sock EXCEPT ![s] = k],
               k.conn # c \/ k.state \in {"closing", "closed"}
        PROVE  Quiet
    BY <1>2, <1>5 DEF Safe, TypeOK
  <1>6. ASSUME NEW d \in Conns, d # c, NEW k, conn' = [conn EXCEPT ![d] = k]
        PROVE  conn'[c].urls = 0
    BY <1>1, <1>6
  <1>7. CASE Connect
    <2>1. PICK d \in FreeConns :
            /\ session' = [current |-> d, shown |-> "connecting"]
            /\ conn' = [conn EXCEPT ![d] = [Unused EXCEPT !.closed = FALSE, !.urls = 1]]
      BY <1>7 DEF Connect
    <2>2. d \in Conns /\ d # c
      BY <2>1 DEF FreeConns
    <2>3. conn'[c].urls = 0
      BY <1>1, <2>1, <2>2
    <2>4. sock' = sock
      BY <1>7 DEF Connect
    <2>5. QED
      BY <1>3, <1>4, <2>3, <2>4
  <1>8. CASE Send
    <2>1. session.current \in Conns /\ session.current # c
      BY <1>1, <1>8 DEF Send, Safe, TypeOK, Session
    <2>2. conn'[c].urls = 0
      BY <1>1, <1>6, <1>8, <2>1 DEF Send
    <2>3. CASE sock' = sock
      BY <1>3, <1>4, <2>2, <2>3
    <2>4. CASE sock' # sock
      <3> DEFINE s == conn[session.current].ws
                 k == Says(sock[s], <<next>>)
      <3>1. s \in Sockets /\ sock' = [sock EXCEPT ![s] = k]
        BY <1>8, <2>1, <2>4 DEF Send, Safe, TypeOK, Connection
      <3>2. k.state = sock[s].state /\ k.conn = sock[s].conn
        BY <1>2, <3>1 DEF Says, Socket
      <3> HIDE DEF s, k
      <3>3. Quiet
        BY <1>2, <1>5, <3>1, <3>2
      <3>4. QED
        BY <1>3, <2>2, <3>3
    <2>5. QED
      BY <2>3, <2>4
  <1>9. CASE Close
    <2> DEFINE d == session.current
               s == conn[d].ws
    <2>1. d \in Conns /\ d # c
      BY <1>1, <1>9 DEF Close, Safe, TypeOK, Session
    <2>2. conn'[c].urls = 0
      BY <1>6, <1>9, <2>1 DEF Close
    <2>3. CASE sock' = sock
      BY <1>3, <1>4, <2>2, <2>3
    <2>4. CASE sock' # sock
      <3>1. s \in Sockets /\ sock' = [sock EXCEPT ![s].state = "closing"]
        BY <1>9, <2>1, <2>4 DEF Close, Safe, TypeOK, Connection
      <3>2. Quiet
        BY <1>2, <3>1 DEF Safe, TypeOK, Socket
      <3>3. QED
        BY <1>3, <2>2, <3>2
    <2>5. QED
      BY <2>3, <2>4
  <1>10. ASSUME NEW d \in Conns, ConnStep(d)
         PROVE  Ended(c)'
    <2>1. d # c
      BY <1>1, <1>10 DEF ConnStep, TimerFires, UrlArrives, UrlFails
    <2>2. CASE TimerFires(d) \/ UrlFails(d)
      <3>1. conn'[c] = conn[c]
        BY <2>1, <2>2 DEF TimerFires, UrlFails, Safe, TypeOK
      <3>2. QED
        BY <1>1, <1>3, <1>4, <2>2, <3>1 DEF TimerFires, UrlFails
    <2>3. CASE UrlArrives(d)
      <3>1. PICK s \in FreeSockets :
              /\ conn' = [conn EXCEPT ![d].urls = @ - 1, ![d].ws = s]
              /\ sock' = [sock EXCEPT ![s] = [ClosedSocket EXCEPT !.state = "connecting",
                                                                 !.conn = d]]
        BY <2>3 DEF UrlArrives
      <3>2. conn'[c] = conn[c]
        BY <2>1, <3>1 DEF Safe, TypeOK
      <3>3. Quiet
        BY <1>2, <2>1, <3>1 DEF Safe, TypeOK, ClosedSocket, FreeSockets
      <3>4. QED
        BY <1>1, <1>3, <3>2, <3>3
    <2>4. QED
      BY <1>10, <2>2, <2>3 DEF ConnStep
  <1>11. ASSUME NEW s \in Sockets, Opens(s)
         PROVE  Ended(c)'
    <2>1. PICK e \in Conns : sock[s].conn = e
      BY <1>11, OnlySocket DEF Opens
    <2>2. e # c
      BY <1>2, <1>11, <2>1 DEF Opens
    <2>3. conn'[c].urls = 0
      BY <1>1, <1>11, <2>1, <2>2 DEF Opens, Safe, TypeOK, Session
    <2>4. PICK o : o.conn = e /\ \/ sock' = [sock EXCEPT ![s] = o]
                                 \/ /\ session.current \in Conns
                                    /\ conn[session.current].ws \in Sockets
                                    /\ sock' = [[sock EXCEPT ![s] = o] EXCEPT
                                         ![conn[session.current].ws] = Says(@, <<Greeting>>)]
      <3> DEFINE opened == [sock[s] EXCEPT !.state = "open"]
                 o == Says(opened, OpeningFrames(e))
      <3>1. o.conn = e
        BY <1>2, <2>1 DEF Says, Socket
      <3>2. \/ sock' = [sock EXCEPT ![s] = o]
            \/ /\ session.current \notin {e, None}
               /\ conn[session.current].ws # None
               /\ sock' = [[sock EXCEPT ![s] = o] EXCEPT
                             ![conn[session.current].ws] = Says(@, <<Greeting>>)]
        BY <1>11, <2>1 DEF Opens
      <3> HIDE DEF o
      <3>3. QED
        BY <3>1, <3>2 DEF Safe, TypeOK, Session, Connection
    <2>5. CASE sock' = [sock EXCEPT ![s] = o]
      BY <1>3, <1>5, <2>2, <2>3, <2>4, <2>5
    <2>6. CASE sock' # [sock EXCEPT ![s] = o]
      <3> DEFINE t == conn[session.current].ws
                 z == [sock EXCEPT ![s] = o]
      <3>1. t \in Sockets /\ sock' = [z EXCEPT ![t] = Says(z[t], <<Greeting>>)]
        BY <2>4, <2>6
      <3>2. \A u \in Sockets : z[u].conn # c \/ z[u].state \in {"closing", "closed"}
        BY <1>2, <2>2, <2>4 DEF Safe, TypeOK
      <3>3. DOMAIN z = Sockets
        BY DEF Safe, TypeOK
      <3> HIDE DEF t, z
      <3>4. sock'[t] = Says(z[t], <<Greeting>>) /\ \A u \in Sockets : u # t => sock'[u] = z[u]
        BY <3>1, <3>3
      <3>5. sock'[t].conn = z[t].conn /\ sock'[t].state = z[t].state
        <4>1. sock'[t] \in Socket
          BY <3>1 DEF Safe, TypeOK
        <4>2. QED
          BY <3>4, <4>1 DEF Says, Socket
      <3>6. Quiet
        BY <3>2, <3>4, <3>5
      <3>7. QED
        BY <1>3, <2>3, <3>6
    <2>7. QED
      BY <2>5, <2>6
  <1>12. ASSUME NEW s \in Sockets, ServerCloses(s)
         PROVE  Ended(c)'
    <2>1. Quiet
      BY <1>2, <1>12 DEF ServerCloses, Safe, TypeOK, Socket
    <2>2. QED
      BY <1>1, <1>3, <1>12, <2>1 DEF ServerCloses
  <1>13. ASSUME NEW s \in Sockets, SocketEnds(s) \/ SocketFails(s)
         PROVE  Ended(c)'
    <2>1. Quiet
      BY <1>5, <1>13 DEF SocketEnds, SocketFails, ClosedSocket
    <2>2. conn'[c].urls = 0
      <3>1. /\ OnClose(conn[c]).urls = conn[c].urls
            /\ OnClose(OnError(conn[c])).urls = conn[c].urls
            /\ OnError(conn[c]).urls = conn[c].urls
        BY <1>1, OnCloseFacts, ScheduleFacts DEF OnError
      <3>2. conn'[c] \in {conn[c], OnClose(conn[c]), OnClose(OnError(conn[c])),
                          OnError(conn[c])}
        BY <1>13 DEF SocketEnds, SocketFails, Safe, TypeOK
      <3>3. QED
        BY <1>1, <3>1, <3>2
    <2>3. QED
      BY <1>3, <2>1, <2>2
  <1>14. CASE UNCHANGED vars
    BY <1>1, <1>3, <1>4, <1>14 DEF vars
  <1>15. QED
    BY <1>7, <1>8, <1>9, <1>10, <1>11, <1>12, <1>13, <1>14 DEF Next, SocketStep

\* What close() ends stays ended: only a call of getUrl that was in flight when
\* it came can give a closed session another socket.
THEOREM CloseEndsTheConnection == Spec => CloseEnds
  <1>1. ASSUME Safe, Safe', [Next]_vars, NEW c \in Conns, session'.current # c,
               Ended(c) \/ (session.current = c /\ conn[c].urls = 0)
        PROVE  Ended(c)'
    <2>1. CASE Ended(c)
      BY <1>1, <2>1, EndedStays
    <2>2. CASE session.current = c /\ conn[c].urls = 0
      <3>1. Close
        <4>1. ~Connect
          BY <2>2, SdkAssumption DEF Connect
        <4>2. ~(UNCHANGED session)
          BY <1>1, <2>2
        <4>3. ASSUME NEW s \in Sockets
              PROVE  ~SocketStep(s)
          <5>1. \A x : [session EXCEPT !.shown = x].current = session.current
            BY DEF Safe, TypeOK, Session
          <5>2. QED
            BY <1>1, <2>2, <4>2, <5>1
            DEF SocketStep, Opens, ServerCloses, SocketEnds, SocketFails
        <4>4. QED
          BY <1>1, <4>1, <4>2, <4>3
          DEF Next, vars, Send, ConnStep, TimerFires, UrlArrives, UrlFails
      <3>2. QED
        BY <1>1, <2>2, <3>1, CloseEnded
    <2>3. QED
      BY <1>1, <2>1, <2>2
  <1>2. Safe /\ Safe' /\ [Next]_vars =>
          \A c \in Conns :
            /\ Ended(c) \/ (session.current = c /\ conn[c].urls = 0)
            /\ session'.current # c
            => Ended(c)'
    BY <1>1
  <1>3. QED
    BY <1>2, SafeInvariant, PTL DEF Spec, CloseEnds
===============================================================================
