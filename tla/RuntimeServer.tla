---------------------------- MODULE RuntimeServer ---------------------------
(***************************************************************************)
(* The runtime's Unix socket server                                        *)
(* (src/runtime/unix_socket_runtime_transport.cpp) from the program's      *)
(* start to its end, with its clients: one-shot requests of the command    *)
(* line and the event stream of a terminal (src/tui/tui_app.cpp).  The     *)
(* accept thread, one thread per connection, the main thread that stops    *)
(* them and the clients interleave; the program may also be killed.        *)
(***************************************************************************)
EXTENDS RuntimeEvents, SequencesExt

CONSTANTS Conns,        \* the connections that exist at a time
          Backlog,      \* connections the listening socket holds
          SocketSize,   \* frames a connection holds on the way to its client
          RingSize,     \* events a terminal keeps between two drawings
          MaxLives,     \* bound: starts of the program
          MaxRequests,  \* bound: one-shot requests
          Wake,         \* the connection by which stop() wakes the accept thread
          NoConn

ASSUME ServerAssumption ==
    /\ Wake \notin Conns /\ NoConn \notin Conns
    /\ {Backlog, SocketSize, RingSize, MaxLives, MaxRequests} \subseteq Nat
    /\ SocketSize > 0 /\ RingSize > 0

VARIABLES main,      \* the program: down, up, or where it is in stop()
          server,    \* running_, server_fd_, the accept thread and what waits for it
          conn,      \* each connection: its client's end, its server thread, its data
          terminal,  \* the terminal: its stream, event ring and picture
          requests   \* one-shot requests made so far

vars == <<runtime, main, server, conn, terminal, requests>>

Idle == [use |-> "free", there |-> FALSE, here |-> "closed", inbox |-> <<>>,
         previous |-> NoSnapshot, sent |-> NoSnapshot, applied |-> FALSE]

Off == [running |-> FALSE, listening |-> FALSE, thread |-> "none", backlog |-> <<>>]

NewTerminal == [on |-> TRUE, stream |-> NoConn, ring |-> <<>>, error |-> FALSE,
                view |-> NoSnapshot, connected |-> FALSE]

Init ==
    /\ runtime = Fresh(0)
    /\ main = "down"
    /\ server = Off
    /\ conn = [k \in Conns |-> Idle]
    /\ terminal = NewTerminal
    /\ requests = 0

\* The server's end is closed and its thread ends.
Ended(c) == [c EXCEPT !.here = "closed", !.previous = NoSnapshot, !.sent = NoSnapshot]

\* A connection both of whose ends are closed is forgotten.
Put(k, c) ==
    conn' = [conn EXCEPT ![k] = IF c.there \/ c.here # "closed" THEN c ELSE Idle]

ThreadLives(k) == conn[k].here \notin {"queued", "closed"}

-----------------------------------------------------------------------------
(* The program: it starts, is told to leave, and stops its server.          *)

Start ==
    /\ main = "down" /\ runtime.life < MaxLives
    /\ main' = "up"
    /\ runtime' = Fresh(runtime.life + 1)
    /\ server' = [Off EXCEPT !.running = TRUE, !.listening = TRUE, !.thread = "check"]
    /\ UNCHANGED <<conn, terminal, requests>>

\* The window is closed or a shutdown was requested: stop() lowers running_.
Leave ==
    /\ main = "up"
    /\ main' = "wake"
    /\ server' = [server EXCEPT !.running = FALSE]
    /\ UNCHANGED <<runtime, conn, terminal, requests>>

\* Mutant: the accept thread is not woken.
WakeNobody ==
    /\ main = "wake"
    /\ main' = "close"
    /\ UNCHANGED <<runtime, server, conn, terminal, requests>>

\* stop() connects to its own socket.  That call waits, without a limit, while the
\* backlog is full, and nobody empties it once the accept thread has ended.
WakeAccept ==
    /\ main = "wake" /\ Len(server.backlog) <= Backlog
    /\ server' = [server EXCEPT !.backlog = Append(@, Wake)]
    /\ main' = "close"
    /\ UNCHANGED <<runtime, conn, terminal, requests>>

\* Closing the listening socket resets whoever waits in its backlog, but does
\* not end an accept that waits inside the kernel.
Reset(c) == [k \in Conns |->
    IF c[k].here # "queued" THEN c[k]
    ELSE IF c[k].there THEN [c[k] EXCEPT !.here = "closed"]
    ELSE Idle]

CloseListener ==
    /\ main = "close"
    /\ main' = "joinAccept"
    /\ IF server.thread = "waiting"
       THEN server' = [server EXCEPT !.listening = FALSE] /\ UNCHANGED conn
       ELSE /\ server' = [server EXCEPT !.listening = FALSE, !.backlog = <<>>]
            /\ conn' = Reset(conn)
    /\ UNCHANGED <<runtime, terminal, requests>>

JoinAccept ==
    /\ main = "joinAccept" /\ server.thread = "ended"
    /\ main' = "joinClients"
    /\ UNCHANGED <<runtime, server, conn, terminal, requests>>

\* A program that is gone holds no socket; its clients see their end.
Abandoned(c) == [k \in Conns |->
    IF c[k].there THEN Ended(c[k]) ELSE Idle]

\* Mutant: the threads of the clients are not joined.
EndEarly ==
    /\ main = "joinClients"
    /\ main' = "down"
    /\ server' = Off
    /\ conn' = Abandoned(conn)
    /\ UNCHANGED <<runtime, terminal, requests>>

\* The threads of the clients are joined, then the program ends.
End ==
    /\ main = "joinClients" /\ \A k \in Conns : ~ThreadLives(k)
    /\ main' = "down"
    /\ server' = Off
    /\ conn' = Abandoned(conn)
    /\ UNCHANGED <<runtime, terminal, requests>>

\* The program is killed, and what it did is gone with it.
Crash ==
    /\ main # "down"
    /\ main' = "down"
    /\ server' = Off
    /\ conn' = Abandoned([k \in Conns |-> [conn[k] EXCEPT !.applied = FALSE]])
    /\ UNCHANGED <<runtime, terminal, requests>>

StopGoesOn == WakeAccept \/ CloseListener \/ JoinAccept \/ End

Program == Start \/ Leave \/ StopGoesOn \/ Crash

-----------------------------------------------------------------------------
(* The accept thread. *)

AcceptChecks ==
    /\ server.thread = "check"
    /\ server' = [server EXCEPT !.thread = IF server.running THEN "accept" ELSE "ended"]
    /\ UNCHANGED <<runtime, main, conn, terminal, requests>>

AcceptEnters ==
    /\ server.thread = "accept"
    /\ server' = [server EXCEPT !.thread = IF server.listening THEN "waiting" ELSE "check"]
    /\ UNCHANGED <<runtime, main, conn, terminal, requests>>

\* The connection gets a thread of its own; the one stop() made ends at once.
AcceptReturns ==
    /\ server.thread = "waiting" /\ server.backlog # <<>>
    /\ LET k == Head(server.backlog)
           taken == IF k = Wake THEN conn ELSE [conn EXCEPT ![k].here = "read"]
       IN  IF server.listening
           THEN /\ server' = [server EXCEPT !.thread = "check", !.backlog = Tail(@)]
                /\ conn' = taken
           ELSE /\ server' = [server EXCEPT !.thread = "check", !.backlog = <<>>]
                /\ conn' = Reset(taken)
    /\ UNCHANGED <<runtime, main, terminal, requests>>

AcceptThread == AcceptChecks \/ AcceptEnters \/ AcceptReturns

-----------------------------------------------------------------------------
(* The thread of connection k. *)

Subscribe(k) ==
    /\ conn[k].here = "read" /\ conn[k].use = "stream"
    /\ conn' = [conn EXCEPT ![k].here = "look"]
    /\ UNCHANGED <<runtime, main, server, terminal, requests>>

Dispatch(k) ==
    /\ conn[k].here = "read" /\ conn[k].use = "request"
    /\ \/ /\ Change
          /\ conn' = [conn EXCEPT ![k].here = "reply", ![k].applied = TRUE]
       \/ /\ conn' = [conn EXCEPT ![k].here = "reply"]
          /\ UNCHANGED runtime
    /\ UNCHANGED <<main, server, terminal, requests>>

Answer == NoSnapshot

Reply(k) ==
    /\ conn[k].here = "reply"
    /\ Put(k, [conn[k] EXCEPT !.here = "closed",
                 !.inbox = IF conn[k].there THEN Append(@, Answer) ELSE @])
    /\ UNCHANGED <<runtime, main, server, terminal, requests>>

\* One turn of an event stream: look at the flag, take a snapshot, and send what
\* changed since the last one; when nothing did and time is up, a heartbeat.
Look(k) ==
    /\ conn[k].here = "look"
    /\ IF ~server.running
       THEN Put(k, Ended(conn[k]))
       ELSE /\ conn[k].previous # runtime
            /\ conn' = [conn EXCEPT ![k].previous = runtime, ![k].here =
                          IF EventsBetween(conn[k].previous, runtime) = <<>>
                          THEN "look" ELSE "send"]
    /\ UNCHANGED <<runtime, main, server, terminal, requests>>

\* Mutant: only events are sent.
NoHeartbeat(k) == FALSE /\ UNCHANGED vars

Heartbeat(k) ==
    /\ conn[k].here = "look" /\ server.running
    /\ EventsBetween(conn[k].previous, runtime) = <<>>
    /\ conn[k].sent # runtime
    /\ conn' = [conn EXCEPT ![k].previous = runtime, ![k].here = "send"]
    /\ UNCHANGED <<runtime, main, server, terminal, requests>>

\* The events of one turn carry one snapshot and count as one frame.  A write
\* waits while the socket is full and fails when the client is gone.
Send(k) ==
    /\ conn[k].here = "send"
    /\ LET c == conn[k]
       IN  IF ~c.there
           THEN Put(k, Ended(c))
           ELSE /\ Len(c.inbox) < SocketSize
                /\ conn' = [conn EXCEPT ![k].inbox = Append(@, c.previous),
                              ![k].sent = c.previous, ![k].here = "look"]
    /\ UNCHANGED <<runtime, main, server, terminal, requests>>

ClientThread(k) ==
    Subscribe(k) \/ Dispatch(k) \/ Reply(k) \/ Look(k) \/ Heartbeat(k) \/ Send(k)

-----------------------------------------------------------------------------
(* Clients. *)

Free == CHOOSE k \in Conns : conn[k] = Idle

\* A client connects and writes its request at once; any free connection will do.
Connect(use) ==
    /\ \E k \in Conns : conn[k] = Idle
    /\ server.listening /\ Len(server.backlog) <= Backlog
    /\ conn' = [conn EXCEPT ![Free] = [Idle EXCEPT !.use = use, !.there = TRUE, !.here = "queued"]]
    /\ server' = [server EXCEPT !.backlog = Append(@, Free)]

\* transact: a command or query of the command line, or of a terminal.
Request ==
    /\ requests < MaxRequests
    /\ Connect("request")
    /\ requests' = requests + 1
    /\ UNCHANGED <<runtime, main, terminal>>

\* It waits for its answer without a limit, or sees that there is none.
ReadAnswer(k) ==
    /\ conn[k].use = "request" /\ conn[k].there
    /\ conn[k].inbox # <<>> \/ conn[k].here = "closed"
    /\ Put(k, [conn[k] EXCEPT !.there = FALSE])
    /\ UNCHANGED <<runtime, main, server, terminal, requests>>

(* The terminal: a thread takes events off the stream, the main loop draws. *)

ConnectStream ==
    /\ terminal.on /\ terminal.stream = NoConn
    /\ Connect("stream")
    /\ terminal' = [terminal EXCEPT !.stream = Free, !.error = FALSE]
    /\ UNCHANGED <<runtime, main, requests>>

ConnectFails ==
    /\ terminal.on /\ terminal.stream = NoConn /\ ~server.listening /\ ~terminal.error
    /\ terminal' = [terminal EXCEPT !.error = TRUE]
    /\ UNCHANGED <<runtime, main, server, conn, requests>>

\* A full ring loses its oldest event.
Pushed(ring, e) ==
    LET all == Append(ring, e)
    IN  SubSeq(all, IF Len(all) > RingSize THEN Len(all) - RingSize + 1 ELSE 1, Len(all))

\* A stream whose other end is closed is given up with what it still holds.
NextEvent ==
    LET k == terminal.stream
    IN  /\ k # NoConn
        /\ \/ /\ conn[k].here = "closed"
              /\ conn' = [conn EXCEPT ![k] = Idle]
              /\ terminal' = [terminal EXCEPT !.stream = NoConn, !.error = TRUE]
           \/ /\ conn[k].here # "closed" /\ conn[k].inbox # <<>>
              /\ conn' = [conn EXCEPT ![k].inbox = Tail(@)]
              /\ terminal' = [terminal EXCEPT !.ring = Pushed(@, Head(conn[k].inbox))]
    /\ UNCHANGED <<runtime, main, server, requests>>

\* Mutant: the events drawn stay in the ring.
DrawKeeping ==
    /\ terminal.on /\ terminal.ring # <<>>
    /\ terminal' = [terminal EXCEPT !.connected = TRUE, !.view = Last(terminal.ring)]
    /\ UNCHANGED <<runtime, main, server, conn, requests>>

\* The events drained are applied one after the other: the last one stays.
Draw ==
    /\ terminal.on
    /\ \/ /\ terminal.ring # <<>>
          /\ terminal' = [terminal EXCEPT !.ring = <<>>, !.connected = TRUE,
                            !.view = Last(terminal.ring)]
       \/ /\ terminal.ring = <<>> /\ terminal.error /\ terminal.connected
          /\ terminal' = [terminal EXCEPT !.connected = FALSE]
    /\ UNCHANGED <<runtime, main, server, conn, requests>>

Quit ==
    /\ terminal.on
    /\ terminal' = [terminal EXCEPT !.on = FALSE, !.stream = NoConn, !.ring = <<>>]
    /\ LET k == terminal.stream
       IN  IF k = NoConn THEN UNCHANGED conn
           ELSE Put(k, [conn[k] EXCEPT !.there = FALSE, !.inbox = <<>>])
    /\ UNCHANGED <<runtime, main, server, requests>>

Ingest == ConnectStream \/ ConnectFails \/ NextEvent

Tick == main = "up" /\ Change /\ UNCHANGED <<main, server, conn, terminal, requests>>

Next ==
    \/ Program \/ Tick \/ AcceptThread
    \/ \E k \in Conns : ClientThread(k) \/ ReadAnswer(k)
    \/ Request \/ Ingest \/ Draw \/ Quit

Spec == Init /\ [][Next]_vars

(***************************************************************************)
(* As long as some thread of the program or some client of this repository *)
(* can go on, one of them does.  Nobody has to start the program, end it,  *)
(* change its state or quit.  This is weaker than fairness to each thread. *)
(***************************************************************************)
GoesOn ==
    \/ StopGoesOn \/ AcceptThread \/ Ingest \/ Draw
    \/ \E k \in Conns : ClientThread(k) \/ ReadAnswer(k)

FairSpec == Spec /\ WF_vars(GoesOn)

-----------------------------------------------------------------------------
(* Properties. *)

Before(a, b) ==
    \/ a.life < b.life
    \/ /\ a.life = b.life
       /\ \A d \in Domains : a.shown[d] <= b.shown[d]

(* A terminal never goes back: its picture, the events in its ring and those *)
(* on the wire show states in the order the runtime went through them, over   *)
(* lost streams, overflows of the ring and restarts of the program.          *)
PicturesComeInOrder ==
    LET wire == IF terminal.stream = NoConn THEN <<>> ELSE conn[terminal.stream].inbox
        shown == (IF terminal.view = NoSnapshot THEN <<>> ELSE <<terminal.view>>)
                   \o terminal.ring \o wire \o <<runtime>>
    IN  \A i \in 1..Len(shown) - 1 : Before(shown[i], shown[i + 1])

(* A client that gets no answer may take it that its command was not applied *)
(* to the program that runs: stop() waits for the threads of its clients.     *)
AppliedIsAnswered ==
    \A k \in Conns :
        conn[k].applied /\ conn[k].there /\ conn[k].here = "closed" => conn[k].inbox # <<>>

\* What stop() has no way out of: the accept thread saw the flag and ended by
\* itself, and clients that came since fill the backlog the waking call needs.
StopIsStuck ==
    main = "wake" /\ server.thread = "ended" /\ Len(server.backlog) > Backlog

(* Save for a stop() held by a full backlog that nobody empties any more, no *)
(* call waits for ever: stop() returns, wherever the accept thread and the    *)
(* threads of its clients are when it begins, and whoever sent a request gets  *)
(* an answer or the end of the connection.                                    *)
CallsEnd ==
    LET Waits == main \notin {"down", "up"} \/ \E k \in Conns : conn[k].use = "request"
    IN  Waits ~> (~Waits \/ StopIsStuck)

(* What a terminal shows is in the end what the runtime is, also for changes *)
(* too small to make an event and after the program was killed and restarted. *)
TerminalCatchesUp ==
    <>[](main = "up" /\ terminal.on => terminal.connected /\ terminal.view = runtime)
=============================================================================
