-------------------------------- MODULE WebUi -------------------------------
(***************************************************************************)
(* The web UI (src/webui): an accept thread that reads and answers HTTP    *)
(* requests one after the other, detached threads for commands and for     *)
(* the event sockets, the adapter they share without a lock, and the pages *)
(* (the script of webui_static_assets.cpp), each with a socket and one     *)
(* request at a time.                                                      *)
(***************************************************************************)
EXTENDS RuntimeEvents

CONSTANTS Pages,
          Watchers,    \* bound: the pages that stay, speak and read in this instance
          Commanders   \* bound: the pages that send commands in this instance

ASSUME WebAssumption == Watchers \subseteq Pages /\ Commanders \subseteq Pages

\* What a page holds at a time: its socket, a fetch, a command.
Conns == Pages \X {"socket", "fetch"} \cup Commanders \X {"post"}

VARIABLES main,     \* the program: up, close, join, or how it ended
          web,      \* running_, listen_fd_, what waits for accept, the accept thread
          adapter,  \* current_snapshot_ and previous_snapshot_
          conn,     \* each connection of a page
          page      \* each page: whether it is open, and a watcher's picture

vars == <<runtime, main, web, adapter, conn, page>>

\* Both ends of a connection: whether the client is there and whether it has said
\* "nothing" yet, sent its "request" or also "reads" what comes back; where the
\* server's thread is, with the snapshot in its hands.
Free == [there |-> FALSE, said |-> "nothing", here |-> "closed", frame |-> NoSnapshot,
         inbox |-> <<>>]

Unused == [current |-> NoSnapshot, previous |-> NoSnapshot]

Closed == [open |-> FALSE, view |-> Fresh(0)]

Init ==
    /\ runtime = Fresh(0)
    /\ main = "up"
    /\ web = [running |-> TRUE, listening |-> TRUE, backlog |-> <<>>, thread |-> "check"]
    /\ adapter = Unused
    /\ conn = [k \in Conns |-> Free]
    /\ page = [b \in Pages |-> Closed]

\* A connection both of whose ends are closed is forgotten.
Put(k, c) == conn' = [conn EXCEPT ![k] = IF c.there \/ c.here # "closed" THEN c ELSE Free]

\* What pages that do not stay show is not followed.
Seen(k, frame) == IF k[1] \in Watchers THEN frame ELSE NoSnapshot

\* However the program ends, its threads and sockets go with it.  It is not started
\* again, so what its pages do then is not followed.
EndsAs(how) ==
    /\ main' = how
    /\ web' = [running |-> FALSE, listening |-> FALSE, backlog |-> <<>>, thread |-> "ended"]
    /\ conn' = [k \in Conns |-> Free]
    /\ page' = [b \in Pages |-> Closed]
    /\ adapter' = Unused
    /\ UNCHANGED runtime

-----------------------------------------------------------------------------
(* Stopping: the accept thread is joined, the detached threads are not.      *)

Leave ==
    /\ main = "up"
    /\ main' = "close"
    /\ web' = [web EXCEPT !.running = FALSE]
    /\ UNCHANGED <<runtime, adapter, conn, page>>

\* Mutant: the listening socket is not shut down, so accept goes on waiting.
CloseNothing ==
    /\ main = "close"
    /\ main' = "join"
    /\ UNCHANGED <<runtime, web, adapter, conn, page>>

\* A shut down listening socket ends the accept that waits on it.
CloseListener ==
    /\ main = "close"
    /\ main' = "join"
    /\ web' = [web EXCEPT !.listening = FALSE, !.backlog = <<>>]
    /\ conn' = [k \in Conns |-> IF conn[k].here = "queued" THEN Free ELSE conn[k]]
    /\ UNCHANGED <<runtime, adapter, page>>

DetachedLives(k) == conn[k].here \in {"work", "result", "poll", "took", "compare", "note", "send"}

\* The server and its adapter are destroyed and the program ends; a detached
\* thread that meets the destroyed adapter before that may break it.
JoinAccept ==
    /\ main = "join" /\ web.thread = "ended"
    /\ \/ EndsAs("down")
       \/ (\E k \in Conns : DetachedLives(k)) /\ EndsAs("broken")

StopGoesOn == CloseListener \/ JoinAccept

-----------------------------------------------------------------------------
(* The accept thread. *)

AcceptChecks ==
    /\ web.thread = "check"
    /\ web' = [web EXCEPT !.thread = IF web.running THEN "accept" ELSE "ended"]
    /\ UNCHANGED <<runtime, main, adapter, conn, page>>

AcceptFails ==
    /\ web.thread = "accept" /\ ~web.listening
    /\ web' = [web EXCEPT !.thread = "check"]
    /\ UNCHANGED <<runtime, main, adapter, conn, page>>

Accept ==
    /\ web.thread = "accept" /\ web.backlog # <<>>
    /\ conn' = [conn EXCEPT ![Head(web.backlog)].here = "read"]
    /\ web' = [web EXCEPT !.thread = "read", !.backlog = Tail(@)]
    /\ UNCHANGED <<runtime, main, adapter, page>>

\* The accept thread reads the request itself and waits for it without a limit.
\* A command and a socket get a thread of their own; for a fetch it takes a snapshot.
ReadRequest(k) ==
    /\ conn[k].here = "read" /\ conn[k].said # "nothing"
    /\ IF k[2] = "fetch"
       THEN /\ conn' = [conn EXCEPT ![k].here = "took", ![k].frame = runtime]
            /\ web' = [web EXCEPT !.thread = "answer"]
       ELSE /\ conn' = [conn EXCEPT ![k].here = IF k[2] = "post" THEN "work" ELSE "poll"]
            /\ web' = [web EXCEPT !.thread = "check"]
    /\ UNCHANGED <<runtime, main, adapter, page>>

\* A client that leaves before it has said anything.
ReadNothing(k) ==
    /\ conn[k].here = "read" /\ conn[k].said = "nothing" /\ ~conn[k].there
    /\ conn' = [conn EXCEPT ![k] = Free]
    /\ web' = [web EXCEPT !.thread = "check"]
    /\ UNCHANGED <<runtime, main, adapter, page>>

\* A thread that took a snapshot writes it to the adapter and reads it from there
\* again later, when another may have written.
Write(k) ==
    /\ conn[k].here = "took"
    /\ adapter' = [adapter EXCEPT !.current = conn[k].frame]
    /\ conn' = [conn EXCEPT ![k].here = IF k[2] = "fetch" THEN "answer" ELSE "compare",
                            ![k].frame = NoSnapshot]
    /\ UNCHANGED <<runtime, main, web, page>>

\* What is sent is what the adapter holds then.  To a client that does not read,
\* what is too large for the socket is sent for ever: fairness does not ask for this
\* step then.
SendSnapshot(k) ==
    /\ conn[k].here = "answer"
    /\ Put(k, [conn[k] EXCEPT !.here = "closed",
                 !.inbox = IF conn[k].there THEN <<Seen(k, adapter.current)>> ELSE <<>>])
    /\ web' = [web EXCEPT !.thread = "check"]
    /\ UNCHANGED <<runtime, main, adapter, page>>

Answers(k) ==
    \/ ReadRequest(k) \/ ReadNothing(k) \/ SendSnapshot(k)
    \/ k[2] = "fetch" /\ Write(k)

AcceptThread ==
    \/ AcceptChecks \/ AcceptFails \/ Accept
    \/ \E k \in Conns : Answers(k)

\* A client that is there and says nothing, or does not read its answer.
Held ==
    \E k \in Conns :
        /\ conn[k].there
        /\ \/ conn[k].here = "read" /\ conn[k].said = "nothing"
           \/ conn[k].here = "answer" /\ conn[k].said # "reads"

-----------------------------------------------------------------------------
(* Detached threads: a command.  The adapter notes its result.               *)

Work(k) ==
    /\ conn[k].here = "work"
    /\ Change \/ UNCHANGED runtime
    /\ conn' = [conn EXCEPT ![k].here = "result"]
    /\ UNCHANGED <<main, web, adapter, page>>

Reply(k) ==
    /\ conn[k].here = "result"
    /\ Put(k, [conn[k] EXCEPT !.here = "closed",
                 !.inbox = IF conn[k].there THEN <<NoSnapshot>> ELSE <<>>])
    /\ UNCHANGED <<runtime, main, web, adapter, page>>

(* Detached threads: a socket.  All of them poll the one adapter, which      *)
(* remembers one previous snapshot: a change is an event of whoever polls     *)
(* first.  The snapshot written before the first poll, which a poll writes as *)
(* well, and a poll that begins when there is nothing to find are left out.   *)

Poll(k) ==
    /\ conn[k].here = "poll"
    /\ adapter.previous # runtime \/ adapter.current # runtime
    /\ conn' = [conn EXCEPT ![k].here = "took", ![k].frame = runtime]
    /\ UNCHANGED <<runtime, main, web, adapter, page>>

Compare(k) ==
    /\ conn[k].here = "compare"
    /\ conn' = [conn EXCEPT ![k].here = "note", ![k].frame =
                  IF EventsBetween(adapter.previous, adapter.current) = <<>>
                  THEN NoSnapshot ELSE adapter.current]
    /\ UNCHANGED <<runtime, main, web, adapter, page>>

\* What it remembers is read once more, and need not be what it compared.
Note(k) ==
    /\ conn[k].here = "note"
    /\ adapter' = [adapter EXCEPT !.previous = adapter.current]
    /\ conn' = [conn EXCEPT ![k].here = IF conn[k].frame = NoSnapshot THEN "poll" ELSE "send"]
    /\ UNCHANGED <<runtime, main, web, page>>

\* A page that has left loses the frame, or the send fails.  Nothing keeps the
\* failing send from raising SIGPIPE until the first sink process or plugin has
\* switched that signal off.
Send(k) ==
    /\ conn[k].here = "send"
    /\ \/ /\ conn[k].there /\ conn[k].inbox = <<>>
          /\ conn' = [conn EXCEPT ![k].here = "poll", ![k].inbox = <<Seen(k, conn[k].frame)>>,
                                  ![k].frame = NoSnapshot]
          /\ UNCHANGED <<runtime, main, web, adapter, page>>
       \/ /\ ~conn[k].there
          /\ conn' = [conn EXCEPT ![k].here = "poll", ![k].frame = NoSnapshot]
          /\ UNCHANGED <<runtime, main, web, adapter, page>>
       \/ /\ ~conn[k].there
          /\ conn' = [conn EXCEPT ![k] = Free]
          /\ UNCHANGED <<runtime, main, web, adapter, page>>
       \/ /\ ~conn[k].there
          /\ EndsAs("killed")

Detached(k) ==
    \/ Work(k) \/ Reply(k) \/ Poll(k) \/ Compare(k) \/ Note(k) \/ Send(k)
    \/ k[2] = "socket" /\ Write(k)

\* Threads that are inside the adapter at once, one of them writing to it, without
\* a lock, may break the program; otherwise the last one to write prevails.
Writes(k) == conn[k].here \in {"took", "note", "result"}

InAdapter(k) == Writes(k) \/ conn[k].here \in {"answer", "compare"}

Race ==
    /\ \E j, k \in Conns : j # k /\ Writes(j) /\ InAdapter(k)
    /\ EndsAs("broken")

Tick == main = "up" /\ Change /\ UNCHANGED <<main, web, adapter, conn, page>>

Program == Leave \/ StopGoesOn \/ Tick \/ Race

-----------------------------------------------------------------------------
(* Pages. *)

\* A page connects; one that stays sends its request at once and reads the answer.
\* bound: another page has one connection at a time.
Ask(k) ==
    /\ web.listening /\ conn[k] = Free
    /\ k[1] \in Watchers \/ \A j \in Conns : j[1] = k[1] => conn[j] = Free
    /\ conn' = [conn EXCEPT ![k].there = TRUE, ![k].here = "queued",
                            ![k].said = IF k[1] \in Watchers THEN "reads" ELSE "nothing"]
    /\ web' = [web EXCEPT !.backlog = Append(@, k)]
    /\ UNCHANGED <<runtime, main, adapter, page>>

OpenPage(b) ==
    /\ ~page[b].open /\ web.listening
    /\ page' = [page EXCEPT ![b] = [Closed EXCEPT !.open = TRUE]]
    /\ UNCHANGED <<runtime, main, web, adapter, conn>>

ConnectSocket(b) == page[b].open /\ Ask(<<b, "socket">>)

\* Mutant: a page that has its socket asks no more.
FetchBefore(b) == page[b].open /\ conn[<<b, "socket">>] = Free /\ Ask(<<b, "fetch">>)

\* On opening its socket, after a command and on a timer.
Fetch(b) == page[b].open /\ Ask(<<b, "fetch">>)

Post(b) == page[b].open /\ Ask(<<b, "post">>)

\* Another page takes its time over each, or leaves it undone; what it does before
\* the accept thread waits for it makes no difference.
Speak(k) ==
    /\ conn[k].here = "read" /\ conn[k].there /\ conn[k].said = "nothing"
    /\ conn' = [conn EXCEPT ![k].said = "request"]
    /\ UNCHANGED <<runtime, main, web, adapter, page>>

TakeAnswer(k) ==
    /\ conn[k].here = "answer" /\ conn[k].there /\ conn[k].said = "request"
    /\ conn' = [conn EXCEPT ![k].said = "reads"]
    /\ UNCHANGED <<runtime, main, web, adapter, page>>

\* What a frame carries; of the other domains it says nothing.
Framed == {"playback", "progress", "error", "eq", "lyrics", "line", "visualization", "library"}

ReadFrame(b) ==
    LET k == <<b, "socket">>
    IN  /\ conn[k].there /\ conn[k].inbox # <<>>
        /\ conn' = [conn EXCEPT ![k].inbox = Tail(@)]
        /\ page' = [page EXCEPT ![b].view.shown = [d \in Domains |->
                      IF b \in Watchers /\ d \in Framed
                      THEN Head(conn[k].inbox).shown[d] ELSE @[d]]]
        /\ UNCHANGED <<runtime, main, web, adapter>>

\* A snapshot replaces the picture.
ReadAnswer(k) ==
    /\ k[2] # "socket" /\ conn[k].there /\ conn[k].here = "closed"
    /\ conn' = [conn EXCEPT ![k] = Free]
    /\ IF k[1] \in Watchers /\ k[2] = "fetch" /\ conn[k].inbox # <<>>
       THEN page' = [page EXCEPT ![k[1]].view = Head(conn[k].inbox)]
       ELSE UNCHANGED page
    /\ UNCHANGED <<runtime, main, web, adapter>>

PageLeaves(b) ==
    /\ page[b].open /\ b \notin Watchers
    /\ page' = [page EXCEPT ![b] = Closed]
    /\ conn' = [k \in Conns |->
          IF k[1] # b THEN conn[k]
          ELSE IF conn[k].here = "closed" THEN Free
          ELSE [conn[k] EXCEPT !.there = FALSE, !.inbox = <<>>]]
    /\ UNCHANGED <<runtime, main, web, adapter>>

PageGoesOn(b) ==
    \/ ConnectSocket(b) \/ Fetch(b) \/ ReadFrame(b)
    \/ \E k \in Conns : k[1] = b /\ ReadAnswer(k)

Next ==
    \/ Program \/ AcceptThread
    \/ \E k \in Conns : Detached(k) \/ Speak(k) \/ TakeAnswer(k)
    \/ \E b \in Commanders : Post(b)
    \/ \E b \in Pages : OpenPage(b) \/ PageLeaves(b) \/ PageGoesOn(b)

Spec == Init /\ [][Next]_vars

(***************************************************************************)
(* The accept thread runs on unless a client holds it, the threads of sockets *)
(* and the thread that stops the server run on, and so does the script of a  *)
(* page that stays: its timer fires, it reads what has arrived.  Nobody has   *)
(* to send a request or to read an answer, and a command may take for ever.   *)
(***************************************************************************)
FairSpec ==
    /\ Spec
    /\ WF_vars(StopGoesOn) /\ WF_vars(~Held /\ AcceptThread)
    /\ \A b \in Pages : WF_vars(Detached(<<b, "socket">>))
    /\ \A b \in Watchers : WF_vars(PageGoesOn(b))

-----------------------------------------------------------------------------
(* Properties. *)

(* What a page that stays shows is in the end what the runtime is, although  *)
(* a change is told to one socket only, a lost socket takes its event with it *)
(* and frames leave domains out: the page asks again by itself.  A client     *)
(* that holds the accept thread for ever holds every other page as well.      *)
PageCatchesUp ==
    \A b \in Watchers :
        <>[]page[b].open => <>[](main = "up" => page[b].view = runtime) \/ <>[]Held

(* stop() returns wherever the accept thread is among its own steps when the *)
(* listening socket is shut down, or the program was already broken; the one  *)
(* thing that can hold the join for ever is a client that keeps its           *)
(* connection and does not send its request, or does not read its answer.     *)
StopEnds ==
    (main \in {"close", "join"} ~> main \in {"down", "killed", "broken"}) \/ <>[]Held
=============================================================================
