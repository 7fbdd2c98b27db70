----------------------------- MODULE WebUiProofs ----------------------------
(***************************************************************************)
(* Proofs about WebUi, for any pages and domains: what a page shows has    *)
(* been, a request waits where the accept thread finds it, and stopping    *)
(* waits for nothing but a client that is there.  IInv is inductive; a     *)
(* frame in the hands of a thread, in the adapter, in a socket or on a page *)
(* is one of the past, whoever of the threads wrote to the adapter last.   *)
(***************************************************************************)
EXTENDS WebUi, SequenceTheorems, TLAPS

\* The states the runtime has been in, as far as their counts tell.
Past == {s \in Snapshots : s.life = runtime.life
                           /\ \A d \in Domains : s.shown[d] <= runtime.shown[d]}

Frames == Snapshots \cup {NoSnapshot}

\* What the thread of a connection can be at.
Doings(use) ==
    {"closed", "queued", "read"} \cup
        IF use = "fetch" THEN {"took", "answer"}
        ELSE IF use = "post" THEN {"work", "result"}
        ELSE {"poll", "took", "compare", "note", "send"}

Socket == [there : BOOLEAN, said : {"nothing", "request", "reads"},
           here : {"closed", "queued", "read", "work", "result", "poll", "took", "compare",
                   "note", "send", "answer"},
           frame : Frames, inbox : Seq(Frames)]

Site == [running : BOOLEAN, listening : BOOLEAN, backlog : Seq(Conns),
         thread : {"check", "accept", "read", "answer", "ended"}]

Adapter == [current : Frames, previous : Frames]

\* A frame in the hands of a thread, on its way or read is one of the past.
Carries(k, c, past) ==
    /\ c \in Socket
    /\ c.here \in Doings(k[2])
    /\ c.here \in {"took", "send"} => c.frame \in past
    /\ c.here = "note" => c.frame \in past \cup {NoSnapshot}
    /\ k[1] \in Watchers /\ k[2] # "post" => c.inbox \in Seq(past)

Typed ==
    /\ runtime \in Snapshots /\ runtime.life = 0
    /\ main \in {"up", "close", "join", "down", "broken", "killed"}
    /\ web \in Site
    /\ adapter \in Adapter
    /\ \A k \in Conns : Carries(k, conn[k], Past)
    /\ conn \in [Conns -> Socket]
    /\ page \in [Pages -> [open : BOOLEAN, view : Snapshots]]

\* Whoever reads the adapter finds a snapshot there, one of the past.
AdapterIsPast ==
    /\ adapter.current \in Past \cup {NoSnapshot}
    /\ \A k \in Conns :
          conn[k].here \in {"compare", "note", "answer"} => adapter.current \in Past

\* No page runs ahead.
ShowsThePast == \A b \in Pages : page[b].view \in Past

\* What the flags say of the program, and what is left when it has stopped.
Stops ==
    /\ web.running <=> main = "up"
    /\ web.listening <=> main \in {"up", "close"}
    /\ ~web.listening => web.backlog = <<>>
    /\ main \notin {"up", "close", "join"} => web.thread = "ended"

\* What waits for accept is what is in the backlog.
QueueIsKnown ==
    /\ \A i \in 1..Len(web.backlog) :
          /\ conn[web.backlog[i]].here = "queued"
          /\ \A j \in 1..Len(web.backlog) : web.backlog[j] = web.backlog[i] => j = i
    /\ \A k \in Conns : conn[k].here = "queued" =>
          \E i \in 1..Len(web.backlog) : web.backlog[i] = k

\* The connections in the hands of the accept thread.
Served(k, c) == c.here \in {"read", "answer"} \/ (c.here = "took" /\ k[2] = "fetch")

\* The accept thread's place and the one connection it serves.
OneIsServed ==
    /\ \A j, k \in Conns : Served(j, conn[j]) /\ Served(k, conn[k]) => j = k
    /\ web.thread = "read" <=> \E k \in Conns : conn[k].here = "read"
    /\ web.thread = "answer" <=> \E k \in Conns : Served(k, conn[k]) /\ conn[k].here # "read"

\* What a step takes and keeps.
IInv == Typed /\ AdapterIsPast /\ ShowsThePast /\ Stops /\ QueueIsKnown /\ OneIsServed

\* The request has come, or the client is gone; the answer is read, or nobody waits
\* for it.
CanGoOn(k) ==
    /\ Served(k, conn[k])
    /\ conn[k].here = "read" => conn[k].said # "nothing" \/ ~conn[k].there
    /\ conn[k].here = "answer" => conn[k].said = "reads" \/ ~conn[k].there

\* Whatever stop() joins has ended, has a step to take, or waits for a client that is
\* there: for its request, or for it to read the answer.
JoinGoesOn ==
    main = "join" =>
        \/ web.thread \in {"ended", "check"}
        \/ web.thread = "accept" /\ ~web.listening
        \/ \E k \in Conns : CanGoOn(k)
        \/ Held

-----------------------------------------------------------------------------
LEMMA UseOfConns ==
    /\ \A k \in Conns : k[1] \in Pages /\ k[2] \in {"socket", "fetch", "post"}
    /\ \A b \in Pages : <<b, "socket">> \in Conns /\ <<b, "fetch">> \in Conns
    /\ \A b \in Commanders : b \in Pages /\ <<b, "post">> \in Conns
  BY WebAssumption DEF Conns

LEMMA Widened == ASSUME NEW S, NEW T, S \subseteq T, NEW s \in Seq(S) PROVE s \in Seq(T)
  OBVIOUS

LEMMA EmptyFacts == \A S : <<>> \in Seq(S) /\ Len(<<>>) = 0
  OBVIOUS

LEMMA OneFacts == ASSUME NEW S, NEW x \in S PROVE <<x>> \in Seq(S)
  OBVIOUS

LEMMA PastFacts ==
    ASSUME runtime \in Snapshots, Change \/ UNCHANGED runtime
    PROVE  runtime \in Past /\ runtime' \in Snapshots /\ Past \subseteq Past'
<1>1. runtime \in Past
  BY DEF Past, Snapshots
<1>2. CASE UNCHANGED runtime
  BY <1>1, <1>2 DEF Past
<1>3. CASE Change
  <2>1. PICK d \in Domains : /\ runtime.shown[d] < MaxShown
                             /\ runtime' = [runtime EXCEPT !.shown[d] = @ + 1]
    BY <1>3 DEF Change
  <2>2. MaxShown \in Nat
    BY EventsAssumption
  <2>3. /\ runtime' \in Snapshots /\ runtime'.life = runtime.life
        /\ \A e \in Domains : runtime.shown[e] <= runtime'.shown[e]
    BY <2>1, <2>2 DEF Snapshots
  <2>4. ASSUME NEW s \in Past PROVE s \in Past'
    <3>1. /\ s \in Snapshots /\ s.life = runtime.life
          /\ \A e \in Domains : s.shown[e] <= runtime.shown[e]
      BY DEF Past
    <3>2. \A e \in Domains : s.shown[e] \in Int /\ runtime.shown[e] \in Int
                      /\ runtime'.shown[e] \in Int
      BY <2>2, <2>3, <3>1 DEF Snapshots
    <3> QED
      BY <2>3, <3>1, <3>2 DEF Past
  <2> QED
    BY <1>1, <2>3, <2>4
<1> QED
  BY <1>2, <1>3

LEMMA FreeCarries == \A past : \A k \in Conns : Carries(k, Free, past)
<1>1. Free \in Socket
  BY EmptyFacts DEF Free, Socket, Frames
<1> QED
  BY <1>1, EmptyFacts DEF Free, Carries, Doings

LEMMA CarriesStill ==
    ASSUME Past \subseteq Past', NEW k, NEW c, Carries(k, c, Past)
    PROVE  Carries(k, c, Past')
  BY Widened DEF Carries

LEMMA AllCarryStill ==
    ASSUME Typed, Past \subseteq Past', UNCHANGED conn
    PROVE  conn' \in [Conns -> Socket] /\ \A k \in Conns : Carries(k, conn'[k], Past')
  BY CarriesStill DEF Typed

LEMMA OneCarries ==
    ASSUME Typed, Past \subseteq Past', NEW k \in Conns, NEW c, Carries(k, c, Past'),
           conn' = [conn EXCEPT ![k] = c] \/ Put(k, c)
    PROVE  /\ conn' \in [Conns -> Socket]
           /\ \A j \in Conns : Carries(j, conn'[j], Past')
           /\ \A j \in Conns : j # k => conn'[j] = conn[j]
           /\ conn'[k].here = c.here
<1>0. \/ conn' = [conn EXCEPT ![k] = c]
      \/ c.here = "closed" /\ conn' = [conn EXCEPT ![k] = Free]
  <2>1. CASE Put(k, c) /\ ~(c.there \/ c.here # "closed")
    BY <2>1 DEF Put
  <2>2. CASE Put(k, c) /\ (c.there \/ c.here # "closed")
    BY <2>2 DEF Put
  <2> QED
    BY <2>1, <2>2
<1>1. PICK d : conn' = [conn EXCEPT ![k] = d] /\ (d = c \/ (d = Free /\ c.here = "closed"))
  BY <1>0
<1>2. Carries(k, d, Past') /\ d.here = c.here
  <2>1. Carries(k, Free, Past') /\ Free.here = "closed"
    BY FreeCarries DEF Free
  <2> QED
    BY <1>1, <2>1
<1>3. d \in Socket
  BY <1>2 DEF Carries
<1>4. conn \in [Conns -> Socket] /\ \A j \in Conns : Carries(j, conn[j], Past')
  BY CarriesStill DEF Typed
<1> QED
  BY <1>1, <1>2, <1>3, <1>4

\* Neither in the backlog nor in the hands of the accept thread.
Apart(k, c) == c.here # "queued" /\ ~Served(k, c)

Busy == {"read", "answer"}

\* Neither the backlog nor the accept thread is concerned.
LEMMA NotConcerned ==
    ASSUME QueueIsKnown, OneIsServed, web \in Site, web'.backlog = web.backlog,
           web'.thread = web.thread \/ (web.thread \notin Busy /\ web'.thread \notin Busy),
           \A k \in Conns : \/ conn'[k].here = conn[k].here
                            \/ Apart(k, conn[k]) /\ Apart(k, conn'[k])
    PROVE  QueueIsKnown' /\ OneIsServed'
<1>1. \A i \in 1..Len(web.backlog) : web.backlog[i] \in Conns
  BY DEF Site
<1>2. \A k \in Conns : /\ conn'[k].here = "queued" <=> conn[k].here = "queued"
                       /\ conn'[k].here = "read" <=> conn[k].here = "read"
                       /\ Served(k, conn'[k]) <=> Served(k, conn[k])
  BY DEF Apart, Served
<1>3. QueueIsKnown'
  BY <1>1, <1>2 DEF QueueIsKnown
<1>4. OneIsServed'
  <2>1. /\ web'.thread = "read" <=> web.thread = "read"
        /\ web'.thread = "answer" <=> web.thread = "answer"
    BY DEF Busy
  <2> QED
    BY <1>2, <2>1 DEF OneIsServed
<1> QED
  BY <1>3, <1>4

\* The snapshot of the adapter stays one of the past.
LEMMA AdapterStays ==
    ASSUME AdapterIsPast, Past \subseteq Past', adapter'.current = adapter.current,
           \A k \in Conns : conn'[k].here \in {"compare", "note", "answer"} =>
               conn[k].here \in {"compare", "note", "answer"}
    PROVE  AdapterIsPast'
  BY DEF AdapterIsPast

LEMMA ClosedIsPast ==
    ASSUME Typed
    PROVE  Closed \in [open : BOOLEAN, view : Snapshots] /\ Closed.view \in Past /\ ~Closed.open
<1>1. MaxShown \in Nat
  BY EventsAssumption
<1>2. Fresh(0) \in Snapshots
  BY <1>1 DEF Fresh, Snapshots
<1>3. \A d \in Domains : Fresh(0).shown[d] <= runtime.shown[d]
  BY <1>1 DEF Typed, Fresh, Snapshots
<1>4. Fresh(0) \in Past
  BY <1>2, <1>3 DEF Past, Typed, Fresh
<1> QED
  BY <1>2, <1>4 DEF Closed

LEMMA EndsKeeps ==
    ASSUME IInv, NEW how \in {"down", "broken", "killed"}, EndsAs(how)
    PROVE  IInv'
<1>1. /\ main' = how /\ conn' = [k \in Conns |-> Free] /\ page' = [b \in Pages |-> Closed]
      /\ web' = [running |-> FALSE, listening |-> FALSE, backlog |-> <<>>, thread |-> "ended"]
      /\ adapter' = Unused /\ runtime' = runtime
  BY DEF EndsAs
<1>2. web' \in Site
  BY <1>1, EmptyFacts DEF Site
<1>3. /\ conn' \in [Conns -> Socket]
      /\ \A k \in Conns : Carries(k, conn'[k], Past') /\ conn'[k].here = "closed"
  BY <1>1, FreeCarries DEF Carries, Free
<1>4. Past' = Past /\ runtime \in Snapshots
  BY <1>1 DEF Past, IInv, Typed
<1>5. page' \in [Pages -> [open : BOOLEAN, view : Snapshots]]
      /\ \A b \in Pages : page'[b].view \in Past'
  BY <1>1, <1>4, ClosedIsPast DEF IInv, Typed, Closed
<1>6. Typed' /\ ShowsThePast' /\ AdapterIsPast'
  <2>1. adapter' \in Adapter /\ adapter'.current = NoSnapshot
    BY <1>1 DEF Unused, Adapter, Frames
  <2> QED
    BY <1>1, <1>2, <1>3, <1>4, <1>5, <2>1 DEF IInv, Typed, ShowsThePast, AdapterIsPast
<1>7. Stops'
  BY <1>1 DEF Stops
<1>8. QueueIsKnown' /\ OneIsServed'
  BY <1>1, <1>3, EmptyFacts DEF QueueIsKnown, OneIsServed, Served
<1> QED
  BY <1>6, <1>7, <1>8 DEF IInv

LEMMA AcceptChecksKeeps == ASSUME IInv, AcceptChecks PROVE IInv'
<1>1. web \in Site /\ web' = [web EXCEPT !.thread = IF web.running THEN "accept" ELSE "ended"]
      /\ web.thread = "check"
  BY DEF IInv, Typed, AcceptChecks
<1>2. web' \in Site /\ web'.backlog = web.backlog /\ web'.thread \in {"accept", "ended"}
      /\ web'.running = web.running /\ web'.listening = web.listening
  BY <1>1 DEF Site
<1>3. UNCHANGED <<runtime, main, adapter, conn, page>> /\ Past' = Past
  BY DEF AcceptChecks, Past
<1>4. QueueIsKnown' /\ OneIsServed'
  BY <1>1, <1>2, <1>3, NotConcerned DEF IInv, Busy
<1>5. Stops'
  BY <1>1, <1>2, <1>3 DEF IInv, Stops
<1> QED
  BY <1>2, <1>3, <1>4, <1>5 DEF IInv, Typed, ShowsThePast, AdapterIsPast

LEMMA AcceptFailsKeeps == ASSUME IInv, AcceptFails PROVE IInv'
<1>1. web \in Site /\ web' = [web EXCEPT !.thread = "check"] /\ web.thread = "accept"
  BY DEF IInv, Typed, AcceptFails
<1>2. web' \in Site /\ web'.backlog = web.backlog /\ web'.thread = "check"
      /\ web'.running = web.running /\ web'.listening = web.listening
  BY <1>1 DEF Site
<1>3. UNCHANGED <<runtime, main, adapter, conn, page>> /\ Past' = Past
  BY DEF AcceptFails, Past
<1>4. QueueIsKnown' /\ OneIsServed'
  BY <1>1, <1>2, <1>3, NotConcerned DEF IInv, Busy
<1>5. Stops'
  BY <1>1, <1>2, <1>3 DEF IInv, Stops
<1> QED
  BY <1>2, <1>3, <1>4, <1>5 DEF IInv, Typed, ShowsThePast, AdapterIsPast

LEMMA AcceptKeeps == ASSUME IInv, Accept PROVE IInv'
<1> DEFINE k == Head(web.backlog)
           c == [conn[k] EXCEPT !.here = "read"]
<1>1. /\ web \in Site /\ web.thread = "accept" /\ web.backlog # <<>>
      /\ web.backlog \in Seq(Conns)
      /\ conn' = [conn EXCEPT ![k] = c]
      /\ web' = [web EXCEPT !.thread = "read", !.backlog = Tail(@)]
      /\ UNCHANGED <<runtime, main, adapter, page>>
  BY DEF IInv, Typed, Accept, Site
<1>2. /\ k = web.backlog[1] /\ k \in Conns /\ Len(web.backlog) \in Nat \ {0}
      /\ Tail(web.backlog) \in Seq(Conns) /\ Len(Tail(web.backlog)) = Len(web.backlog) - 1
      /\ \A i \in 1..Len(web.backlog) - 1 : Tail(web.backlog)[i] = web.backlog[i + 1]
  BY <1>1
<1>3. conn[k].here = "queued" /\ Carries(k, conn[k], Past) /\ conn[k] \in Socket
  BY <1>2 DEF IInv, QueueIsKnown, Typed, Carries
<1>4. Past' = Past
  BY <1>1 DEF Past
<1>5. c \in Socket /\ c.here = "read" /\ c.inbox = conn[k].inbox
  BY <1>3 DEF Socket
<1> HIDE DEF c
<1> HIDE DEF k
<1>6. Carries(k, c, Past')
  BY <1>3, <1>4, <1>5 DEF Carries, Doings
<1>7. /\ conn' \in [Conns -> Socket]
      /\ \A j \in Conns : Carries(j, conn'[j], Past')
      /\ \A j \in Conns : j # k => conn'[j] = conn[j]
      /\ conn'[k].here = "read"
  <2>1. Typed /\ Past \subseteq Past'
    BY <1>4 DEF IInv
  <2> QED
    BY <1>1, <1>2, <1>5, <1>6, <2>1, OneCarries
<1>8. /\ web' \in Site /\ web'.backlog = Tail(web.backlog) /\ web'.thread = "read"
      /\ web'.running = web.running /\ web'.listening = web.listening
  BY <1>1, <1>2 DEF Site
<1>9. QueueIsKnown'
  <2> DEFINE n == Len(web.backlog)
  <2>1. n \in Nat \ {0} /\ Len(web'.backlog) = n - 1
        /\ \A i \in 1..(n - 1) : web'.backlog[i] = web.backlog[i + 1]
    BY <1>2, <1>8
  <2>2. \A i \in 1..n : /\ conn[web.backlog[i]].here = "queued"
                        /\ \A j \in 1..n : web.backlog[j] = web.backlog[i] => j = i
                        /\ web.backlog[i] \in Conns
    BY <1>1 DEF IInv, QueueIsKnown
  <2>3. ASSUME NEW i \in 1..(n - 1)
        PROVE  /\ conn'[web'.backlog[i]].here = "queued"
               /\ \A j \in 1..(n - 1) : web'.backlog[j] = web'.backlog[i] => j = i
    <3>1. i + 1 \in 1..n /\ i + 1 # 1 /\ web'.backlog[i] = web.backlog[i + 1]
      BY <2>1
    <3>2. web.backlog[i + 1] # k
      BY <1>2, <2>1, <2>2, <3>1
    <3>3. conn'[web.backlog[i + 1]].here = "queued"
      BY <1>7, <2>2, <3>1, <3>2
    <3>4. ASSUME NEW j \in 1..(n - 1), web'.backlog[j] = web'.backlog[i] PROVE j = i
      <4>1. j + 1 \in 1..n /\ web.backlog[j + 1] = web.backlog[i + 1]
        BY <2>1, <3>1, <3>4
      <4>2. j + 1 = i + 1
        BY <2>2, <3>1, <4>1
      <4> QED
        BY <2>1, <4>2
    <3> QED
      BY <3>1, <3>3, <3>4
  <2>4. ASSUME NEW j \in Conns, conn'[j].here = "queued"
        PROVE  \E i \in 1..(n - 1) : web'.backlog[i] = j
    <3>1. j # k /\ conn[j].here = "queued"
      BY <1>2, <1>7, <2>4
    <3>2. PICK i \in 1..n : web.backlog[i] = j
      BY <3>1 DEF IInv, QueueIsKnown
    <3>3. i # 1
      BY <1>2, <3>1, <3>2
    <3>4. i - 1 \in 1..(n - 1) /\ web'.backlog[i - 1] = j
      BY <2>1, <3>2, <3>3
    <3> QED
      BY <3>4
  <2> HIDE DEF n
  <2> QED
    BY <2>1, <2>3, <2>4 DEF QueueIsKnown
<1>10. OneIsServed'
  <2>1. \A j \in Conns : ~Served(j, conn[j])
    BY <1>1 DEF IInv, OneIsServed, Served
  <2>2. \A j \in Conns : j # k => conn'[j].here # "read" /\ ~Served(j, conn'[j])
    BY <1>7, <2>1 DEF Served
  <2>3. Served(k, conn'[k])
    BY <1>7 DEF Served
  <2> QED
    BY <1>2, <1>7, <1>8, <2>2, <2>3 DEF OneIsServed
<1>11. Stops'
  BY <1>1, <1>2, <1>8 DEF IInv, Stops
<1>12. AdapterIsPast'
  BY <1>1, <1>4, <1>7, AdapterStays DEF IInv
<1> QED
  BY <1>1, <1>4, <1>7, <1>8, <1>9, <1>10, <1>11, <1>12 DEF IInv, Typed, ShowsThePast

\* The accept thread goes on with the connection it serves, or ends with it.
LEMMA ServedStep ==
    ASSUME IInv, UNCHANGED <<runtime, main, adapter, page>>,
           NEW k \in Conns, Served(k, conn[k]), NEW c, Carries(k, c, Past),
           conn' = [conn EXCEPT ![k] = c] \/ Put(k, c),
           c.here \notin {"queued", "read", "compare", "note", "answer"},
           web' = [web EXCEPT !.thread = IF Served(k, c) THEN "answer" ELSE "check"]
    PROVE  IInv'
<1>1. Past' = Past /\ web \in Site
  BY DEF Past, IInv, Typed
<1>2. /\ conn' \in [Conns -> Socket]
      /\ \A j \in Conns : Carries(j, conn'[j], Past')
      /\ \A j \in Conns : j # k => conn'[j] = conn[j]
      /\ conn'[k].here = c.here
  BY <1>1, OneCarries DEF IInv
<1>3. /\ web' \in Site /\ web'.backlog = web.backlog
      /\ web'.thread = (IF Served(k, c) THEN "answer" ELSE "check")
      /\ web'.running = web.running /\ web'.listening = web.listening
  BY <1>1 DEF Site
<1>4. OneIsServed'
  <2>1. \A i \in Conns : i # k => ~Served(i, conn[i])
    BY DEF IInv, OneIsServed
  <2>2. \A i \in Conns : i # k => ~Served(i, conn'[i]) /\ conn'[i].here # "read"
    BY <1>2, <2>1 DEF Served
  <2>3. Served(k, conn'[k]) <=> Served(k, c)
    BY <1>2 DEF Served
  <2> QED
    BY <1>2, <1>3, <2>2, <2>3 DEF OneIsServed
<1>5. QueueIsKnown'
  <2>1. conn[k].here # "queued"
    BY DEF Served
  <2>2. \A i \in Conns : conn'[i].here = "queued" <=> conn[i].here = "queued"
    BY <1>2, <2>1
  <2>3. \A i \in 1..Len(web.backlog) : web.backlog[i] \in Conns
    BY <1>1 DEF Site
  <2> QED
    BY <1>3, <2>2, <2>3 DEF IInv, QueueIsKnown
<1>6. Stops'
  <2>1. web.thread \in {"read", "answer"}
    BY DEF IInv, OneIsServed
  <2> QED
    BY <1>3, <2>1 DEF IInv, Stops
<1>7. AdapterIsPast'
  BY <1>1, <1>2, AdapterStays DEF IInv
<1> QED
  BY <1>1, <1>2, <1>3, <1>4, <1>5, <1>6, <1>7 DEF IInv, Typed, ShowsThePast

LEMMA ReadRequestKeeps == ASSUME IInv, NEW k \in Conns, ReadRequest(k) PROVE IInv'
<1>1. /\ conn[k].here = "read" /\ UNCHANGED <<runtime, main, adapter, page>>
      /\ conn[k] \in Socket /\ Carries(k, conn[k], Past) /\ Served(k, conn[k])
      /\ k[2] \in {"socket", "fetch", "post"}
  BY UseOfConns DEF ReadRequest, IInv, Typed, Served
<1>2. runtime \in Past /\ runtime \in Frames
  BY <1>1, PastFacts DEF IInv, Typed, Frames
<1>3. CASE k[2] = "fetch"
  <2> DEFINE c == [conn[k] EXCEPT !.here = "took", !.frame = runtime]
  <2>1. conn' = [conn EXCEPT ![k] = c] /\ web' = [web EXCEPT !.thread = "answer"]
    BY <1>3 DEF ReadRequest
  <2>2. c \in Socket /\ c.here = "took" /\ c.frame = runtime /\ c.inbox = conn[k].inbox
    BY <1>1, <1>2 DEF Socket
  <2> HIDE DEF c
  <2>3. Carries(k, c, Past) /\ Served(k, c)
    BY <1>1, <1>2, <1>3, <2>2 DEF Carries, Doings, Served
  <2> QED
    BY <1>1, <2>1, <2>2, <2>3, ServedStep
<1>4. CASE k[2] # "fetch"
  <2> DEFINE doing == IF k[2] = "post" THEN "work" ELSE "poll"
             c == [conn[k] EXCEPT !.here = doing]
  <2>1. conn' = [conn EXCEPT ![k] = c] /\ web' = [web EXCEPT !.thread = "check"]
    BY <1>4 DEF ReadRequest
  <2>2. c \in Socket /\ c.here = doing /\ c.inbox = conn[k].inbox
    BY <1>1 DEF Socket
  <2> HIDE DEF c
  <2>3. Carries(k, c, Past) /\ ~Served(k, c)
    BY <1>1, <1>4, <2>2 DEF Carries, Doings, Served
  <2> QED
    BY <1>1, <2>1, <2>2, <2>3, ServedStep
<1> QED
  BY <1>3, <1>4

LEMMA ReadNothingKeeps == ASSUME IInv, NEW k \in Conns, ReadNothing(k) PROVE IInv'
<1>1. /\ Served(k, conn[k]) /\ UNCHANGED <<runtime, main, adapter, page>>
      /\ conn' = [conn EXCEPT ![k] = Free] /\ web' = [web EXCEPT !.thread = "check"]
  BY DEF ReadNothing, Served
<1>2. Carries(k, Free, Past) /\ Free.here = "closed" /\ ~Served(k, Free)
  BY FreeCarries DEF Free, Served
<1> QED
  BY <1>1, <1>2, ServedStep

LEMMA SendSnapshotKeeps == ASSUME IInv, NEW k \in Conns, SendSnapshot(k) PROVE IInv'
<1> DEFINE box == IF conn[k].there THEN <<Seen(k, adapter.current)>> ELSE <<>>
           c == [conn[k] EXCEPT !.here = "closed", !.inbox = box]
<1>1. /\ Put(k, c) /\ conn[k].here = "answer" /\ web' = [web EXCEPT !.thread = "check"]
      /\ UNCHANGED <<runtime, main, adapter, page>> /\ Served(k, conn[k])
  BY DEF SendSnapshot, Served
<1>2. Carries(k, conn[k], Past) /\ conn[k] \in Socket /\ adapter.current \in Past
  BY <1>1 DEF IInv, Typed, Carries, AdapterIsPast
<1>3. box \in Seq(Frames) /\ (k[1] \in Watchers => box \in Seq(Past))
  <2>1. /\ Seen(k, adapter.current) \in Frames
        /\ k[1] \in Watchers => Seen(k, adapter.current) \in Past
    BY <1>2 DEF Seen, Past, Frames
  <2> QED
    BY <2>1, EmptyFacts, OneFacts
<1> HIDE DEF box
<1>4. c \in Socket /\ c.here = "closed" /\ c.inbox = box
  BY <1>2, <1>3 DEF Socket
<1> HIDE DEF c
<1>5. Carries(k, c, Past) /\ ~Served(k, c)
  BY <1>3, <1>4 DEF Carries, Doings, Served
<1> QED
  BY <1>1, <1>4, <1>5, ServedStep

\* A step of a detached thread or of a page on its connection k.
LEMMA StepOfOne ==
    ASSUME IInv, Change \/ UNCHANGED runtime, UNCHANGED <<main, web>>,
           adapter' \in Adapter, AdapterIsPast',
           NEW k \in Conns, NEW c, Carries(k, c, Past'),
           conn' = [conn EXCEPT ![k] = c] \/ Put(k, c),
           conn[k].here = c.here \/ (Apart(k, conn[k]) /\ Apart(k, c)),
           page' \in [Pages -> [open : BOOLEAN, view : Snapshots]],
           \A b \in Pages : page'[b].view \in Past'
    PROVE  IInv'
<1>1. /\ Past \subseteq Past' /\ runtime' \in Snapshots /\ runtime'.life = 0
  <2>1. Past \subseteq Past' /\ runtime' \in Snapshots
    BY PastFacts DEF IInv, Typed
  <2>2. runtime'.life = runtime.life
    BY DEF Change, IInv, Typed, Snapshots
  <2> QED
    BY <2>1, <2>2 DEF IInv, Typed
<1>2. /\ conn' \in [Conns -> Socket]
      /\ \A j \in Conns : Carries(j, conn'[j], Past')
      /\ \A j \in Conns : j # k => conn'[j] = conn[j]
      /\ conn'[k].here = c.here
  BY <1>1, OneCarries DEF IInv
<1>3. QueueIsKnown' /\ OneIsServed'
  <2>1. Apart(k, c) => Apart(k, conn'[k])
    BY <1>2 DEF Apart, Served
  <2> QED
    BY <1>2, <2>1, NotConcerned DEF IInv, Typed
<1> QED
  BY <1>1, <1>2, <1>3 DEF IInv, Typed, Stops, ShowsThePast

Reading == {"compare", "note", "answer"}

\* One that leaves the adapter's snapshot as it is.
LEMMA StepBeside ==
    ASSUME IInv, Change \/ UNCHANGED runtime, UNCHANGED <<main, web>>,
           adapter' \in Adapter, adapter'.current = adapter.current,
           NEW k \in Conns, NEW c, Carries(k, c, Past'),
           conn' = [conn EXCEPT ![k] = c] \/ Put(k, c),
           conn[k].here = c.here \/ (Apart(k, conn[k]) /\ Apart(k, c)),
           c.here \in Reading => conn[k].here \in Reading,
           page' \in [Pages -> [open : BOOLEAN, view : Snapshots]],
           \A b \in Pages : page'[b].view \in Past'
    PROVE  IInv'
<1>1. Past \subseteq Past'
  BY PastFacts DEF IInv, Typed
<1>2. /\ \A j \in Conns : j # k => conn'[j] = conn[j]
      /\ conn'[k].here = c.here
  BY <1>1, OneCarries DEF IInv
<1>3. AdapterIsPast'
  BY <1>1, <1>2, AdapterStays DEF IInv, Reading
<1> QED
  BY <1>3, StepOfOne

LEMMA PagesStay ==
    ASSUME IInv, Past \subseteq Past', UNCHANGED page
    PROVE  page' \in [Pages -> [open : BOOLEAN, view : Snapshots]]
           /\ \A b \in Pages : page'[b].view \in Past'
  BY DEF IInv, Typed, ShowsThePast

\* What a thread does between two changes of the runtime, the adapter's snapshot
\* staying as it is.
LEMMA QuietStep ==
    ASSUME IInv, UNCHANGED <<runtime, main, web, page>>,
           adapter' \in Adapter, adapter'.current = adapter.current,
           NEW k \in Conns, NEW c, Carries(k, c, Past),
           conn' = [conn EXCEPT ![k] = c] \/ Put(k, c),
           conn[k].here = c.here \/ (Apart(k, conn[k]) /\ Apart(k, c)),
           c.here \in Reading => conn[k].here \in Reading
    PROVE  IInv'
<1>1. Past' = Past /\ Carries(k, c, Past')
  BY DEF Past
<1>2. /\ page' \in [Pages -> [open : BOOLEAN, view : Snapshots]]
      /\ \A b \in Pages : page'[b].view \in Past'
  BY <1>1, PagesStay
<1> QED
  BY <1>1, <1>2, StepBeside

LEMMA WorkKeeps == ASSUME IInv, NEW k \in Conns, Work(k) PROVE IInv'
<1> DEFINE c == [conn[k] EXCEPT !.here = "result"]
<1>1. /\ conn[k].here = "work" /\ (Change \/ UNCHANGED runtime)
      /\ conn' = [conn EXCEPT ![k] = c] /\ UNCHANGED <<main, web, adapter, page>>
  BY DEF Work
<1>2. conn[k] \in Socket /\ Carries(k, conn[k], Past) /\ k[2] \in {"socket", "fetch", "post"}
  BY UseOfConns DEF IInv, Typed
<1>3. k[2] = "post"
  BY <1>1, <1>2 DEF Carries, Doings
<1>4. c \in Socket /\ c.here = "result"
  BY <1>2 DEF Socket
<1> HIDE DEF c
<1>5. Carries(k, c, Past')
  BY <1>3, <1>4 DEF Carries, Doings
<1>6. Past \subseteq Past' /\ adapter' \in Adapter /\ adapter'.current = adapter.current
  BY <1>1, PastFacts DEF IInv, Typed
<1>7. /\ page' \in [Pages -> [open : BOOLEAN, view : Snapshots]]
      /\ \A b \in Pages : page'[b].view \in Past'
  BY <1>1, <1>6, PagesStay
<1>8. Apart(k, conn[k]) /\ Apart(k, c) /\ c.here \notin Reading
  BY <1>1, <1>4 DEF Apart, Served, Reading
<1> QED
  BY <1>1, <1>5, <1>6, <1>7, <1>8, StepBeside

LEMMA ReplyKeeps == ASSUME IInv, NEW k \in Conns, Reply(k) PROVE IInv'
<1> DEFINE box == IF conn[k].there THEN <<NoSnapshot>> ELSE <<>>
           c == [conn[k] EXCEPT !.here = "closed", !.inbox = box]
<1>1. /\ conn[k].here = "result" /\ Put(k, c) /\ UNCHANGED <<runtime, main, web, adapter, page>>
  BY DEF Reply
<1>2. conn[k] \in Socket /\ Carries(k, conn[k], Past) /\ k[2] \in {"socket", "fetch", "post"}
  BY UseOfConns DEF IInv, Typed
<1>3. k[2] = "post"
  BY <1>1, <1>2 DEF Carries, Doings
<1>4. box \in Seq(Frames)
  BY EmptyFacts, OneFacts DEF Frames
<1> HIDE DEF box
<1>5. c \in Socket /\ c.here = "closed"
  BY <1>2, <1>4 DEF Socket
<1> HIDE DEF c
<1>6. Carries(k, c, Past)
  BY <1>3, <1>5 DEF Carries, Doings
<1>7. Apart(k, conn[k]) /\ Apart(k, c) /\ c.here \notin Reading
  BY <1>1, <1>5 DEF Apart, Served, Reading
<1>8. adapter' \in Adapter /\ adapter'.current = adapter.current
  BY <1>1 DEF IInv, Typed
<1> QED
  BY <1>1, <1>6, <1>7, <1>8, QuietStep

LEMMA PollKeeps == ASSUME IInv, NEW k \in Conns, Poll(k) PROVE IInv'
<1> DEFINE c == [conn[k] EXCEPT !.here = "took", !.frame = runtime]
<1>1. /\ conn[k].here = "poll" /\ conn' = [conn EXCEPT ![k] = c]
      /\ UNCHANGED <<runtime, main, web, adapter, page>>
  BY DEF Poll
<1>2. conn[k] \in Socket /\ Carries(k, conn[k], Past) /\ k[2] \in {"socket", "fetch", "post"}
  BY UseOfConns DEF IInv, Typed
<1>3. runtime \in Past /\ runtime \in Frames
  BY PastFacts, <1>1 DEF IInv, Typed, Frames
<1>4. c \in Socket /\ c.here = "took" /\ c.frame = runtime /\ c.inbox = conn[k].inbox
  BY <1>2, <1>3 DEF Socket
<1> HIDE DEF c
<1>5. k[2] = "socket"
  BY <1>1, <1>2 DEF Carries, Doings
<1>6. Carries(k, c, Past)
  BY <1>2, <1>3, <1>4, <1>5 DEF Carries, Doings
<1>7. Apart(k, conn[k]) /\ Apart(k, c) /\ c.here \notin Reading
  BY <1>1, <1>4, <1>5 DEF Apart, Served, Reading
<1>8. adapter' \in Adapter /\ adapter'.current = adapter.current
  BY <1>1 DEF IInv, Typed
<1> QED
  BY <1>1, <1>6, <1>7, <1>8, QuietStep

LEMMA WriteKeeps == ASSUME IInv, NEW k \in Conns, Write(k) PROVE IInv'
<1> DEFINE doing == IF k[2] = "fetch" THEN "answer" ELSE "compare"
           c == [conn[k] EXCEPT !.here = doing, !.frame = NoSnapshot]
<1>1. /\ conn[k].here = "took" /\ conn' = [conn EXCEPT ![k] = c]
      /\ adapter' = [adapter EXCEPT !.current = conn[k].frame]
      /\ UNCHANGED <<runtime, main, web, page>> /\ Past' = Past
  BY DEF Write, Past
<1>2. /\ conn[k] \in Socket /\ Carries(k, conn[k], Past) /\ k[2] \in {"socket", "fetch", "post"}
      /\ adapter \in Adapter /\ conn[k].frame \in Past
  BY <1>1, UseOfConns DEF IInv, Typed, Carries
<1>3. c \in Socket /\ c.here = doing /\ c.inbox = conn[k].inbox
  BY <1>2 DEF Socket, Frames
<1> HIDE DEF c
<1>4. k[2] # "post"
  BY <1>1, <1>2 DEF Carries, Doings
<1>5. Carries(k, c, Past')
  BY <1>1, <1>2, <1>3, <1>4 DEF Carries, Doings
<1>6. /\ conn' \in [Conns -> Socket]
      /\ \A j \in Conns : Carries(j, conn'[j], Past')
      /\ \A j \in Conns : j # k => conn'[j] = conn[j]
      /\ conn'[k].here = doing
  BY <1>1, <1>3, <1>5, OneCarries DEF IInv
<1>7. adapter' \in Adapter /\ adapter'.current = conn[k].frame
  BY <1>1, <1>2 DEF Adapter, Frames, Past
<1>8. AdapterIsPast'
  BY <1>1, <1>2, <1>7 DEF AdapterIsPast
<1>9. \A i \in Conns : /\ Served(i, conn'[i]) <=> Served(i, conn[i])
                       /\ conn'[i].here = "queued" <=> conn[i].here = "queued"
                       /\ conn'[i].here = "read" <=> conn[i].here = "read"
  <2>1. Served(k, conn'[k]) <=> Served(k, conn[k])
    BY <1>1, <1>6 DEF Served
  <2> QED
    BY <1>1, <1>6, <2>1
<1>10. QueueIsKnown' /\ OneIsServed'
  <2>1. QueueIsKnown'
    <3>1. \A i \in 1..Len(web.backlog) : web.backlog[i] \in Conns
      BY DEF IInv, Typed, Site
    <3> QED
      BY <1>1, <1>9, <3>1 DEF IInv, QueueIsKnown
  <2>2. OneIsServed'
    BY <1>1, <1>9 DEF IInv, OneIsServed
  <2> QED
    BY <2>1, <2>2
<1> QED
  BY <1>1, <1>6, <1>7, <1>8, <1>10 DEF IInv, Typed, ShowsThePast, Stops

LEMMA CompareKeeps == ASSUME IInv, NEW k \in Conns, Compare(k) PROVE IInv'
<1> DEFINE frame == IF EventsBetween(adapter.previous, adapter.current) = <<>>
                    THEN NoSnapshot ELSE adapter.current
           c == [conn[k] EXCEPT !.here = "note", !.frame = frame]
<1>1. /\ conn[k].here = "compare" /\ conn' = [conn EXCEPT ![k] = c]
      /\ UNCHANGED <<runtime, main, web, adapter, page>>
  BY DEF Compare
<1>2. conn[k] \in Socket /\ Carries(k, conn[k], Past) /\ k[2] \in {"socket", "fetch", "post"}
  BY UseOfConns DEF IInv, Typed
<1>3. k[2] = "socket"
  BY <1>1, <1>2 DEF Carries, Doings
<1>4. frame \in Past \cup {NoSnapshot} /\ frame \in Frames
  <2>1. adapter.current \in Past
    BY <1>1 DEF IInv, AdapterIsPast
  <2> QED
    BY <2>1 DEF Past, Frames
<1> HIDE DEF frame
<1>5. c \in Socket /\ c.here = "note" /\ c.inbox = conn[k].inbox /\ c.frame = frame
  BY <1>2, <1>4 DEF Socket
<1> HIDE DEF c
<1>6. Carries(k, c, Past)
  BY <1>2, <1>3, <1>4, <1>5 DEF Carries, Doings
<1>7. /\ Apart(k, conn[k]) /\ Apart(k, c) /\ conn[k].here \in Reading
      /\ adapter' \in Adapter /\ adapter'.current = adapter.current
  BY <1>1, <1>5 DEF Apart, Served, Reading, IInv, Typed
<1> QED
  BY <1>1, <1>6, <1>7, QuietStep

LEMMA NoteKeeps == ASSUME IInv, NEW k \in Conns, Note(k) PROVE IInv'
<1> DEFINE doing == IF conn[k].frame = NoSnapshot THEN "poll" ELSE "send"
           c == [conn[k] EXCEPT !.here = doing]
<1>1. /\ conn[k].here = "note" /\ conn' = [conn EXCEPT ![k] = c]
      /\ adapter' = [adapter EXCEPT !.previous = adapter.current]
      /\ UNCHANGED <<runtime, main, web, page>>
  BY DEF Note
<1>2. /\ conn[k] \in Socket /\ Carries(k, conn[k], Past) /\ k[2] \in {"socket", "fetch", "post"}
      /\ adapter \in Adapter
  BY UseOfConns DEF IInv, Typed
<1>3. k[2] = "socket"
  BY <1>1, <1>2 DEF Carries, Doings
<1>4. c \in Socket /\ c.here = doing /\ c.inbox = conn[k].inbox /\ c.frame = conn[k].frame
  BY <1>2 DEF Socket
<1> HIDE DEF c
<1>5. Carries(k, c, Past)
  BY <1>1, <1>2, <1>3, <1>4 DEF Carries, Doings
<1>6. Apart(k, conn[k]) /\ Apart(k, c) /\ conn[k].here \in Reading
  BY <1>1, <1>4 DEF Apart, Served, Reading
<1>7. adapter' \in Adapter /\ adapter'.current = adapter.current
  BY <1>1, <1>2 DEF Adapter
<1> QED
  BY <1>1, <1>5, <1>6, <1>7, QuietStep

LEMMA SendKeeps == ASSUME IInv, NEW k \in Conns, Send(k) PROVE IInv'
<1>0. /\ conn[k] \in Socket /\ Carries(k, conn[k], Past)
      /\ conn[k].here = "send" /\ k[2] \in {"socket", "fetch", "post"}
  BY UseOfConns DEF IInv, Typed, Send
<1>1. k[2] = "socket"
  BY <1>0 DEF Carries, Doings
<1>2. CASE EndsAs("killed")
  BY <1>2, EndsKeeps
<1>3. CASE ~EndsAs("killed")
  <2>1. PICK c : /\ conn' = [conn EXCEPT ![k] = c]
                 /\ \/ c = [conn[k] EXCEPT !.here = "poll", !.inbox = <<Seen(k, conn[k].frame)>>,
                                            !.frame = NoSnapshot]
                    \/ c = [conn[k] EXCEPT !.here = "poll", !.frame = NoSnapshot]
                    \/ c = Free
    BY <1>3 DEF Send
  <2>2. UNCHANGED <<runtime, main, web, adapter, page>>
    BY <1>3 DEF Send
  <2>3. /\ k[1] \in Watchers => <<Seen(k, conn[k].frame)>> \in Seq(Past)
        /\ <<Seen(k, conn[k].frame)>> \in Seq(Frames)
    <3>1. /\ Seen(k, conn[k].frame) \in Frames
          /\ k[1] \in Watchers => Seen(k, conn[k].frame) \in Past
      BY <1>0 DEF Carries, Past, Frames, Seen
    <3> QED
      BY <3>1, OneFacts
  <2>4. CASE c = Free
    <3>1. Carries(k, c, Past) /\ c.here = "closed"
      BY <2>4, FreeCarries DEF Free
    <3>2. adapter' \in Adapter /\ adapter'.current = adapter.current
      BY <2>2 DEF IInv, Typed
    <3>3. Apart(k, conn[k]) /\ Apart(k, c) /\ c.here \notin Reading
      BY <1>0, <3>1 DEF Apart, Served, Reading
    <3> QED
      BY <2>1, <2>2, <3>1, <3>2, <3>3, QuietStep
  <2>5. CASE c # Free
    <3>1. /\ c \in Socket /\ c.here = "poll"
          /\ c.inbox = conn[k].inbox \/ c.inbox = <<Seen(k, conn[k].frame)>>
      BY <1>0, <2>1, <2>3, <2>5 DEF Socket, Frames
    <3>2. Carries(k, c, Past)
      BY <1>0, <1>1, <2>3, <3>1 DEF Carries, Doings
    <3>3. adapter' \in Adapter /\ adapter'.current = adapter.current
      BY <2>2 DEF IInv, Typed
    <3>4. Apart(k, conn[k]) /\ Apart(k, c) /\ c.here \notin Reading
      BY <1>0, <3>1 DEF Apart, Served, Reading
    <3> QED
      BY <2>1, <2>2, <3>2, <3>3, <3>4, QuietStep
  <2> QED
    BY <2>4, <2>5
<1> QED
  BY <1>2, <1>3

-----------------------------------------------------------------------------
LEMMA LeaveKeeps == ASSUME IInv, Leave PROVE IInv'
<1>1. /\ main = "up" /\ main' = "close" /\ web \in Site /\ web' = [web EXCEPT !.running = FALSE]
      /\ UNCHANGED <<runtime, adapter, conn, page>> /\ Past' = Past
  BY DEF IInv, Typed, Leave, Past
<1>2. /\ web' \in Site /\ web'.backlog = web.backlog /\ web'.thread = web.thread
      /\ web'.running = FALSE /\ web'.listening = web.listening
  BY <1>1 DEF Site
<1>3. QueueIsKnown' /\ OneIsServed'
  BY <1>1, <1>2, NotConcerned DEF IInv
<1>4. Stops'
  BY <1>1, <1>2 DEF IInv, Stops
<1> QED
  BY <1>1, <1>2, <1>3, <1>4 DEF IInv, Typed, ShowsThePast, AdapterIsPast

LEMMA TickKeeps == ASSUME IInv, Tick PROVE IInv'
<1>1. Change /\ UNCHANGED <<main, web, adapter, conn, page>>
  BY DEF Tick
<1>2. Past \subseteq Past' /\ runtime' \in Snapshots
  BY <1>1, PastFacts DEF IInv, Typed
<1>3. runtime'.life = 0
  BY <1>1 DEF Change, IInv, Typed, Snapshots
<1>4. conn' \in [Conns -> Socket] /\ \A k \in Conns : Carries(k, conn'[k], Past')
  BY <1>1, <1>2, AllCarryStill DEF IInv
<1>5. QueueIsKnown' /\ OneIsServed'
  BY <1>1, NotConcerned DEF IInv, Typed
<1>6. AdapterIsPast'
  BY <1>1, <1>2, AdapterStays DEF IInv
<1> QED
  BY <1>1, <1>2, <1>3, <1>4, <1>5, <1>6, PagesStay DEF IInv, Typed, ShowsThePast, Stops

LEMMA CloseListenerKeeps == ASSUME IInv, CloseListener PROVE IInv'
<1>1. /\ main = "close" /\ main' = "join" /\ web \in Site
      /\ web' = [web EXCEPT !.listening = FALSE, !.backlog = <<>>]
      /\ conn' = [k \in Conns |-> IF conn[k].here = "queued" THEN Free ELSE conn[k]]
      /\ UNCHANGED <<runtime, adapter, page>> /\ Past' = Past
  BY DEF IInv, Typed, CloseListener, Past
<1>2. /\ web' \in Site /\ web'.backlog = <<>> /\ web'.thread = web.thread
      /\ web'.running = web.running /\ web'.listening = FALSE
  BY <1>1, EmptyFacts DEF Site
<1>3. \A k \in Conns : conn'[k] = Free \/ (conn'[k] = conn[k] /\ conn[k].here # "queued")
  BY <1>1
<1>4. \A k \in Conns : Carries(k, conn'[k], Past')
  BY <1>1, <1>3, FreeCarries DEF IInv, Typed
<1>5. conn' \in [Conns -> Socket]
  BY <1>1, <1>4 DEF Carries
<1>6. \A k \in Conns : /\ conn'[k].here # "queued"
                       /\ Served(k, conn'[k]) <=> Served(k, conn[k])
                       /\ \A place \in {"read", "compare", "note", "answer"} :
                             conn'[k].here = place <=> conn[k].here = place
  <2> SUFFICES ASSUME NEW k \in Conns
               PROVE  /\ conn'[k].here # "queued"
                      /\ Served(k, conn'[k]) <=> Served(k, conn[k])
                      /\ \A place \in {"read", "compare", "note", "answer"} :
                            conn'[k].here = place <=> conn[k].here = place
    OBVIOUS
  <2>1. CASE conn[k].here = "queued"
    BY <1>1, <2>1 DEF Free, Served
  <2>2. CASE conn[k].here # "queued"
    BY <1>1, <2>2
  <2> QED
    BY <2>1, <2>2
<1>7. QueueIsKnown'
  BY <1>2, <1>6, EmptyFacts DEF QueueIsKnown
<1>8. OneIsServed'
  BY <1>2, <1>6 DEF IInv, OneIsServed
<1>9. Stops'
  BY <1>1, <1>2 DEF IInv, Stops
<1>10. AdapterIsPast'
  BY <1>1, <1>6, AdapterStays DEF IInv
<1> QED
  BY <1>1, <1>2, <1>4, <1>5, <1>7, <1>8, <1>9, <1>10 DEF IInv, Typed, ShowsThePast

LEMMA AskKeeps == ASSUME IInv, NEW k \in Conns, Ask(k) PROVE IInv'
<1> DEFINE said == IF k[1] \in Watchers THEN "reads" ELSE "nothing"
           c == [conn[k] EXCEPT !.there = TRUE, !.here = "queued", !.said = said]
           n == Len(web.backlog)
<1>1. /\ web.listening /\ conn[k] = Free /\ web \in Site /\ web.backlog \in Seq(Conns)
      /\ conn' = [conn EXCEPT ![k] = c]
      /\ web' = [web EXCEPT !.backlog = Append(@, k)]
      /\ UNCHANGED <<runtime, main, adapter, page>> /\ Past' = Past
  BY DEF IInv, Typed, Ask, Past, Site
<1>2. c \in Socket /\ c.here = "queued" /\ c.inbox = <<>>
  <2>1. conn[k] \in Socket
    BY DEF IInv, Typed
  <2>2. conn[k].inbox = <<>>
    BY <1>1 DEF Free
  <2> QED
    BY <2>1, <2>2 DEF Socket
<1> HIDE DEF c
<1>3. Carries(k, c, Past')
  BY <1>2, EmptyFacts DEF Carries, Doings
<1>4. /\ conn' \in [Conns -> Socket]
      /\ \A j \in Conns : Carries(j, conn'[j], Past')
      /\ \A j \in Conns : j # k => conn'[j] = conn[j]
      /\ conn'[k].here = "queued"
  BY <1>1, <1>2, <1>3, OneCarries DEF IInv
<1>5. /\ Append(web.backlog, k) \in Seq(Conns) /\ n \in Nat /\ Len(Append(web.backlog, k)) = n + 1
      /\ Append(web.backlog, k)[n + 1] = k
      /\ \A i \in 1..n : Append(web.backlog, k)[i] = web.backlog[i]
  BY <1>1
<1>6. /\ web' \in Site /\ web'.backlog = Append(web.backlog, k) /\ web'.thread = web.thread
      /\ web'.running = web.running /\ web'.listening = web.listening
  BY <1>1, <1>5 DEF Site
<1>7. conn[k].here = "closed"
  BY <1>1 DEF Free
<1>8. OneIsServed' /\ AdapterIsPast'
  <2>1. \A j \in Conns : /\ Served(j, conn'[j]) <=> Served(j, conn[j])
                         /\ \A place \in {"read", "compare", "note", "answer"} :
                               conn'[j].here = place <=> conn[j].here = place
    BY <1>4, <1>7 DEF Served
  <2>2. OneIsServed'
    BY <1>6, <2>1 DEF IInv, OneIsServed
  <2>3. AdapterIsPast'
    BY <1>1, <2>1, AdapterStays DEF IInv
  <2> QED
    BY <2>2, <2>3
<1>9. QueueIsKnown'
  <2>1. \A i \in 1..n : /\ conn[web.backlog[i]].here = "queued" /\ web.backlog[i] \in Conns
                        /\ \A j \in 1..n : web.backlog[j] = web.backlog[i] => j = i
    BY <1>1 DEF IInv, QueueIsKnown
  <2>2. \A i \in 1..n : web.backlog[i] # k
    BY <1>7, <2>1
  <2> HIDE DEF n
  <2>3. /\ Len(web'.backlog) = n + 1 /\ web'.backlog[n + 1] = k
        /\ \A i \in 1..n : web'.backlog[i] = web.backlog[i]
        /\ \A i \in 1..(n + 1) : i \in 1..n \/ i = n + 1
        /\ 1..n \subseteq 1..(n + 1) /\ n + 1 \in 1..(n + 1)
    BY <1>5, <1>6
  <2>4. ASSUME NEW i \in 1..(n + 1)
        PROVE  /\ conn'[web'.backlog[i]].here = "queued"
               /\ \A j \in 1..(n + 1) : web'.backlog[j] = web'.backlog[i] => j = i
    <3>1. CASE i = n + 1
      BY <1>4, <2>2, <2>3, <3>1
    <3>2. CASE i \in 1..n
      BY <1>4, <2>1, <2>2, <2>3, <3>2
    <3> QED
      BY <2>3, <3>1, <3>2
  <2>5. ASSUME NEW j \in Conns, conn'[j].here = "queued"
        PROVE  \E i \in 1..(n + 1) : web'.backlog[i] = j
    <3>1. CASE j = k
      BY <2>3, <3>1
    <3>2. CASE j # k
      <4>1. PICK i \in 1..n : web.backlog[i] = j
        BY <1>4, <2>5, <3>2 DEF IInv, QueueIsKnown, n
      <4> QED
        BY <2>3, <4>1
    <3> QED
      BY <3>1, <3>2
  <2> QED
    BY <2>3, <2>4, <2>5 DEF QueueIsKnown
<1>10. Stops'
  BY <1>1, <1>6 DEF IInv, Stops
<1> QED
  BY <1>1, <1>4, <1>6, <1>8, <1>9, <1>10 DEF IInv, Typed, ShowsThePast

LEMMA OpenPageKeeps == ASSUME IInv, NEW b \in Pages, OpenPage(b) PROVE IInv'
<1>1. /\ page' = [page EXCEPT ![b] = [Closed EXCEPT !.open = TRUE]]
      /\ UNCHANGED <<runtime, main, web, adapter, conn>> /\ Past' = Past
  BY DEF OpenPage, Past
<1>2. /\ [Closed EXCEPT !.open = TRUE] \in [open : BOOLEAN, view : Snapshots]
      /\ [Closed EXCEPT !.open = TRUE].view \in Past
  BY ClosedIsPast DEF IInv
<1> HIDE DEF Closed
<1>3. /\ page' \in [Pages -> [open : BOOLEAN, view : Snapshots]]
      /\ \A a \in Pages : page'[a].view \in Past'
  BY <1>1, <1>2 DEF IInv, Typed, ShowsThePast
<1> QED
  BY <1>1, <1>3 DEF IInv, Typed, ShowsThePast, Stops, QueueIsKnown, OneIsServed, Served,
                    AdapterIsPast

\* A frame's domains, where it has them, are of the past as the picture's are.
LEMMA FrameIsPast ==
    ASSUME runtime \in Snapshots, NEW old \in Past, NEW new \in Past, NEW shown,
           shown \in [Domains -> Nat],
           \A d \in Domains : shown[d] \in {old.shown[d], new.shown[d]}
    PROVE  [old EXCEPT !.shown = shown] \in Past
<1>0. MaxShown \in Nat
  BY EventsAssumption
<1>1. /\ old \in Snapshots /\ new \in Snapshots /\ old.life = runtime.life
      /\ \A d \in Domains : old.shown[d] <= runtime.shown[d] /\ new.shown[d] <= runtime.shown[d]
  BY DEF Past
<1>2. shown \in [Domains -> 0..MaxShown] /\ \A d \in Domains : shown[d] <= runtime.shown[d]
  BY <1>0, <1>1 DEF Snapshots
<1>3. /\ [old EXCEPT !.shown = shown] \in Snapshots
      /\ [old EXCEPT !.shown = shown].life = old.life
      /\ [old EXCEPT !.shown = shown].shown = shown
  BY <1>1, <1>2 DEF Snapshots
<1> QED
  BY <1>1, <1>2, <1>3 DEF Past

LEMMA ReadFrameKeeps == ASSUME IInv, NEW b \in Pages, ReadFrame(b) PROVE IInv'
<1> DEFINE k == <<b, "socket">>
           c == [conn[k] EXCEPT !.inbox = Tail(conn[k].inbox)]
           shown == [d \in Domains |-> IF b \in Watchers /\ d \in Framed
                                      THEN Head(conn[k].inbox).shown[d] ELSE page[b].view.shown[d]]
           view == [page[b].view EXCEPT !.shown = shown]
<1>1. /\ conn[k].inbox # <<>> /\ conn' = [conn EXCEPT ![k] = c]
      /\ page' = [page EXCEPT ![b] = [page[b] EXCEPT !.view = view]]
      /\ UNCHANGED <<runtime, main, web, adapter>> /\ Past' = Past
  <2>1. /\ conn[k].inbox # <<>>
        /\ conn' = [conn EXCEPT ![k].inbox = Tail(@)]
        /\ UNCHANGED <<runtime, main, web, adapter>>
    BY DEF ReadFrame
  <2>2. page' = [page EXCEPT ![b].view.shown =
            [d \in Domains |-> IF b \in Watchers /\ d \in Framed
                              THEN Head(conn[k].inbox).shown[d] ELSE @[d]]]
    BY DEF ReadFrame
  <2> QED
    BY <2>1, <2>2 DEF Past
<1>2. k \in Conns /\ k[2] = "socket" /\ k[1] = b
  BY UseOfConns
<1>3. /\ conn[k] \in Socket /\ Carries(k, conn[k], Past) /\ conn[k].inbox \in Seq(Frames)
      /\ runtime \in Snapshots /\ page[b] \in [open : BOOLEAN, view : Snapshots]
      /\ page[b].view \in Past
  BY <1>2 DEF IInv, Typed, Carries, ShowsThePast, Socket
<1>4. /\ Tail(conn[k].inbox) \in Seq(Frames)
      /\ b \in Watchers => Head(conn[k].inbox) \in Past /\ Tail(conn[k].inbox) \in Seq(Past)
  <2>1. Tail(conn[k].inbox) \in Seq(Frames)
    BY <1>1, <1>3
  <2>2. ASSUME b \in Watchers
        PROVE  Head(conn[k].inbox) \in Past /\ Tail(conn[k].inbox) \in Seq(Past)
    <3>1. conn[k].inbox \in Seq(Past) /\ conn[k].inbox # <<>>
      BY <1>1, <1>2, <1>3, <2>2 DEF Carries
    <3> QED
      BY <3>1
  <2> QED
    BY <2>1, <2>2
<1>6. /\ c \in Socket /\ c.inbox = Tail(conn[k].inbox)
      /\ c.here = conn[k].here /\ c.frame = conn[k].frame
  BY <1>3, <1>4 DEF Socket
<1> HIDE DEF c
<1>7. Carries(k, c, Past')
  BY <1>1, <1>2, <1>3, <1>4, <1>6 DEF Carries
<1>8. view \in Past
  <2> DEFINE new == IF b \in Watchers THEN Head(conn[k].inbox) ELSE page[b].view
  <2>1. MaxShown \in Nat
    BY EventsAssumption
  <2>2. /\ new \in Past /\ new.shown \in [Domains -> 0..MaxShown]
        /\ page[b].view.shown \in [Domains -> 0..MaxShown]
    BY <1>3, <1>4 DEF Past, Snapshots
  <2>3. \A d \in Domains : shown[d] \in {page[b].view.shown[d], new.shown[d]}
    OBVIOUS
  <2> HIDE DEF new
  <2>4. shown \in [Domains -> Nat]
    <3>1. \A d \in Domains : new.shown[d] \in Nat /\ page[b].view.shown[d] \in Nat
      BY <2>1, <2>2
    <3>2. \A d \in Domains : shown[d] \in Nat
      BY <2>3, <3>1
    <3> HIDE DEF shown
    <3>3. shown = [d \in Domains |-> shown[d]]
      BY DEF shown
    <3> QED
      BY <3>2, <3>3
  <2> HIDE DEF shown
  <2> QED
    BY <1>3, <2>2, <2>3, <2>4, FrameIsPast
<1> HIDE DEF view
<1>9. /\ [page[b] EXCEPT !.view = view] \in [open : BOOLEAN, view : Snapshots]
      /\ [page[b] EXCEPT !.view = view].view = view
  BY <1>3, <1>8 DEF Past
<1>10. /\ page' \in [Pages -> [open : BOOLEAN, view : Snapshots]]
       /\ \A a \in Pages : page'[a].view \in Past'
  BY <1>1, <1>8, <1>9 DEF IInv, Typed, ShowsThePast
<1> HIDE DEF k
<1>11. /\ adapter' \in Adapter /\ adapter'.current = adapter.current
       /\ (Change \/ UNCHANGED runtime) /\ UNCHANGED <<main, web>>
  BY <1>1 DEF IInv, Typed
<1> QED
  BY <1>1, <1>2, <1>6, <1>7, <1>10, <1>11, StepBeside

LEMMA ReadAnswerKeeps == ASSUME IInv, NEW k \in Conns, ReadAnswer(k) PROVE IInv'
<1>1. /\ k[2] # "socket" /\ conn[k].here = "closed" /\ conn' = [conn EXCEPT ![k] = Free]
      /\ UNCHANGED <<runtime, main, web, adapter>> /\ Past' = Past
  BY DEF ReadAnswer, Past
<1>2. \/ k[1] \in Watchers /\ k[2] = "fetch" /\ conn[k].inbox # <<>>
         /\ page' = [page EXCEPT ![k[1]] = [page[k[1]] EXCEPT !.view = Head(conn[k].inbox)]]
      \/ UNCHANGED page
  BY DEF ReadAnswer
<1>3. k[1] \in Pages
  BY UseOfConns
<1>4. /\ page' \in [Pages -> [open : BOOLEAN, view : Snapshots]]
      /\ \A b \in Pages : page'[b].view \in Past'
  <2>1. CASE UNCHANGED page
    BY <1>1, <2>1, PagesStay
  <2>2. CASE ~UNCHANGED page
    <3>1. conn[k].inbox \in Seq(Past) /\ conn[k].inbox # <<>>
      BY <1>2, <2>2 DEF IInv, Typed, Carries
    <3>2. Head(conn[k].inbox) \in Past
      BY <3>1
    <3>3. /\ [page[k[1]] EXCEPT !.view = Head(conn[k].inbox)] \in [open : BOOLEAN, view : Snapshots]
          /\ [page[k[1]] EXCEPT !.view = Head(conn[k].inbox)].view = Head(conn[k].inbox)
      <4>1. page[k[1]] \in [open : BOOLEAN, view : Snapshots] /\ Head(conn[k].inbox) \in Snapshots
        BY <1>3, <3>2 DEF IInv, Typed, Past
      <4> QED
        BY <4>1
    <3> QED
      BY <1>1, <1>2, <1>3, <2>2, <3>2, <3>3 DEF IInv, Typed, ShowsThePast
  <2> QED
    BY <2>1, <2>2
<1>5. Carries(k, Free, Past') /\ Free.here = "closed"
  BY FreeCarries DEF Free
<1>6. /\ adapter' \in Adapter /\ adapter'.current = adapter.current
      /\ (Change \/ UNCHANGED runtime) /\ UNCHANGED <<main, web>> /\ Free.here \notin Reading
  BY <1>1, <1>5 DEF IInv, Typed, Reading
<1> QED
  BY <1>1, <1>4, <1>5, <1>6, StepBeside

\* What a page says or reads leaves the server's end as it is.
LEMMA SaysKeeps ==
    ASSUME IInv, NEW k \in Conns, Speak(k) \/ TakeAnswer(k)
    PROVE  IInv'
<1>1. PICK said \in {"request", "reads"} : conn' = [conn EXCEPT ![k] = [conn[k] EXCEPT !.said = said]]
  BY DEF Speak, TakeAnswer
<1> DEFINE c == [conn[k] EXCEPT !.said = said]
<1>2. UNCHANGED <<runtime, main, web, adapter, page>>
  BY DEF Speak, TakeAnswer
<1>3. conn[k] \in Socket /\ Carries(k, conn[k], Past)
  BY DEF IInv, Typed
<1>4. /\ c \in Socket /\ c.here = conn[k].here /\ c.frame = conn[k].frame
      /\ c.inbox = conn[k].inbox
  BY <1>3 DEF Socket
<1>5. conn' = [conn EXCEPT ![k] = c]
  BY <1>1
<1> HIDE DEF c
<1>6. Carries(k, c, Past)
  BY <1>3, <1>4 DEF Carries
<1>7. adapter' \in Adapter /\ adapter'.current = adapter.current
  BY <1>2 DEF IInv, Typed
<1> QED
  BY <1>2, <1>4, <1>5, <1>6, <1>7, QuietStep

LEMMA PageLeavesKeeps == ASSUME IInv, NEW b \in Pages, PageLeaves(b) PROVE IInv'
<1>1. /\ page' = [page EXCEPT ![b] = Closed]
      /\ conn' = [k \in Conns |->
            IF k[1] # b THEN conn[k]
            ELSE IF conn[k].here = "closed" THEN Free
            ELSE [conn[k] EXCEPT !.there = FALSE, !.inbox = <<>>]]
      /\ UNCHANGED <<runtime, main, web, adapter>> /\ Past' = Past
  BY DEF PageLeaves, Past
<1>2. /\ page' \in [Pages -> [open : BOOLEAN, view : Snapshots]]
      /\ \A a \in Pages : page'[a].view \in Past'
  <2>1. Closed \in [open : BOOLEAN, view : Snapshots] /\ Closed.view \in Past
    BY ClosedIsPast DEF IInv
  <2> HIDE DEF Closed
  <2> QED
    BY <1>1, <2>1 DEF IInv, Typed, ShowsThePast
<1>3. ASSUME NEW k \in Conns
      PROVE  Carries(k, conn'[k], Past') /\ conn'[k].here = conn[k].here
  <2>1. Carries(k, conn[k], Past) /\ conn[k] \in Socket
    BY DEF IInv, Typed
  <2>2. CASE k[1] # b
    BY <1>1, <2>1, <2>2
  <2>3. CASE k[1] = b /\ conn[k].here = "closed"
    <3>1. conn'[k] = Free
      BY <1>1, <2>3
    <3>2. Carries(k, Free, Past') /\ Free.here = "closed"
      BY FreeCarries DEF Free
    <3> QED
      BY <2>3, <3>1, <3>2
  <2>4. CASE k[1] = b /\ conn[k].here # "closed"
    <3>1. conn'[k] = [conn[k] EXCEPT !.there = FALSE, !.inbox = <<>>]
      BY <1>1, <2>4
    <3>2. /\ conn'[k] \in Socket /\ conn'[k].here = conn[k].here
          /\ conn'[k].frame = conn[k].frame /\ conn'[k].inbox = <<>>
      BY <2>1, <3>1, EmptyFacts DEF Socket
    <3>3. Past' = Past
      BY <1>1
    <3> QED
      BY <2>1, <3>2, <3>3, EmptyFacts DEF Carries
  <2> QED
    BY <2>2, <2>3, <2>4
<1>4. conn' \in [Conns -> Socket]
  BY <1>1, <1>3 DEF Carries
<1>5. QueueIsKnown' /\ OneIsServed'
  BY <1>1, <1>3, NotConcerned DEF IInv, Typed
<1>6. AdapterIsPast'
  BY <1>1, <1>3, AdapterStays DEF IInv
<1> QED
  BY <1>1, <1>2, <1>3, <1>4, <1>5, <1>6 DEF IInv, Typed, ShowsThePast, Stops

LEMMA InitKeeps == Init => IInv
<1> SUFFICES ASSUME Init PROVE IInv
  OBVIOUS
<1>1. /\ runtime = Fresh(0) /\ main = "up" /\ adapter = Unused
      /\ web = [running |-> TRUE, listening |-> TRUE, backlog |-> <<>>, thread |-> "check"]
      /\ conn = [k \in Conns |-> Free] /\ page = [b \in Pages |-> Closed]
  BY DEF Init
<1>2. runtime \in Snapshots /\ runtime.life = 0 /\ Closed.view = runtime /\ runtime \in Past
  <2>1. MaxShown \in Nat
    BY EventsAssumption
  <2>2. runtime \in Snapshots /\ runtime.life = 0 /\ Closed.view = runtime
    BY <1>1, <2>1 DEF Fresh, Snapshots, Closed
  <2> QED
    BY <2>2 DEF Past, Snapshots
<1>3. Closed \in [open : BOOLEAN, view : Snapshots]
  BY <1>2 DEF Closed
<1>4. web \in Site
  BY <1>1, EmptyFacts DEF Site
<1>5. /\ conn \in [Conns -> Socket]
      /\ \A k \in Conns : Carries(k, conn[k], Past) /\ conn[k].here = "closed"
  BY <1>1, FreeCarries DEF Carries, Free
<1>6. /\ page \in [Pages -> [open : BOOLEAN, view : Snapshots]]
      /\ \A b \in Pages : page[b].view \in Past
  BY <1>1, <1>2, <1>3
<1>7. QueueIsKnown /\ OneIsServed /\ Stops
  BY <1>1, <1>5, EmptyFacts DEF QueueIsKnown, OneIsServed, Stops, Served
<1>8. adapter \in Adapter /\ adapter.current = NoSnapshot
  BY <1>1 DEF Unused, Adapter, Frames
<1>9. AdapterIsPast
  BY <1>5, <1>8 DEF AdapterIsPast
<1> QED
  BY <1>1, <1>2, <1>4, <1>5, <1>6, <1>7, <1>8, <1>9 DEF IInv, Typed, ShowsThePast

LEMMA StepKeeps == IInv /\ [Next]_vars => IInv'
<1> SUFFICES ASSUME IInv, [Next]_vars PROVE IInv'
  OBVIOUS
<1>1. CASE UNCHANGED vars
  <2>1. Past' = Past /\ UNCHANGED <<runtime, main, web, adapter, conn, page>>
    BY <1>1 DEF vars, Past
  <2> QED
    BY <2>1 DEF IInv, Typed, ShowsThePast, Stops, QueueIsKnown, OneIsServed, Served, AdapterIsPast
<1>2. CASE Program
  BY <1>2, LeaveKeeps, TickKeeps, CloseListenerKeeps, EndsKeeps
     DEF Program, StopGoesOn, JoinAccept, Race
<1>3. CASE AcceptThread
  BY <1>3, AcceptChecksKeeps, AcceptFailsKeeps, AcceptKeeps, ReadRequestKeeps,
     ReadNothingKeeps, WriteKeeps, SendSnapshotKeeps DEF AcceptThread, Answers
<1>4. CASE \E k \in Conns : Detached(k) \/ Speak(k) \/ TakeAnswer(k)
  BY <1>4, WorkKeeps, ReplyKeeps, PollKeeps, WriteKeeps, CompareKeeps, NoteKeeps, SendKeeps,
     SaysKeeps DEF Detached
<1>5. CASE \E b \in Commanders : Post(b)
  BY <1>5, AskKeeps, UseOfConns DEF Post
<1>6. CASE \E b \in Pages : OpenPage(b) \/ PageLeaves(b) \/ PageGoesOn(b)
  BY <1>6, OpenPageKeeps, PageLeavesKeeps, ReadFrameKeeps, ReadAnswerKeeps, AskKeeps, UseOfConns
     DEF PageGoesOn, ConnectSocket, Fetch
<1> QED
  BY <1>1, <1>2, <1>3, <1>4, <1>5, <1>6 DEF Next

LEMMA JoinIsKnown == IInv => JoinGoesOn
<1> SUFFICES ASSUME IInv, main = "join" PROVE JoinGoesOn
  BY DEF JoinGoesOn
<1>1. ~web.listening /\ web.thread \in {"check", "accept", "read", "answer", "ended"}
  BY DEF IInv, Typed, Stops, Site
<1>2. CASE web.thread \in {"read", "answer"}
  <2>1. PICK k \in Conns : Served(k, conn[k])
    BY <1>2 DEF IInv, OneIsServed, Served
  <2>2. CanGoOn(k) \/ Held
    <3>1. conn[k].there \in BOOLEAN
      BY DEF IInv, Typed, Socket
    <3> QED
      BY <2>1, <3>1 DEF CanGoOn, Held
  <2> QED
    BY <2>2 DEF JoinGoesOn
<1> QED
  BY <1>1, <1>2 DEF JoinGoesOn

LEMMA Always == Spec => [](IInv /\ JoinGoesOn)
  BY JoinIsKnown, InitKeeps, StepKeeps, PTL DEF Spec

(* No page shows what the runtime has not been yet, in any of the domains,   *)
(* although a snapshot that is sent may be another thread's, frames come     *)
(* late and leave domains out, and both are mixed with fetched snapshots     *)
(* (WebUiRuntimeAdapter; connect and fetchSnapshot of the script).           *)
THEOREM PagesShowThePast == Spec => []ShowsThePast
  BY Always, PTL DEF IInv

(* Every request that waits stands in the backlog once, what stands there    *)
(* waits, and the accept thread serves one connection at a time, and that    *)
(* only while it says so (WebUiServer::run).                                 *)
THEOREM RequestsAreKnown == Spec => [](QueueIsKnown /\ OneIsServed)
  BY Always, PTL DEF IInv

(* When stop() joins the accept thread, that thread has ended, is about to   *)
(* see that it must, waits on a socket that is shut down, or has a step of   *)
(* the request in its hands to take.  All that can hold it is a client that   *)
(* keeps its connection and does not send its request or read its answer,     *)
(* since recv and send have no time limit; it never waits in accept for a     *)
(* connection that will not come (WebUiServer::stop, handleClient).           *)
THEOREM OnlyClientsHoldTheJoin == Spec => []JoinGoesOn
  BY Always, PTL
=============================================================================
