---------------------------- MODULE RuntimeProofs ----------------------------
(***************************************************************************)
(* Proofs about the runtime: about its socket server (RuntimeServer), for  *)
(* any number of connections, any sizes of the backlog, the sockets and    *)
(* the ring and any number of starts, and about its equaliser (EqRuntime). *)
(***************************************************************************)
EXTENDS RuntimeServer, SequenceTheorems, TLAPS

(***************************************************************************)
(* What the threads and the clients rely on: what a connection is used for *)
(* says what its thread does, the backlog names connections that wait in   *)
(* it, and the terminal holds its own end of its stream.                   *)
(***************************************************************************)
Frames == Snapshots \cup {NoSnapshot}

Connection == [use : {"free", "request", "stream"}, there : BOOLEAN,
               here : {"queued", "read", "look", "send", "reply", "closed"},
               inbox : Seq(Frames), previous : Frames, sent : Frames,
               applied : BOOLEAN]

Server == [running : BOOLEAN, listening : BOOLEAN, backlog : Seq(Conns \cup {Wake}),
           thread : {"none", "check", "accept", "waiting", "ended"}]

Terminal == [on : BOOLEAN, stream : Conns \cup {NoConn}, ring : Seq(Snapshots),
             error : BOOLEAN, view : Frames, connected : BOOLEAN]

TypeOK ==
    /\ runtime \in Snapshots
    /\ main \in {"down", "up", "wake", "close", "joinAccept", "joinClients"}
    /\ server \in Server
    /\ conn \in [Conns -> Connection]
    /\ terminal \in Terminal
    /\ requests \in Nat

\* A stream carries snapshots only; a command was applied by the thread of a
\* request, which then owes an answer or has written it.
Sound(c) ==
    /\ c.here \in {"look", "send"} => c.use = "stream"
    /\ c.here = "reply" => c.use = "request"
    /\ c.here = "send" => c.previous \in Snapshots
    /\ c.use = "stream" => c.inbox \in Seq(Snapshots)
    /\ c.applied => c.use = "request" /\ c.here \in {"reply", "closed"}
    /\ c.applied /\ c.there /\ c.here = "closed" => c.inbox # <<>>

BacklogWaits ==
    \A i \in 1..Len(server.backlog) :
        LET k == server.backlog[i]
        IN  k # Wake => /\ conn[k].here = "queued"
                        /\ \A j \in 1..Len(server.backlog) : server.backlog[j] = k => i = j

StreamIsHeld ==
    terminal.stream # NoConn => conn[terminal.stream].there /\ conn[terminal.stream].use = "stream"

Threads == (\A k \in Conns : Sound(conn[k])) /\ BacklogWaits /\ StreamIsHeld

(***************************************************************************)
(* Where snapshots are on their way to the terminal's picture, the oldest  *)
(* first: drawn, in the ring, on the wire, taken and not yet written, and  *)
(* what the runtime is now.                                                *)
(***************************************************************************)
Drawn == IF terminal.view = NoSnapshot THEN <<>> ELSE <<terminal.view>>
Wire == IF terminal.stream = NoConn THEN <<>> ELSE conn[terminal.stream].inbox
Taken == IF terminal.stream = NoConn \/ conn[terminal.stream].here # "send" THEN <<>>
         ELSE <<conn[terminal.stream].previous>>
Now == <<runtime>>

Rising(s) == \A i, j \in 1..Len(s) : i <= j => Before(s[i], s[j])
Below(s, t) == \A i \in 1..Len(s), j \in 1..Len(t) : Before(s[i], t[j])

Ordered(v, r, w, p, x) ==
    /\ Rising(v) /\ Rising(r) /\ Rising(w) /\ Rising(p)
    /\ Below(v, r) /\ Below(v, w) /\ Below(v, p) /\ Below(v, x)
    /\ Below(r, w) /\ Below(r, p) /\ Below(r, x)
    /\ Below(w, p) /\ Below(w, x)
    /\ Below(p, x)

PicturesRise == Ordered(Drawn, terminal.ring, Wire, Taken, Now)

IInv == TypeOK /\ Threads /\ PicturesRise

-----------------------------------------------------------------------------
(* The order of the states a runtime goes through. *)

LEMMA BeforeIsAnOrder ==
    /\ \A a \in Snapshots : Before(a, a)
    /\ \A a, b, c \in Snapshots : Before(a, b) /\ Before(b, c) => Before(a, c)
  BY DEF Before, Snapshots

LEMMA Joined ==
    ASSUME NEW s \in Seq(Snapshots), NEW t \in Seq(Snapshots),
           Rising(s), Rising(t), Below(s, t)
    PROVE  s \o t \in Seq(Snapshots) /\ Rising(s \o t)
<1> DEFINE u == s \o t
<1>1. u \in Seq(Snapshots) /\ Len(u) = Len(s) + Len(t)
  OBVIOUS
<1>2. \A i \in 1..Len(u) : u[i] = IF i <= Len(s) THEN s[i] ELSE t[i - Len(s)]
  OBVIOUS
<1> HIDE DEF u
<1>3. ASSUME NEW i \in 1..Len(u), NEW j \in 1..Len(u), i <= j PROVE Before(u[i], u[j])
  <2>1. Len(s) \in Nat /\ Len(t) \in Nat
    OBVIOUS
  <2>2. CASE j <= Len(s)
    <3>1. i \in 1..Len(s) /\ j \in 1..Len(s) /\ u[i] = s[i] /\ u[j] = s[j]
      BY <1>1, <1>2, <1>3, <2>1, <2>2
    <3> QED
      BY <1>3, <3>1 DEF Rising
  <2>3. CASE i <= Len(s) /\ ~(j <= Len(s))
    <3>1. i \in 1..Len(s) /\ j - Len(s) \in 1..Len(t) /\ u[i] = s[i] /\ u[j] = t[j - Len(s)]
      BY <1>1, <1>2, <2>1, <2>3
    <3> QED
      BY <3>1 DEF Below
  <2>4. CASE ~(i <= Len(s))
    <3>1. /\ i - Len(s) \in 1..Len(t) /\ j - Len(s) \in 1..Len(t) /\ i - Len(s) <= j - Len(s)
          /\ u[i] = t[i - Len(s)] /\ u[j] = t[j - Len(s)]
      BY <1>1, <1>2, <1>3, <2>1, <2>4
    <3> QED
      BY <3>1 DEF Rising
  <2> QED
    BY <2>2, <2>3, <2>4
<1> QED
  BY <1>1, <1>3 DEF Rising, u

LEMMA JoinedBelow ==
    ASSUME NEW s \in Seq(Snapshots), NEW t \in Seq(Snapshots), NEW u \in Seq(Snapshots),
           Below(s, u), Below(t, u)
    PROVE  Below(s \o t, u)
<1> DEFINE v == s \o t
<1>1. Len(v) = Len(s) + Len(t) /\ Len(s) \in Nat /\ Len(t) \in Nat
  OBVIOUS
<1>2. \A i \in 1..Len(v) : v[i] = IF i <= Len(s) THEN s[i] ELSE t[i - Len(s)]
  OBVIOUS
<1> HIDE DEF v
<1>3. ASSUME NEW i \in 1..Len(v), NEW j \in 1..Len(u) PROVE Before(v[i], u[j])
  <2>1. CASE i <= Len(s)
    BY <1>1, <1>2, <2>1 DEF Below
  <2>2. CASE ~(i <= Len(s))
    <3>1. i - Len(s) \in 1..Len(t) /\ v[i] = t[i - Len(s)]
      BY <1>1, <1>2, <2>2
    <3> QED
      BY <3>1 DEF Below
  <2> QED
    BY <2>1, <2>2
<1> QED
  BY <1>3 DEF Below, v

LEMMA BelowJoined ==
    ASSUME NEW s \in Seq(Snapshots), NEW t \in Seq(Snapshots), NEW u \in Seq(Snapshots),
           Below(s, t), Below(s, u)
    PROVE  Below(s, t \o u)
<1> DEFINE v == t \o u
<1>1. Len(v) = Len(t) + Len(u) /\ Len(t) \in Nat /\ Len(u) \in Nat
  OBVIOUS
<1>2. \A i \in 1..Len(v) : v[i] = IF i <= Len(t) THEN t[i] ELSE u[i - Len(t)]
  OBVIOUS
<1> HIDE DEF v
<1>3. ASSUME NEW i \in 1..Len(s), NEW j \in 1..Len(v) PROVE Before(s[i], v[j])
  <2>1. CASE j <= Len(t)
    BY <1>1, <1>2, <2>1 DEF Below
  <2>2. CASE ~(j <= Len(t))
    <3>1. j - Len(t) \in 1..Len(u) /\ v[j] = u[j - Len(t)]
      BY <1>1, <1>2, <2>2
    <3> QED
      BY <3>1 DEF Below
  <2> QED
    BY <2>1, <2>2
<1> QED
  BY <1>3 DEF Below, v

\* A part of a sequence is where the sequence is.
PartOf(t, s) ==
    \E m \in Nat : Len(t) + m <= Len(s) /\ \A i \in 1..Len(t) : t[i] = s[i + m]

LEMMA Parts ==
    ASSUME NEW s \in Seq(Snapshots), NEW t \in Seq(Snapshots), PartOf(t, s)
    PROVE  /\ Rising(s) => Rising(t)
           /\ \A u \in Seq(Snapshots) : (Below(s, u) => Below(t, u)) /\ (Below(u, s) => Below(u, t))
<1> PICK m \in Nat : Len(t) + m <= Len(s) /\ \A i \in 1..Len(t) : t[i] = s[i + m]
  BY DEF PartOf
<1>1. \A i \in 1..Len(t) : i + m \in 1..Len(s) /\ t[i] = s[i + m]
  OBVIOUS
<1>2. \A i, j \in 1..Len(t) : i <= j => i + m <= j + m
  OBVIOUS
<1> QED
  BY <1>1, <1>2 DEF Rising, Below

LEMMA Single ==
    ASSUME NEW a \in Snapshots
    PROVE  <<a>> \in Seq(Snapshots) /\ Rising(<<a>>)
  BY BeforeIsAnOrder DEF Rising

LEMMA Nothing ==
    /\ <<>> \in Seq(Snapshots) /\ Rising(<<>>)
    /\ \A s \in Seq(Snapshots) : Below(s, <<>>) /\ Below(<<>>, s)
  BY DEF Rising, Below

-----------------------------------------------------------------------------
(* What each step of a picture's way does to the order. *)

\* The runtime moves on.
LEMMA Moves ==
    ASSUME NEW v \in Seq(Snapshots), NEW r \in Seq(Snapshots), NEW w \in Seq(Snapshots),
           NEW p \in Seq(Snapshots), NEW x \in Snapshots, NEW y \in Snapshots,
           Ordered(v, r, w, p, <<x>>), Before(x, y)
    PROVE  Ordered(v, r, w, p, <<y>>)
<1>1. ASSUME NEW s \in Seq(Snapshots), Below(s, <<x>>) PROVE Below(s, <<y>>)
  <2>1. \A i \in 1..Len(s) : s[i] \in Snapshots /\ Before(s[i], x)
    BY <1>1 DEF Below
  <2>2. \A i \in 1..Len(s) : Before(s[i], y)
    BY <2>1, BeforeIsAnOrder
  <2> QED
    BY <2>2 DEF Below
<1> QED
  BY <1>1 DEF Ordered

\* A thread takes the snapshot of now.
LEMMA Takes ==
    ASSUME NEW v \in Seq(Snapshots), NEW r \in Seq(Snapshots), NEW w \in Seq(Snapshots),
           NEW p \in Seq(Snapshots), NEW x \in Snapshots, Ordered(v, r, w, p, <<x>>)
    PROVE  Ordered(v, r, w, <<x>>, <<x>>)
<1>1. Below(<<x>>, <<x>>)
  BY BeforeIsAnOrder DEF Below
<1> QED
  BY <1>1, Single DEF Ordered

\* It writes what it took.
LEMMA Writes ==
    ASSUME NEW v \in Seq(Snapshots), NEW r \in Seq(Snapshots), NEW w \in Seq(Snapshots),
           NEW a \in Snapshots, NEW x \in Seq(Snapshots), Ordered(v, r, w, <<a>>, x)
    PROVE  Ordered(v, r, Append(w, a), <<>>, x)
<1>1. Append(w, a) = w \o <<a>> /\ <<a>> \in Seq(Snapshots)
  OBVIOUS
<1>2. w \o <<a>> \in Seq(Snapshots) /\ Rising(w \o <<a>>)
  BY <1>1, Joined DEF Ordered
<1>3. Below(v, w \o <<a>>) /\ Below(r, w \o <<a>>)
  BY <1>1, BelowJoined DEF Ordered
<1>4. Below(w \o <<a>>, x)
  BY <1>1, JoinedBelow DEF Ordered
<1> QED
  BY <1>1, <1>2, <1>3, <1>4, Nothing DEF Ordered

\* What it took, or the whole stream, is lost.
LEMMA Loses ==
    ASSUME NEW v \in Seq(Snapshots), NEW r \in Seq(Snapshots), NEW w \in Seq(Snapshots),
           NEW p \in Seq(Snapshots), NEW x \in Seq(Snapshots), Ordered(v, r, w, p, x)
    PROVE  /\ Ordered(v, r, w, <<>>, x) /\ Ordered(v, r, <<>>, <<>>, x)
           /\ Ordered(v, <<>>, <<>>, <<>>, x)
  BY Nothing DEF Ordered

\* The terminal takes a frame off the wire.
LEMMA Reads ==
    ASSUME NEW v \in Seq(Snapshots), NEW r \in Seq(Snapshots), NEW w \in Seq(Snapshots),
           NEW p \in Seq(Snapshots), NEW x \in Seq(Snapshots),
           Ordered(v, r, w, p, x), w # <<>>
    PROVE  Ordered(v, Append(r, Head(w)), Tail(w), p, x)
<1> DEFINE a == Head(w)
           t == Tail(w)
<1>1. a \in Snapshots /\ t \in Seq(Snapshots) /\ <<a>> \in Seq(Snapshots)
  OBVIOUS
<1>2. PartOf(t, w) /\ PartOf(<<a>>, w)
  <2>1. Len(t) + 1 <= Len(w) /\ \A i \in 1..Len(t) : t[i] = w[i + 1]
    OBVIOUS
  <2>2. Len(<<a>>) + 0 <= Len(w) /\ \A i \in 1..Len(<<a>>) : <<a>>[i] = w[i + 0]
    OBVIOUS
  <2> QED
    BY <2>1, <2>2 DEF PartOf
<1>3. Below(<<a>>, t)
  <2>1. \A j \in 1..Len(t) : j + 1 \in 1..Len(w) /\ t[j] = w[j + 1] /\ 1 <= j + 1
    OBVIOUS
  <2>2. 1 \in 1..Len(w) /\ a = w[1]
    OBVIOUS
  <2>3. \A j \in 1..Len(t) : Before(a, t[j])
    BY <2>1, <2>2 DEF Ordered, Rising
  <2> QED
    BY <2>3 DEF Below
<1>4. Append(r, a) = r \o <<a>>
  OBVIOUS
<1> HIDE DEF a, t
<1>5. /\ Rising(t) /\ Below(v, t) /\ Below(r, t) /\ Below(t, p) /\ Below(t, x)
      /\ Rising(<<a>>) /\ Below(v, <<a>>) /\ Below(r, <<a>>) /\ Below(<<a>>, p) /\ Below(<<a>>, x)
  BY <1>1, <1>2, Parts DEF Ordered
<1>6. Rising(r \o <<a>>)
  BY <1>1, <1>5, Joined DEF Ordered
<1>7. Below(v, r \o <<a>>)
  BY <1>1, <1>5, BelowJoined DEF Ordered
<1>8. Below(r \o <<a>>, t) /\ Below(r \o <<a>>, p) /\ Below(r \o <<a>>, x)
  BY <1>1, <1>3, <1>5, JoinedBelow DEF Ordered
<1>9. Ordered(v, Append(r, a), t, p, x)
  BY <1>4, <1>5, <1>6, <1>7, <1>8 DEF Ordered
<1> QED
  BY <1>9 DEF a, t

\* The ring loses its oldest events.
LEMMA Overflows ==
    ASSUME NEW v \in Seq(Snapshots), NEW r \in Seq(Snapshots), NEW w \in Seq(Snapshots),
           NEW p \in Seq(Snapshots), NEW x \in Seq(Snapshots), Ordered(v, r, w, p, x),
           NEW q \in Seq(Snapshots), PartOf(q, r)
    PROVE  Ordered(v, q, w, p, x)
  BY Parts DEF Ordered

\* The terminal draws the last event of its ring.
LEMMA Draws ==
    ASSUME NEW v \in Seq(Snapshots), NEW r \in Seq(Snapshots), NEW w \in Seq(Snapshots),
           NEW p \in Seq(Snapshots), NEW x \in Seq(Snapshots),
           Ordered(v, r, w, p, x), r # <<>>
    PROVE  Ordered(<<Last(r)>>, <<>>, w, p, x) /\ Ordered(<<>>, <<>>, w, p, x)
<1> DEFINE a == Last(r)
<1>1. Len(r) \in Nat \ {0} /\ a = r[Len(r)]
  BY DEF Last
<1>2. a \in Snapshots /\ <<a>> \in Seq(Snapshots) /\ Len(<<a>>) = 1 /\ <<a>>[1] = a
  BY <1>1
<1> HIDE DEF a
<1>3. PartOf(<<a>>, r)
  <2>1. Len(r) - 1 \in Nat /\ Len(<<a>>) + (Len(r) - 1) <= Len(r)
    BY <1>1, <1>2
  <2>2. \A i \in 1..Len(<<a>>) : <<a>>[i] = r[i + (Len(r) - 1)]
    BY <1>1, <1>2
  <2> QED
    BY <2>1, <2>2 DEF PartOf
<1>4. Rising(<<a>>) /\ Below(<<a>>, w) /\ Below(<<a>>, p) /\ Below(<<a>>, x)
  BY <1>2, <1>3, Parts DEF Ordered
<1>5. Ordered(<<a>>, <<>>, w, p, x) /\ Ordered(<<>>, <<>>, w, p, x)
  BY <1>2, <1>4, Nothing DEF Ordered
<1> QED
  BY <1>5 DEF a

\* What a full ring keeps.
LEMMA PushedFacts ==
    ASSUME NEW ring \in Seq(Snapshots), NEW e \in Snapshots
    PROVE  Pushed(ring, e) \in Seq(Snapshots) /\ PartOf(Pushed(ring, e), Append(ring, e))
<1> DEFINE all == Append(ring, e)
           m == IF Len(all) > RingSize THEN Len(all) - RingSize + 1 ELSE 1
           q == SubSeq(all, m, Len(all))
<1>1. all \in Seq(Snapshots) /\ Len(all) \in Nat /\ Len(all) = Len(ring) + 1
  OBVIOUS
<1>2. RingSize \in Nat /\ RingSize > 0
  BY ServerAssumption
<1>3. m \in 1..Len(all)
  BY <1>1, <1>2
<1> HIDE DEF all, m
<1>4. q \in Seq(Snapshots) /\ Len(q) = Len(all) - m + 1
      /\ \A i \in 1..Len(q) : q[i] = all[i + m - 1]
  BY <1>1, <1>3, SubSeqProperties
<1> HIDE DEF q
<1>5. PartOf(q, all)
  <2>1. m - 1 \in Nat /\ Len(q) + (m - 1) <= Len(all)
    BY <1>1, <1>3, <1>4
  <2>2. \A i \in 1..Len(q) : q[i] = all[i + (m - 1)]
    BY <1>1, <1>3, <1>4
  <2> QED
    BY <2>1, <2>2 DEF PartOf
<1>6. q = Pushed(ring, e)
  BY DEF Pushed, q, m, all
<1> QED
  BY <1>4, <1>5, <1>6 DEF all

\* The pictures' places, one after the other, are the sequence of the property.
LEMMA PicturesRiseInOrder == TypeOK /\ StreamIsHeld /\ Wire \in Seq(Snapshots) /\ PicturesRise
                               => PicturesComeInOrder
<1> SUFFICES ASSUME TypeOK, StreamIsHeld, Wire \in Seq(Snapshots), PicturesRise
             PROVE  PicturesComeInOrder
  OBVIOUS
<1> DEFINE shown == Drawn \o terminal.ring \o Wire \o Now
<1>1. Drawn \in Seq(Snapshots) /\ terminal.ring \in Seq(Snapshots) /\ Now \in Seq(Snapshots)
  BY DEF TypeOK, Terminal, Drawn, Now, Frames
<1>2. Rising(Now)
  BY Single DEF Now, TypeOK
<1>3. Drawn \o terminal.ring \in Seq(Snapshots) /\ Rising(Drawn \o terminal.ring)
  BY <1>1, Joined DEF PicturesRise, Ordered
<1>4. Below(Drawn \o terminal.ring, Wire) /\ Below(Drawn \o terminal.ring, Now)
  BY <1>1, JoinedBelow DEF PicturesRise, Ordered
<1>5. Drawn \o terminal.ring \o Wire \in Seq(Snapshots) /\ Rising(Drawn \o terminal.ring \o Wire)
  BY <1>3, <1>4, Joined DEF PicturesRise, Ordered
<1>6. Below(Drawn \o terminal.ring \o Wire, Now)
  BY <1>1, <1>3, <1>4, JoinedBelow DEF PicturesRise, Ordered
<1>7. shown \in Seq(Snapshots) /\ Rising(shown)
  BY <1>1, <1>2, <1>5, <1>6, Joined
<1> HIDE DEF shown
<1>8. \A i \in 1..Len(shown) - 1 : Before(shown[i], shown[i + 1])
  <2>1. ASSUME NEW i \in 1..Len(shown) - 1
        PROVE  i \in 1..Len(shown) /\ i + 1 \in 1..Len(shown) /\ i <= i + 1
    BY <1>7
  <2> QED
    BY <1>7, <2>1 DEF Rising
<1> QED
  BY <1>8 DEF PicturesComeInOrder, shown, Drawn, Wire, Now

-----------------------------------------------------------------------------
(* What each step leaves of the threads and the connections. *)

LEMMA IdleIsSound ==
    /\ Idle \in Connection /\ Sound(Idle)
    /\ Idle.here = "closed" /\ Idle.there = FALSE /\ Idle.use = "free"
  BY DEF Idle, Connection, Sound, Frames

\* One connection changes and does not join the backlog.
LEMMA OneChanges ==
    ASSUME TypeOK, Threads, NEW k \in Conns, NEW c \in Connection, Sound(c),
           conn' = [conn EXCEPT ![k] = c], UNCHANGED server,
           conn[k].here = "queued" => c.here = "queued",
           terminal'.stream \in {NoConn, terminal.stream},
           terminal'.stream = k => c.there /\ c.use = "stream"
    PROVE  conn' \in [Conns -> Connection] /\ Threads'
<1>0. conn \in [Conns -> Connection] /\ NoConn \notin Conns
  BY ServerAssumption DEF TypeOK
<1>1. /\ conn' \in [Conns -> Connection] /\ conn'[k] = c
      /\ \A j \in Conns : j # k => conn'[j] = conn[j]
  BY <1>0
<1>2. \A j \in Conns : Sound(conn'[j])
  <2>1. ASSUME NEW j \in Conns PROVE Sound(conn'[j])
    <3>1. CASE j = k
      BY <1>1, <3>1
    <3>2. CASE j # k
      BY <1>1, <3>2 DEF Threads
    <3> QED
      BY <3>1, <3>2
  <2> QED
    BY <2>1
<1>3. BacklogWaits'
  <2>1. ASSUME NEW i \in 1..Len(server.backlog), server.backlog[i] # Wake
        PROVE  conn'[server.backlog[i]].here = "queued"
    <3>1. server.backlog[i] \in Conns /\ conn[server.backlog[i]].here = "queued"
      BY <2>1 DEF TypeOK, Server, Threads, BacklogWaits
    <3> QED
      BY <1>1, <3>1
  <2> QED
    BY <2>1 DEF Threads, BacklogWaits
<1>4. StreamIsHeld'
  <2>1. CASE terminal'.stream = NoConn
    BY <2>1 DEF StreamIsHeld
  <2>2. CASE terminal'.stream = k
    BY <1>1, <2>2 DEF StreamIsHeld
  <2>3. CASE terminal'.stream = terminal.stream /\ terminal.stream # NoConn /\ terminal.stream # k
    <3>1. terminal.stream \in Conns
      BY <2>3 DEF TypeOK, Terminal
    <3> QED
      BY <1>1, <2>3, <3>1 DEF StreamIsHeld, Threads
  <2> QED
    BY <2>1, <2>2, <2>3
<1> QED
  BY <1>1, <1>2, <1>3, <1>4 DEF Threads

\* So it is when the connection may be forgotten.
LEMMA PutKeeps ==
    ASSUME TypeOK, Threads, NEW k \in Conns, NEW c \in Connection, Sound(c), Put(k, c),
           UNCHANGED server, conn[k].here = "queued" => c.here = "queued",
           terminal'.stream \in {NoConn, terminal.stream},
           terminal'.stream = k => c.there /\ c.use = "stream"
    PROVE  conn' \in [Conns -> Connection] /\ Threads'
<1>1. CASE c.there \/ c.here # "closed"
  <2>1. conn' = [conn EXCEPT ![k] = c]
    BY <1>1 DEF Put
  <2> QED
    BY <2>1, OneChanges
<1>2. CASE ~c.there /\ c.here = "closed"
  <2>1. conn' = [conn EXCEPT ![k] = Idle]
    BY <1>2 DEF Put
  <2>2. conn[k].here # "queued" /\ terminal'.stream # k
    BY <1>2
  <2> QED
    BY <2>1, <2>2, IdleIsSound, OneChanges
<1>3. c.there \in BOOLEAN
  BY DEF Connection
<1> QED
  BY <1>1, <1>2, <1>3

\* Every connection that waits in the backlog is reset, and nobody waits.
LEMMA ResetKeeps ==
    ASSUME NEW c \in [Conns -> Connection], \A k \in Conns : Sound(c[k])
    PROVE  /\ Reset(c) \in [Conns -> Connection]
           /\ \A k \in Conns : /\ Sound(Reset(c)[k])
                               /\ c[k].there => Reset(c)[k].there /\ Reset(c)[k].use = c[k].use
                               /\ Reset(c)[k].inbox = c[k].inbox \/ ~c[k].there
                               /\ Reset(c)[k].here = "send" => Reset(c)[k] = c[k]
<1>1. ASSUME NEW k \in Conns
      PROVE  LET d == IF c[k].here # "queued" THEN c[k]
                      ELSE IF c[k].there THEN [c[k] EXCEPT !.here = "closed"] ELSE Idle
             IN  /\ d \in Connection /\ Sound(d)
                 /\ c[k].there => d.there /\ d.use = c[k].use
                 /\ d.inbox = c[k].inbox \/ ~c[k].there
                 /\ d.here = "send" => d = c[k]
  <2>1. CASE c[k].here # "queued"
    BY <2>1
  <2>2. CASE c[k].here = "queued" /\ c[k].there
    <3>1. ~c[k].applied
      BY <2>2 DEF Sound
    <3> QED
      BY <2>2, <3>1 DEF Sound, Connection
  <2>3. CASE c[k].here = "queued" /\ ~c[k].there
    BY <2>3, IdleIsSound
  <2> QED
    BY <2>1, <2>2, <2>3
<1>2. Reset(c) = [k \in Conns |-> IF c[k].here # "queued" THEN c[k]
                                  ELSE IF c[k].there THEN [c[k] EXCEPT !.here = "closed"] ELSE Idle]
  BY DEF Reset
<1> QED
  BY <1>1, <1>2

\* The program is gone, none of its threads owing an answer.
LEMMA AbandonedKeeps ==
    ASSUME NEW c \in [Conns -> Connection], \A k \in Conns : Sound(c[k]),
           \A k \in Conns : c[k].here = "reply" => ~c[k].applied
    PROVE  /\ Abandoned(c) \in [Conns -> Connection]
           /\ \A k \in Conns : /\ Sound(Abandoned(c)[k])
                               /\ c[k].there => /\ Abandoned(c)[k].there
                                                /\ Abandoned(c)[k].use = c[k].use
                                                /\ Abandoned(c)[k].inbox = c[k].inbox
                               /\ Abandoned(c)[k].here = "closed"
<1>1. ASSUME NEW k \in Conns
      PROVE  LET d == IF c[k].there THEN Ended(c[k]) ELSE Idle
             IN  /\ d \in Connection /\ Sound(d)
                 /\ c[k].there => d.there /\ d.use = c[k].use /\ d.inbox = c[k].inbox
                 /\ d.here = "closed"
  <2>1. CASE c[k].there
    BY <2>1 DEF Ended, Sound, Connection, Frames
  <2>2. CASE ~c[k].there
    BY <2>2, IdleIsSound
  <2> QED
    BY <2>1, <2>2
<1>2. Abandoned(c) = [k \in Conns |-> IF c[k].there THEN Ended(c[k]) ELSE Idle]
  BY DEF Abandoned
<1> QED
  BY <1>1, <1>2

\* The backlog is empty, and the terminal's end of its stream is as it was.
LEMMA BacklogEmptied ==
    ASSUME TypeOK, Threads, conn' \in [Conns -> Connection], \A k \in Conns : Sound(conn'[k]),
           \A k \in Conns : conn[k].there => conn'[k].there /\ conn'[k].use = conn[k].use,
           server'.backlog = <<>>, UNCHANGED terminal
    PROVE  Threads'
<1>1. BacklogWaits'
  BY DEF BacklogWaits
<1>2. StreamIsHeld'
  BY ServerAssumption DEF Threads, StreamIsHeld, TypeOK, Terminal
<1> QED
  BY <1>1, <1>2 DEF Threads

LEMMA ChangeMoves == TypeOK /\ Change => runtime' \in Snapshots /\ Before(runtime, runtime')
<1> SUFFICES ASSUME runtime \in Snapshots, Change
             PROVE  runtime' \in Snapshots /\ Before(runtime, runtime')
  BY DEF TypeOK
<1>1. PICK d \in Domains : /\ runtime.shown[d] < MaxShown
                           /\ runtime' = [runtime EXCEPT !.shown[d] = @ + 1]
  BY DEF Change
<1>2. MaxShown \in Nat
  BY EventsAssumption
<1> QED
  BY <1>1, <1>2 DEF Snapshots, Before

LEMMA FreshMoves ==
    \A n \in Nat : Fresh(n) \in Snapshots
                   /\ \A a \in Snapshots : a.life < n => Before(a, Fresh(n))
  BY EventsAssumption DEF Fresh, Snapshots, Before

\* What the program and its accept thread do to the server's state.
LEMMA ServerTypes ==
    /\ Off \in Server /\ Off.backlog = <<>>
    /\ [Off EXCEPT !.running = TRUE, !.listening = TRUE, !.thread = "check"] \in Server
    /\ \A s \in Server :
         /\ [s EXCEPT !.backlog = Append(@, Wake)] \in Server
         /\ [s EXCEPT !.listening = FALSE, !.backlog = <<>>] \in Server
         /\ [s EXCEPT !.thread = "check", !.backlog = <<>>] \in Server
         /\ \A b \in Seq(Conns \cup {Wake}) : [s EXCEPT !.thread = "check", !.backlog = b] \in Server
<1>1. <<>> \in Seq(Conns \cup {Wake})
  OBVIOUS
<1>2. \A s \in Server : Append(s.backlog, Wake) \in Seq(Conns \cup {Wake})
  BY DEF Server
<1> QED
  BY <1>1, <1>2 DEF Server, Off

\* A killed program owes nobody an answer.
LEMMA ForgottenKeeps ==
    ASSUME conn \in [Conns -> Connection], \A k \in Conns : Sound(conn[k])
    PROVE  LET c == [k \in Conns |-> [conn[k] EXCEPT !.applied = FALSE]]
           IN  /\ c \in [Conns -> Connection]
               /\ \A k \in Conns : /\ Sound(c[k]) /\ ~c[k].applied
                                   /\ c[k].there = conn[k].there /\ c[k].use = conn[k].use
                                   /\ c[k].inbox = conn[k].inbox
<1>1. ASSUME NEW k \in Conns
      PROVE  LET d == [conn[k] EXCEPT !.applied = FALSE]
             IN  /\ d \in Connection /\ Sound(d) /\ ~d.applied
                 /\ d.there = conn[k].there /\ d.use = conn[k].use /\ d.inbox = conn[k].inbox
  BY DEF Connection, Sound
<1> QED
  BY <1>1

LEMMA ProgramThreads ==
    ASSUME TypeOK, Threads, Program
    PROVE  TypeOK' /\ Threads'
<1>0. /\ conn \in [Conns -> Connection] /\ \A k \in Conns : Sound(conn[k])
      /\ server.backlog \in Seq(Conns \cup {Wake})
  BY DEF TypeOK, Threads, Server
<1>1. CASE Start
  <2>1. runtime.life + 1 \in Nat
    BY DEF TypeOK, Snapshots
  <2>2. TypeOK'
    BY <1>1, <2>1, FreshMoves, ServerTypes DEF Start, TypeOK
  <2>3. server'.backlog = <<>>
    BY <1>1 DEF Start, Off
  <2> QED
    BY <1>0, <1>1, <2>2, <2>3, BacklogEmptied DEF Start
<1>2. CASE Leave
  BY <1>2 DEF Leave, Server, TypeOK, Threads, BacklogWaits, StreamIsHeld
<1>3. CASE WakeAccept
  <2>1. TypeOK'
    BY <1>3, ServerTypes DEF WakeAccept, TypeOK
  <2>2. BacklogWaits'
    <3>1. server'.backlog = Append(server.backlog, Wake) /\ UNCHANGED conn
      BY <1>3 DEF WakeAccept, TypeOK, Server
    <3> QED
      BY <1>0, <3>1 DEF Threads, BacklogWaits
  <2> QED
    BY <1>3, <2>1, <2>2 DEF WakeAccept, Threads, StreamIsHeld
<1>4. CASE CloseListener
  <2>1. CASE server.thread = "waiting"
    BY <1>4, <2>1 DEF CloseListener, Server, TypeOK, Threads, BacklogWaits, StreamIsHeld
  <2>2. CASE server.thread # "waiting"
    <3>1. /\ server' = [server EXCEPT !.listening = FALSE, !.backlog = <<>>]
          /\ conn' = Reset(conn) /\ main' = "joinAccept" /\ UNCHANGED <<runtime, terminal, requests>>
      BY <1>4, <2>2 DEF CloseListener
    <3>2. conn' \in [Conns -> Connection] /\ TypeOK'
      BY <1>0, <3>1, ResetKeeps, ServerTypes DEF TypeOK
    <3>3. server'.backlog = <<>>
      BY <3>1 DEF TypeOK, Server
    <3> QED
      BY <1>0, <3>1, <3>2, <3>3, ResetKeeps, BacklogEmptied
  <2> QED
    BY <2>1, <2>2
<1>5. CASE JoinAccept
  BY <1>5 DEF JoinAccept, TypeOK, Threads, BacklogWaits, StreamIsHeld
<1>6. CASE End
  <2>1. \A k \in Conns : conn[k].here # "reply"
    BY <1>6 DEF End, ThreadLives
  <2>2. conn' \in [Conns -> Connection] /\ TypeOK' /\ server'.backlog = <<>>
    BY <1>0, <1>6, <2>1, AbandonedKeeps, ServerTypes DEF End, TypeOK
  <2> QED
    BY <1>0, <1>6, <2>1, <2>2, AbandonedKeeps, BacklogEmptied DEF End
<1>7. CASE Crash
  <2> DEFINE c == [k \in Conns |-> [conn[k] EXCEPT !.applied = FALSE]]
  <2>1. c \in [Conns -> Connection] /\ \A k \in Conns : Sound(c[k]) /\ ~c[k].applied
    BY <1>0, ForgottenKeeps
  <2>2. \A k \in Conns : c[k].there = conn[k].there /\ c[k].use = conn[k].use
    BY <1>0, ForgottenKeeps
  <2>3. conn' = Abandoned(c) /\ server' = Off /\ main' = "down" /\ UNCHANGED <<runtime, terminal, requests>>
    BY <1>7 DEF Crash
  <2> HIDE DEF c
  <2>4. conn' \in [Conns -> Connection] /\ TypeOK' /\ server'.backlog = <<>>
    BY <2>1, <2>3, AbandonedKeeps, ServerTypes DEF TypeOK
  <2> QED
    BY <2>1, <2>2, <2>3, <2>4, AbandonedKeeps, BacklogEmptied
<1> QED
  BY <1>1, <1>2, <1>3, <1>4, <1>5, <1>6, <1>7 DEF Program, StopGoesOn

LEMMA AcceptThreads ==
    ASSUME TypeOK, Threads, AcceptThread
    PROVE  TypeOK' /\ Threads'
<1>0. /\ conn \in [Conns -> Connection] /\ \A k \in Conns : Sound(conn[k])
      /\ server.backlog \in Seq(Conns \cup {Wake})
  BY DEF TypeOK, Threads, Server
<1>1. CASE AcceptChecks \/ AcceptEnters
  BY <1>1 DEF Server, AcceptChecks, AcceptEnters, TypeOK, Threads, BacklogWaits, StreamIsHeld
<1>2. CASE AcceptReturns
  <2> DEFINE k == Head(server.backlog)
             taken == IF k = Wake THEN conn ELSE [conn EXCEPT ![k].here = "read"]
             rest == Tail(server.backlog)
  <2>1. server.backlog # <<>>
    BY <1>2 DEF AcceptReturns
  <2>2. k = server.backlog[1] /\ 1 \in 1..Len(server.backlog) /\ k \in Conns \cup {Wake}
        /\ rest \in Seq(Conns \cup {Wake}) /\ Len(rest) = Len(server.backlog) - 1
        /\ \A i \in 1..Len(rest) : i + 1 \in 1..Len(server.backlog) /\ rest[i] = server.backlog[i + 1]
    BY <1>0, <2>1
  <2>3. IF server.listening
        THEN server' = [server EXCEPT !.thread = "check", !.backlog = rest] /\ conn' = taken
        ELSE server' = [server EXCEPT !.thread = "check", !.backlog = <<>>] /\ conn' = Reset(taken)
    BY <1>2 DEF AcceptReturns
  <2>4. UNCHANGED <<runtime, main, terminal, requests>>
    BY <1>2 DEF AcceptReturns
  <2> HIDE DEF k, rest
  <2>5. /\ taken \in [Conns -> Connection] /\ \A j \in Conns : Sound(taken[j])
        /\ \A j \in Conns : /\ taken[j].there = conn[j].there /\ taken[j].use = conn[j].use
                            /\ j # k => taken[j] = conn[j]
    <3>1. CASE k = Wake
      BY <1>0, <3>1
    <3>2. CASE k # Wake
      <4>1. k \in Conns /\ conn[k].here = "queued"
        BY <2>2, <3>2 DEF Threads, BacklogWaits
      <4>2. taken = [conn EXCEPT ![k] = [conn[k] EXCEPT !.here = "read"]]
        BY <1>0, <3>2
      <4>3. [conn[k] EXCEPT !.here = "read"] \in Connection /\ Sound([conn[k] EXCEPT !.here = "read"])
        BY <1>0, <4>1 DEF Connection, Sound
      <4> HIDE DEF taken
      <4>4. taken \in [Conns -> Connection] /\ taken[k] = [conn[k] EXCEPT !.here = "read"]
            /\ \A j \in Conns : j # k => taken[j] = conn[j]
        BY <1>0, <4>1, <4>2, <4>3
      <4>5. taken[k].there = conn[k].there /\ taken[k].use = conn[k].use
        BY <1>0, <4>1, <4>4 DEF Connection
      <4> QED
        BY <1>0, <4>3, <4>4, <4>5
    <3> QED
      BY <3>1, <3>2
  <2> HIDE DEF taken
  <2>6. CASE server.listening
    <3>0. server' = [server EXCEPT !.thread = "check", !.backlog = rest] /\ conn' = taken
      BY <2>3, <2>6
    <3>1. TypeOK' /\ conn' = taken /\ server'.backlog = rest
      <4>1. server' \in Server
        BY <2>2, <3>0, ServerTypes DEF TypeOK
      <4>2. server'.backlog = rest
        BY <3>0 DEF TypeOK, Server
      <4> QED
        BY <2>4, <2>5, <3>0, <4>1, <4>2 DEF TypeOK
    <3>2. BacklogWaits'
      <4>1. ASSUME NEW i \in 1..Len(rest), rest[i] # Wake
            PROVE  /\ conn'[rest[i]].here = "queued"
                   /\ \A j \in 1..Len(rest) : rest[j] = rest[i] => i = j
        <5>1. /\ i + 1 \in 1..Len(server.backlog) /\ rest[i] = server.backlog[i + 1]
              /\ rest[i] \in Conns
          BY <2>2, <4>1
        <5>2. /\ conn[server.backlog[i + 1]].here = "queued"
              /\ \A j \in 1..Len(server.backlog) :
                    server.backlog[j] = server.backlog[i + 1] => i + 1 = j
          BY <4>1, <5>1 DEF Threads, BacklogWaits
        <5>3. rest[i] # k
          BY <2>2, <5>1, <5>2
        <5>4. ASSUME NEW j \in 1..Len(rest), rest[j] = rest[i] PROVE i = j
          <6>1. j + 1 \in 1..Len(server.backlog) /\ rest[j] = server.backlog[j + 1]
            BY <2>2, <5>4
          <6>2. server.backlog[j + 1] = server.backlog[i + 1]
            BY <5>1, <5>4, <6>1
          <6>3. i + 1 = j + 1
            BY <5>2, <6>1, <6>2
          <6> QED
            BY <6>3
        <5> QED
          BY <2>5, <3>1, <5>1, <5>2, <5>3, <5>4
      <4> QED
        BY <3>1, <4>1 DEF BacklogWaits
    <3>3. StreamIsHeld'
      BY <2>4, <2>5, <3>1, ServerAssumption DEF TypeOK, Terminal, Threads, StreamIsHeld
    <3> QED
      BY <2>5, <3>1, <3>2, <3>3 DEF Threads
  <2>7. CASE ~server.listening
    <3>1. conn' = Reset(taken) /\ conn' \in [Conns -> Connection]
      BY <2>3, <2>5, <2>7, ResetKeeps
    <3>2. TypeOK' /\ server'.backlog = <<>>
      <4>0. server' = [server EXCEPT !.thread = "check", !.backlog = <<>>]
        BY <2>3, <2>7
      <4>1. server' \in Server
        BY <4>0, ServerTypes DEF TypeOK
      <4>2. server'.backlog = <<>>
        BY <4>0 DEF TypeOK, Server
      <4> QED
        BY <2>4, <3>1, <4>1, <4>2 DEF TypeOK
    <3>3. \A j \in Conns : Sound(conn'[j])
                           /\ (conn[j].there => conn'[j].there /\ conn'[j].use = conn[j].use)
      BY <2>5, <3>1, ResetKeeps
    <3> QED
      BY <2>4, <3>1, <3>2, <3>3, BacklogEmptied
  <2> QED
    BY <2>6, <2>7
<1> QED
  BY <1>1, <1>2 DEF AcceptThread

LEMMA ClientThreads ==
    ASSUME TypeOK, Threads, NEW k \in Conns, ClientThread(k)
    PROVE  TypeOK' /\ Threads'
<1>0. /\ conn \in [Conns -> Connection] /\ conn[k] \in Connection /\ Sound(conn[k])
      /\ runtime \in Frames /\ runtime \in Snapshots /\ NoSnapshot \in Frames
  BY DEF TypeOK, Threads, Frames
<1>1. UNCHANGED <<main, server, terminal, requests>>
  BY DEF ClientThread, Subscribe, Dispatch, Reply, Look, Heartbeat, Send
<1>2. terminal'.stream \in {NoConn, terminal.stream}
      /\ (terminal'.stream = k => conn[k].there /\ conn[k].use = "stream")
  BY <1>1, ServerAssumption DEF Threads, StreamIsHeld
<1>3. ASSUME NEW c \in Connection, Sound(c), c.use = conn[k].use, c.there = conn[k].there,
             conn[k].here # "queued", conn' = [conn EXCEPT ![k] = c], runtime' \in Snapshots
      PROVE  TypeOK' /\ Threads'
  <2>1. conn' \in [Conns -> Connection] /\ Threads'
    BY <1>1, <1>2, <1>3, OneChanges
  <2> QED
    BY <1>1, <1>3, <2>1 DEF TypeOK
<1>4. ASSUME NEW c \in Connection, Sound(c), c.use = conn[k].use, c.there = conn[k].there,
             conn[k].here # "queued", Put(k, c), UNCHANGED runtime
      PROVE  TypeOK' /\ Threads'
  <2>1. conn' \in [Conns -> Connection] /\ Threads'
    BY <1>1, <1>2, <1>4, PutKeeps
  <2> QED
    BY <1>1, <1>4, <2>1 DEF TypeOK
<1>5. CASE Subscribe(k)
  <2> DEFINE c == [conn[k] EXCEPT !.here = "look"]
  <2>1. c \in Connection /\ Sound(c) /\ c.use = conn[k].use /\ c.there = conn[k].there
    BY <1>0, <1>5 DEF Subscribe, Connection, Sound
  <2>2. conn' = [conn EXCEPT ![k] = c] /\ conn[k].here # "queued" /\ UNCHANGED runtime
    BY <1>0, <1>5 DEF Subscribe
  <2> QED
    BY <1>0, <1>3, <2>1, <2>2
<1>6. CASE Dispatch(k)
  <2> DEFINE c(a) == [conn[k] EXCEPT !.here = "reply", !.applied = a]
  <2>1. \A a \in {TRUE, conn[k].applied} :
          c(a) \in Connection /\ Sound(c(a)) /\ c(a).use = conn[k].use /\ c(a).there = conn[k].there
    BY <1>0, <1>6 DEF Dispatch, Connection, Sound
  <2>2. \E a \in {TRUE, conn[k].applied} : conn' = [conn EXCEPT ![k] = c(a)]
    BY <1>0, <1>6 DEF Dispatch, Connection
  <2>3. runtime' \in Snapshots /\ conn[k].here # "queued"
    BY <1>0, <1>6, ChangeMoves DEF Dispatch
  <2> QED
    BY <1>3, <2>1, <2>2, <2>3
<1>7. CASE Reply(k)
  <2> DEFINE c == [conn[k] EXCEPT !.here = "closed",
                     !.inbox = IF conn[k].there THEN Append(@, Answer) ELSE @]
  <2>1. Append(conn[k].inbox, Answer) \in Seq(Frames) /\ Append(conn[k].inbox, Answer) # <<>>
    BY <1>0 DEF Answer, Connection
  <2>2. c \in Connection /\ Sound(c) /\ c.use = conn[k].use /\ c.there = conn[k].there
    BY <1>0, <1>7, <2>1 DEF Reply, Connection, Sound
  <2>3. Put(k, c) /\ conn[k].here # "queued" /\ UNCHANGED runtime
    BY <1>7 DEF Reply
  <2> QED
    BY <1>4, <2>2, <2>3
<1>8. ASSUME conn[k].here \in {"look", "send"}
      PROVE  LET c == Ended(conn[k])
             IN c \in Connection /\ Sound(c) /\ c.use = conn[k].use /\ c.there = conn[k].there
  BY <1>0, <1>8 DEF Ended, Connection, Sound
<1>9. ASSUME conn[k].here = "look", NEW h \in {"look", "send"}
      PROVE  LET c == [conn[k] EXCEPT !.previous = runtime, !.here = h]
             IN c \in Connection /\ Sound(c) /\ c.use = conn[k].use /\ c.there = conn[k].there
  BY <1>0, <1>9 DEF Connection, Sound
<1>10. CASE Look(k)
  <2>1. CASE ~server.running
    BY <1>4, <1>8, <1>10, <2>1 DEF Look
  <2>2. CASE server.running
    <3> DEFINE h == IF EventsBetween(conn[k].previous, runtime) = <<>> THEN "look" ELSE "send"
               c == [conn[k] EXCEPT !.previous = runtime, !.here = h]
    <3>1. conn' = [conn EXCEPT ![k] = c] /\ conn[k].here = "look" /\ UNCHANGED runtime
      BY <1>0, <1>10, <2>2 DEF Look
    <3>2. h \in {"look", "send"}
      OBVIOUS
    <3> HIDE DEF h
    <3> QED
      BY <1>0, <1>3, <1>9, <3>1, <3>2
  <2> QED
    BY <2>1, <2>2
<1>11. CASE Heartbeat(k)
  <2> DEFINE c == [conn[k] EXCEPT !.previous = runtime, !.here = "send"]
  <2>1. conn' = [conn EXCEPT ![k] = c] /\ conn[k].here = "look" /\ UNCHANGED runtime
    BY <1>0, <1>11 DEF Heartbeat
  <2> QED
    BY <1>0, <1>3, <1>9, <2>1
<1>12. CASE Send(k)
  <2>1. CASE ~conn[k].there
    BY <1>4, <1>8, <1>12, <2>1 DEF Send
  <2>2. CASE conn[k].there
    <3> DEFINE c == [conn[k] EXCEPT !.inbox = Append(@, conn[k].previous),
                       !.sent = conn[k].previous, !.here = "look"]
    <3>1. conn' = [conn EXCEPT ![k] = c] /\ conn[k].here = "send" /\ UNCHANGED runtime
      BY <1>0, <1>12, <2>2 DEF Send
    <3>2. /\ Append(conn[k].inbox, conn[k].previous) \in Seq(Frames)
          /\ Append(conn[k].inbox, conn[k].previous) \in Seq(Snapshots)
      BY <1>0, <3>1 DEF Connection, Sound
    <3>3. c \in Connection /\ Sound(c) /\ c.use = conn[k].use /\ c.there = conn[k].there
      BY <1>0, <3>1, <3>2 DEF Connection, Sound
    <3> QED
      BY <1>0, <1>3, <3>1, <3>3
  <2> QED
    BY <2>1, <2>2
<1> QED
  BY <1>5, <1>6, <1>7, <1>10, <1>11, <1>12 DEF ClientThread

\* A new connection joins the backlog, in which nobody had its place.
LEMMA Connects ==
    ASSUME TypeOK, Threads, NEW use \in {"request", "stream"}, Connect(use),
           terminal'.stream \in {terminal.stream, Free},
           terminal'.stream = Free => use = "stream" \/ terminal.stream = Free
    PROVE  /\ Free \in Conns /\ conn[Free] = Idle
           /\ conn' \in [Conns -> Connection] /\ server' \in Server /\ Threads'
           /\ conn'[Free].here = "queued" /\ conn'[Free].inbox = <<>>
           /\ \A j \in Conns : j # Free => conn'[j] = conn[j]
<1> DEFINE c == [Idle EXCEPT !.use = use, !.there = TRUE, !.here = "queued"]
           b == Append(server.backlog, Free)
<1>1. Free \in Conns /\ conn[Free] = Idle
  BY DEF Connect, Free
<1>2. c \in Connection /\ Sound(c) /\ c.here = "queued" /\ c.inbox = <<>> /\ c.there /\ c.use = use
  <2>1. <<>> \in Seq(Frames) /\ <<>> \in Seq(Snapshots)
    OBVIOUS
  <2> QED
    BY <2>1 DEF Idle, Connection, Sound, Frames
<1>3. conn' = [conn EXCEPT ![Free] = c] /\ server' = [server EXCEPT !.backlog = b]
  BY DEF Connect
<1> HIDE DEF c
<1>4. conn \in [Conns -> Connection] /\ server.backlog \in Seq(Conns \cup {Wake}) /\ server \in Server
  BY DEF TypeOK, Server
<1>5. /\ conn' \in [Conns -> Connection] /\ conn'[Free] = c
      /\ \A j \in Conns : j # Free => conn'[j] = conn[j]
  BY <1>1, <1>2, <1>3, <1>4
<1>6. /\ b \in Seq(Conns \cup {Wake}) /\ Len(b) = Len(server.backlog) + 1 /\ b[Len(b)] = Free
      /\ \A i \in 1..Len(server.backlog) : b[i] = server.backlog[i]
      /\ \A i \in 1..Len(b) : i = Len(b) \/ i \in 1..Len(server.backlog)
  BY <1>1, <1>4
<1> HIDE DEF b
<1>7. server' \in Server /\ server'.backlog = b
  BY <1>3, <1>4, <1>6 DEF Server
<1>8. \A i \in 1..Len(server.backlog) :
        /\ server.backlog[i] # Free
        /\ server.backlog[i] # Wake => server.backlog[i] \in Conns
  BY <1>1, <1>4, IdleIsSound, ServerAssumption DEF Threads, BacklogWaits
<1>9. BacklogWaits'
  <2>1. ASSUME NEW i \in 1..Len(b), b[i] # Wake
        PROVE  conn'[b[i]].here = "queued" /\ \A j \in 1..Len(b) : b[j] = b[i] => i = j
    <3>1. CASE i = Len(b)
      BY <1>2, <1>5, <1>6, <1>8, <3>1
    <3>2. CASE i \in 1..Len(server.backlog)
      <4>1. /\ b[i] = server.backlog[i] /\ b[i] # Free /\ b[i] \in Conns
            /\ conn[b[i]].here = "queued"
            /\ \A j \in 1..Len(server.backlog) : server.backlog[j] = b[i] => i = j
        BY <1>6, <1>8, <2>1, <3>2 DEF Threads, BacklogWaits
      <4> QED
        BY <1>5, <1>6, <4>1
    <3> QED
      BY <1>6, <3>1, <3>2
  <2> QED
    BY <1>7, <2>1 DEF BacklogWaits
<1>10. \A j \in Conns : Sound(conn'[j])
  <2>1. ASSUME NEW j \in Conns PROVE Sound(conn'[j])
    <3>1. CASE j = Free
      BY <1>2, <1>5, <3>1
    <3>2. CASE j # Free
      BY <1>5, <3>2 DEF Threads
    <3> QED
      BY <3>1, <3>2
  <2> QED
    BY <2>1
<1>11. StreamIsHeld'
  <2>1. CASE terminal'.stream = Free
    <3>1. terminal.stream # Free
      BY <1>1, IdleIsSound, ServerAssumption DEF Threads, StreamIsHeld
    <3> QED
      BY <1>2, <1>5, <2>1, <3>1 DEF StreamIsHeld
  <2>2. CASE terminal'.stream = terminal.stream /\ terminal.stream # Free
    BY <1>5, <2>2 DEF StreamIsHeld, Threads, TypeOK, Terminal
  <2> QED
    BY <2>1, <2>2
<1> QED
  BY <1>1, <1>2, <1>5, <1>7, <1>9, <1>10, <1>11 DEF Threads

LEMMA TerminalThreads ==
    ASSUME TypeOK, Threads, Request \/ Ingest \/ Draw \/ Quit
    PROVE  TypeOK' /\ Threads'
<1>0. /\ conn \in [Conns -> Connection] /\ \A k \in Conns : Sound(conn[k])
      /\ terminal \in Terminal /\ NoConn \notin Conns /\ requests + 1 \in Nat
  BY ServerAssumption DEF TypeOK, Threads, Terminal
<1>1. CASE Request
  <2>1. Connect("request") /\ UNCHANGED <<runtime, main, terminal>> /\ requests' = requests + 1
    BY <1>1 DEF Request
  <2>2. conn' \in [Conns -> Connection] /\ server' \in Server /\ Threads'
    BY <2>1, Connects
  <2> QED
    BY <1>0, <2>1, <2>2 DEF TypeOK
<1>2. CASE ConnectStream
  <2>1. Connect("stream") /\ UNCHANGED <<runtime, main, requests>>
        /\ terminal' = [terminal EXCEPT !.stream = Free, !.error = FALSE]
    BY <1>2 DEF ConnectStream
  <2>2. terminal'.stream = Free
    BY <1>0, <2>1 DEF Terminal
  <2>3. conn' \in [Conns -> Connection] /\ server' \in Server /\ Threads' /\ Free \in Conns
    BY <2>1, <2>2, Connects
  <2>4. terminal' \in Terminal
    BY <1>0, <2>1, <2>3 DEF Terminal
  <2> QED
    BY <2>1, <2>3, <2>4 DEF TypeOK, Terminal
<1>3. CASE ConnectFails
  BY <1>0, <1>3 DEF ConnectFails, TypeOK, Terminal, Threads, BacklogWaits, StreamIsHeld
<1>4. CASE NextEvent
  <2> DEFINE k == terminal.stream
  <2>1. k \in Conns /\ UNCHANGED <<runtime, main, server, requests>>
    BY <1>0, <1>4 DEF NextEvent, Terminal
  <2>2. conn[k].there /\ conn[k].use = "stream" /\ conn[k].inbox \in Seq(Snapshots)
        /\ Sound(conn[k]) /\ conn[k] \in Connection /\ ~conn[k].applied
    BY <1>0, <2>1 DEF Threads, StreamIsHeld, Sound
  <2>3. CASE /\ conn[k].here = "closed" /\ conn' = [conn EXCEPT ![k] = Idle]
             /\ terminal' = [terminal EXCEPT !.stream = NoConn, !.error = TRUE]
    <3>1. terminal' \in Terminal /\ terminal'.stream = NoConn
      BY <1>0, <2>3 DEF Terminal
    <3>2. conn' \in [Conns -> Connection] /\ Threads'
      BY <1>0, <2>1, <2>3, <3>1, IdleIsSound, OneChanges
    <3> QED
      BY <2>1, <3>1, <3>2 DEF TypeOK, Terminal
  <2>4. CASE /\ conn[k].inbox # <<>> /\ conn' = [conn EXCEPT ![k].inbox = Tail(@)]
             /\ terminal' = [terminal EXCEPT !.ring = Pushed(@, Head(conn[k].inbox))]
    <3> DEFINE c == [conn[k] EXCEPT !.inbox = Tail(@)]
    <3>1. Head(conn[k].inbox) \in Snapshots /\ Tail(conn[k].inbox) \in Seq(Snapshots)
      BY <2>2, <2>4
    <3>2. Tail(conn[k].inbox) \in Seq(Frames)
      BY <2>4, <2>2 DEF Connection
    <3>3. c \in Connection /\ Sound(c) /\ c.there /\ c.use = "stream" /\ c.here = conn[k].here
      BY <2>2, <3>1, <3>2 DEF Connection, Sound
    <3>4. Pushed(terminal.ring, Head(conn[k].inbox)) \in Seq(Snapshots)
      BY <1>0, <3>1, PushedFacts DEF Terminal
    <3>5. terminal' \in Terminal /\ terminal'.stream = k
      BY <1>0, <2>4, <3>4 DEF Terminal
    <3>6. conn' = [conn EXCEPT ![k] = c]
      BY <1>0, <2>1, <2>4
    <3> HIDE DEF c, k
    <3>7. conn' \in [Conns -> Connection] /\ Threads'
      BY <2>1, <3>3, <3>5, <3>6, OneChanges DEF k
    <3> QED
      BY <2>1, <3>5, <3>7 DEF TypeOK, Terminal
  <2> QED
    BY <1>4, <2>3, <2>4 DEF NextEvent
<1>5. CASE Draw
  <2>1. UNCHANGED <<runtime, main, server, conn, requests>>
    BY <1>5 DEF Draw
  <2>2. terminal.ring # <<>> => Last(terminal.ring) \in Snapshots
    BY <1>0 DEF Terminal, Last
  <2>3. terminal' \in Terminal /\ terminal'.stream = terminal.stream
    <3>1. CASE /\ terminal.ring # <<>>
               /\ terminal' = [terminal EXCEPT !.ring = <<>>, !.connected = TRUE,
                                !.view = Last(terminal.ring)]
      <4>1. <<>> \in Seq(Snapshots) /\ Last(terminal.ring) \in Frames
        BY <2>2, <3>1 DEF Frames
      <4> QED
        BY <1>0, <3>1, <4>1 DEF Terminal
    <3>2. CASE terminal' = [terminal EXCEPT !.connected = FALSE]
      BY <1>0, <3>2 DEF Terminal
    <3> QED
      BY <1>5, <3>1, <3>2 DEF Draw
  <2> QED
    BY <2>1, <2>3 DEF TypeOK, Terminal, Threads, BacklogWaits, StreamIsHeld
<1>6. CASE Quit
  <2> DEFINE k == terminal.stream
             c == [conn[k] EXCEPT !.there = FALSE, !.inbox = <<>>]
  <2>1. UNCHANGED <<runtime, main, server, requests>>
    BY <1>6 DEF Quit
  <2>2. terminal' \in Terminal /\ terminal'.stream = NoConn
    <3>1. <<>> \in Seq(Snapshots)
      OBVIOUS
    <3> QED
      BY <1>0, <1>6, <3>1 DEF Quit, Terminal
  <2>3. CASE k = NoConn
    BY <1>6, <2>1, <2>2, <2>3 DEF Quit, TypeOK, Terminal, Threads, BacklogWaits, StreamIsHeld
  <2>4. CASE k # NoConn
    <3>1. k \in Conns /\ Put(k, c)
      BY <1>0, <1>6, <2>4 DEF Quit, Terminal
    <3>2. conn[k].use = "stream"
      BY <2>4 DEF Threads, StreamIsHeld
    <3>3. c \in Connection /\ Sound(c) /\ c.here = conn[k].here
      <4>1. <<>> \in Seq(Frames) /\ <<>> \in Seq(Snapshots) /\ ~conn[k].applied
        BY <1>0, <3>1, <3>2 DEF Sound
      <4>2. conn[k] \in Connection /\ Sound(conn[k])
        BY <1>0, <3>1
      <4>3. c \in Connection /\ c.here = conn[k].here
        BY <4>1, <4>2 DEF Connection
      <4>4. /\ c.use = conn[k].use /\ c.previous = conn[k].previous /\ c.inbox = <<>>
            /\ c.applied = conn[k].applied
        BY <4>2 DEF Connection
      <4> HIDE DEF c, k
      <4>5. Sound(c)
        BY <4>1, <4>2, <4>3, <4>4 DEF Sound
      <4> QED
        BY <4>3, <4>5
    <3> HIDE DEF c
    <3>4. conn' \in [Conns -> Connection] /\ Threads'
      BY <1>0, <2>1, <2>2, <3>1, <3>3, PutKeeps
    <3> QED
      BY <2>1, <2>2, <3>4 DEF TypeOK, Terminal
  <2> QED
    BY <2>3, <2>4
<1> QED
  BY <1>1, <1>2, <1>3, <1>4, <1>5, <1>6 DEF Ingest

LEMMA ReaderThreads ==
    ASSUME TypeOK, Threads, NEW k \in Conns, ReadAnswer(k)
    PROVE  TypeOK' /\ Threads'
<1> DEFINE c == [conn[k] EXCEPT !.there = FALSE]
<1>1. c \in Connection /\ Sound(c) /\ c.here = conn[k].here
  BY DEF TypeOK, Threads, Connection, Sound
<1>2. Put(k, c) /\ UNCHANGED <<runtime, main, server, terminal, requests>>
  BY DEF ReadAnswer
<1>3. terminal.stream # k
  BY ServerAssumption DEF ReadAnswer, Threads, StreamIsHeld
<1> HIDE DEF c
<1>4. conn' \in [Conns -> Connection] /\ Threads'
  BY <1>1, <1>2, <1>3, PutKeeps
<1> QED
  BY <1>2, <1>4 DEF TypeOK

LEMMA StepThreads == TypeOK /\ Threads /\ [Next]_vars => TypeOK' /\ Threads'
<1> SUFFICES ASSUME TypeOK, Threads, [Next]_vars PROVE TypeOK' /\ Threads'
  OBVIOUS
<1>1. CASE Tick
  BY <1>1, ChangeMoves DEF Tick, TypeOK, Threads, BacklogWaits, StreamIsHeld
<1>2. CASE UNCHANGED vars
  BY <1>2 DEF vars, TypeOK, Threads, BacklogWaits, StreamIsHeld
<1> QED
  BY <1>1, <1>2, ProgramThreads, AcceptThreads, ClientThreads, ReaderThreads, TerminalThreads
     DEF Next

-----------------------------------------------------------------------------
(* What each step leaves of the pictures on their way. *)

LEMMA WayTypes ==
    ASSUME TypeOK, Threads
    PROVE  /\ Drawn \in Seq(Snapshots) /\ terminal.ring \in Seq(Snapshots)
           /\ Wire \in Seq(Snapshots) /\ Taken \in Seq(Snapshots)
           /\ runtime \in Snapshots /\ Now = <<runtime>> /\ Now \in Seq(Snapshots)
<1>1. <<>> \in Seq(Snapshots) /\ \A a \in Snapshots : <<a>> \in Seq(Snapshots)
  OBVIOUS
<1>2. terminal.stream # NoConn =>
        /\ conn[terminal.stream].inbox \in Seq(Snapshots)
        /\ conn[terminal.stream].here = "send" => conn[terminal.stream].previous \in Snapshots
  BY DEF TypeOK, Terminal, Threads, StreamIsHeld, Sound
<1> QED
  BY <1>1, <1>2 DEF TypeOK, Terminal, Frames, Drawn, Wire, Taken, Now

\* The terminal does nothing, its stream carries what it carried, and the
\* runtime is what it was or moves on.
LEMMA StreamCarries ==
    ASSUME TypeOK, Threads, PicturesRise, UNCHANGED terminal,
           terminal.stream # NoConn =>
             /\ conn'[terminal.stream].inbox = conn[terminal.stream].inbox
             /\ conn'[terminal.stream].here = "send" =>
                  /\ conn[terminal.stream].here = "send"
                  /\ conn'[terminal.stream].previous = conn[terminal.stream].previous,
           runtime' \in Snapshots, runtime' = runtime \/ Before(runtime, runtime')
    PROVE  PicturesRise'
<1>1. Drawn' = Drawn /\ Wire' = Wire /\ Taken' \in {<<>>, Taken} /\ Now' = <<runtime'>>
  BY DEF Drawn, Wire, Taken, Now
<1>2. /\ Drawn \in Seq(Snapshots) /\ terminal.ring \in Seq(Snapshots)
      /\ Wire \in Seq(Snapshots) /\ Taken \in Seq(Snapshots) /\ <<>> \in Seq(Snapshots)
      /\ runtime \in Snapshots /\ Now = <<runtime>> /\ Now \in Seq(Snapshots)
  BY WayTypes
<1>3. Before(runtime, runtime')
  BY <1>2, BeforeIsAnOrder
<1>4. Ordered(Drawn, terminal.ring, Wire, Taken, <<runtime>>)
  BY <1>2 DEF PicturesRise
<1>5. Ordered(Drawn, terminal.ring, Wire, <<>>, <<runtime>>)
  BY <1>2, <1>4, Loses
<1>6. Ordered(Drawn, terminal.ring, Wire, Taken', <<runtime'>>)
  BY <1>1, <1>2, <1>3, <1>4, <1>5, Moves
<1> QED
  BY <1>1, <1>6 DEF PicturesRise

LEMMA ProgramPictures ==
    ASSUME TypeOK, Threads, PicturesRise, Program
    PROVE  PicturesRise'
<1>0. /\ conn \in [Conns -> Connection] /\ \A k \in Conns : Sound(conn[k])
      /\ terminal.stream \in Conns \cup {NoConn} /\ runtime \in Snapshots
      /\ terminal.stream # NoConn => conn[terminal.stream].there
  BY DEF TypeOK, Terminal, Threads, StreamIsHeld
<1>1. UNCHANGED terminal
  BY DEF Program, Start, Leave, StopGoesOn, WakeAccept, CloseListener, JoinAccept, End, Crash
<1>2. CASE Start
  <2>1. runtime.life \in Nat /\ runtime.life + 1 \in Nat /\ runtime.life < runtime.life + 1
    BY <1>0 DEF Snapshots
  <2>2. runtime' \in Snapshots /\ Before(runtime, runtime')
    BY <1>0, <1>2, <2>1, FreshMoves DEF Start
  <2>3. UNCHANGED conn
    BY <1>2 DEF Start
  <2> QED
    BY <1>1, <2>2, <2>3, StreamCarries
<1>3. CASE Leave \/ WakeAccept \/ JoinAccept
  <2>1. UNCHANGED <<conn, runtime>>
    BY <1>3 DEF Leave, WakeAccept, JoinAccept
  <2> QED
    BY <1>0, <1>1, <2>1, StreamCarries
<1>4. CASE CloseListener
  <2>1. UNCHANGED runtime /\ (UNCHANGED conn \/ conn' = Reset(conn))
    BY <1>4 DEF CloseListener
  <2> QED
    BY <1>0, <1>1, <2>1, ResetKeeps, StreamCarries
<1>5. CASE End
  <2>1. UNCHANGED runtime /\ conn' = Abandoned(conn) /\ \A k \in Conns : conn[k].here # "reply"
    BY <1>5 DEF End, ThreadLives
  <2> QED
    BY <1>0, <1>1, <2>1, AbandonedKeeps, StreamCarries
<1>6. CASE Crash
  <2> DEFINE c == [k \in Conns |-> [conn[k] EXCEPT !.applied = FALSE]]
  <2>1. c \in [Conns -> Connection] /\ \A k \in Conns : Sound(c[k]) /\ ~c[k].applied
    BY <1>0, ForgottenKeeps
  <2>2. \A k \in Conns : c[k].there = conn[k].there /\ c[k].inbox = conn[k].inbox
    BY <1>0, ForgottenKeeps
  <2>3. conn' = Abandoned(c) /\ UNCHANGED runtime
    BY <1>6 DEF Crash
  <2> HIDE DEF c
  <2> QED
    BY <1>0, <1>1, <2>1, <2>2, <2>3, AbandonedKeeps, StreamCarries
<1> QED
  BY <1>2, <1>3, <1>4, <1>5, <1>6 DEF Program, StopGoesOn

LEMMA AcceptPictures ==
    ASSUME TypeOK, Threads, PicturesRise, AcceptThread
    PROVE  PicturesRise'
<1>0. /\ conn \in [Conns -> Connection] /\ \A k \in Conns : Sound(conn[k])
      /\ terminal.stream \in Conns \cup {NoConn} /\ runtime \in Snapshots
      /\ terminal.stream # NoConn => conn[terminal.stream].there
      /\ server.backlog \in Seq(Conns \cup {Wake})
  BY DEF TypeOK, Terminal, Server, Threads, StreamIsHeld
<1>1. UNCHANGED <<terminal, runtime>>
  BY DEF AcceptThread, AcceptChecks, AcceptEnters, AcceptReturns
<1>2. CASE AcceptChecks \/ AcceptEnters
  <2>1. UNCHANGED conn
    BY <1>2 DEF AcceptChecks, AcceptEnters
  <2> QED
    BY <1>0, <1>1, <2>1, StreamCarries
<1>3. CASE AcceptReturns
  <2> DEFINE k == Head(server.backlog)
             taken == IF k = Wake THEN conn ELSE [conn EXCEPT ![k].here = "read"]
  <2>1. server.backlog # <<>> /\ conn' \in {taken, Reset(taken)}
    BY <1>3 DEF AcceptReturns
  <2>2. k \in Conns \cup {Wake} /\ (k # Wake => conn[k].here = "queued")
    BY <1>0, <2>1 DEF Threads, BacklogWaits
  <2> HIDE DEF k
  <2>3. /\ taken \in [Conns -> Connection]
        /\ \A j \in Conns : /\ Sound(taken[j])
                            /\ taken[j].there = conn[j].there /\ taken[j].inbox = conn[j].inbox
                            /\ taken[j].here = "send" => taken[j] = conn[j]
    <3>1. CASE k = Wake
      BY <1>0, <3>1
    <3>2. CASE k # Wake
      <4> DEFINE c == [conn[k] EXCEPT !.here = "read"]
      <4>1. taken = [conn EXCEPT ![k] = c] /\ k \in Conns
        BY <1>0, <2>2, <3>2
      <4>2. c \in Connection /\ Sound(c) /\ c.there = conn[k].there /\ c.inbox = conn[k].inbox
            /\ c.here = "read"
        BY <1>0, <2>2, <3>2, <4>1 DEF Connection, Sound
      <4> HIDE DEF c, taken
      <4>3. taken \in [Conns -> Connection] /\ taken[k] = c
            /\ \A j \in Conns : j # k => taken[j] = conn[j]
        BY <1>0, <4>1, <4>2
      <4> QED
        BY <1>0, <4>2, <4>3
    <3> QED
      BY <3>1, <3>2
  <2> HIDE DEF taken
  <2>4. CASE conn' = taken
    BY <1>0, <1>1, <2>3, <2>4, StreamCarries
  <2>5. CASE conn' = Reset(taken)
    BY <1>0, <1>1, <2>3, <2>5, ResetKeeps, StreamCarries
  <2> QED
    BY <2>1, <2>4, <2>5
<1> QED
  BY <1>2, <1>3 DEF AcceptThread

LEMMA ClientPictures ==
    ASSUME TypeOK, Threads, PicturesRise, TypeOK', NEW k \in Conns, ClientThread(k)
    PROVE  PicturesRise'
<1>0. /\ conn \in [Conns -> Connection] /\ conn[k] \in Connection /\ Sound(conn[k])
      /\ runtime \in Snapshots /\ runtime' \in Snapshots
  BY DEF TypeOK, Threads
<1>1. UNCHANGED terminal
  BY DEF ClientThread, Subscribe, Dispatch, Reply, Look, Heartbeat, Send
<1>2. \A j \in Conns : j # k => conn'[j] = conn[j]
  BY <1>0 DEF ClientThread, Subscribe, Dispatch, Reply, Look, Heartbeat, Send, Put
<1>3. runtime' = runtime \/ Before(runtime, runtime')
  BY ChangeMoves DEF ClientThread, Subscribe, Dispatch, Reply, Look, Heartbeat, Send
<1>4. CASE terminal.stream # k
  BY <1>0, <1>1, <1>2, <1>3, <1>4, StreamCarries DEF TypeOK, Terminal
<1>5. CASE terminal.stream = k
  <2>1. k # NoConn /\ conn[k].there /\ conn[k].use = "stream"
    BY <1>5, ServerAssumption DEF Threads, StreamIsHeld
  <2>2. UNCHANGED runtime
    BY <2>1 DEF ClientThread, Subscribe, Dispatch, Reply, Look, Heartbeat, Send
  <2>3. /\ Drawn \in Seq(Snapshots) /\ terminal.ring \in Seq(Snapshots)
        /\ Wire \in Seq(Snapshots) /\ Taken \in Seq(Snapshots)
        /\ Now = <<runtime>> /\ Now \in Seq(Snapshots)
    BY WayTypes
  <2>4. Wire = conn[k].inbox /\ Ordered(Drawn, terminal.ring, Wire, Taken, <<runtime>>)
    BY <1>5, <2>1, <2>3 DEF Wire, PicturesRise
  <2>5. Drawn' = Drawn /\ UNCHANGED terminal.ring /\ Now' = <<runtime>>
        /\ Wire' = conn'[k].inbox
        /\ Taken' = IF conn'[k].here # "send" THEN <<>> ELSE <<conn'[k].previous>>
    BY <1>1, <1>5, <2>1, <2>2 DEF Drawn, Now, Wire, Taken
  <2>6. CASE Subscribe(k)
    <3>1. conn'[k].inbox = conn[k].inbox /\ conn'[k].here = "look"
      BY <1>0, <2>6 DEF Subscribe, Connection
    <3> QED
      BY <1>0, <1>1, <1>5, <2>2, <3>1, StreamCarries
  <2>7. CASE Look(k) /\ ~server.running
    <3>1. conn'[k] = Ended(conn[k])
      BY <1>0, <2>1, <2>7 DEF Look, Put, Ended
    <3>2. conn'[k].inbox = conn[k].inbox /\ conn'[k].here = "closed"
      BY <1>0, <3>1 DEF Ended, Connection
    <3> QED
      BY <1>0, <1>1, <1>5, <2>2, <3>2, StreamCarries
  <2>8. CASE (Look(k) /\ server.running) \/ Heartbeat(k)
    <3>1. PICK h \in {"look", "send"} : conn' = [conn EXCEPT ![k].previous = runtime, ![k].here = h]
      BY <2>8 DEF Look, Heartbeat
    <3>2. conn'[k].inbox = conn[k].inbox /\ conn'[k].here = h /\ conn'[k].previous = runtime
      BY <1>0, <3>1 DEF Connection
    <3>3. CASE h = "look"
      BY <1>0, <1>1, <1>5, <2>2, <3>2, <3>3, StreamCarries
    <3>4. CASE h = "send"
      <4>1. Ordered(Drawn, terminal.ring, Wire, <<runtime>>, <<runtime>>)
        BY <1>0, <2>3, <2>4, Takes
      <4> QED
        BY <2>4, <2>5, <3>2, <3>4, <4>1, <1>1 DEF PicturesRise
    <3> QED
      BY <3>3, <3>4
  <2>9. CASE Send(k)
    <3> DEFINE a == conn[k].previous
    <3>1. conn[k].here = "send" /\ a \in Snapshots /\ Taken = <<a>>
      BY <1>0, <1>5, <2>1, <2>9 DEF Send, Sound, Taken
    <3>2. conn' = [conn EXCEPT ![k].inbox = Append(@, a), ![k].sent = a, ![k].here = "look"]
      BY <2>1, <2>9 DEF Send
    <3>3. conn'[k].inbox = Append(conn[k].inbox, a) /\ conn'[k].here = "look"
      BY <1>0, <3>2 DEF Connection
    <3> HIDE DEF a
    <3>4. Ordered(Drawn, terminal.ring, Append(Wire, a), <<>>, <<runtime>>)
      BY <2>3, <2>4, <3>1, Writes
    <3> QED
      BY <1>1, <2>4, <2>5, <3>3, <3>4 DEF PicturesRise
  <2>10. ~Dispatch(k) /\ ~Reply(k)
    BY <1>0, <2>1 DEF Dispatch, Reply, Sound
  <2> QED
    BY <2>6, <2>7, <2>8, <2>9, <2>10 DEF ClientThread
<1> QED
  BY <1>4, <1>5

LEMMA TerminalPictures ==
    ASSUME TypeOK, Threads, PicturesRise, Request \/ Ingest \/ Draw \/ Quit
    PROVE  PicturesRise'
<1>0. /\ conn \in [Conns -> Connection] /\ \A k \in Conns : Sound(conn[k])
      /\ terminal \in Terminal /\ NoConn \notin Conns
  BY ServerAssumption DEF TypeOK, Threads
<1>1. UNCHANGED runtime /\ Now' = Now
  BY DEF Request, Ingest, ConnectStream, ConnectFails, NextEvent, Draw, Quit, Now
<1>2. /\ Drawn \in Seq(Snapshots) /\ terminal.ring \in Seq(Snapshots)
      /\ Wire \in Seq(Snapshots) /\ Taken \in Seq(Snapshots)
      /\ runtime \in Snapshots /\ Now \in Seq(Snapshots)
  BY WayTypes
<1>3. Ordered(Drawn, terminal.ring, Wire, Taken, Now)
  BY DEF PicturesRise
<1>4. /\ Ordered(Drawn, terminal.ring, <<>>, <<>>, Now)
      /\ Ordered(Drawn, <<>>, <<>>, <<>>, Now)
  BY <1>2, <1>3, Loses
<1>5. CASE Request
  <2>1. Connect("request") /\ UNCHANGED terminal
    BY <1>5 DEF Request
  <2>2. conn[Free] = Idle /\ \A j \in Conns : j # Free => conn'[j] = conn[j]
    BY <2>1, Connects
  <2>3. terminal.stream # NoConn => terminal.stream \in Conns /\ conn'[terminal.stream] = conn[terminal.stream]
    BY <1>0, <2>2, IdleIsSound DEF Terminal, Threads, StreamIsHeld
  <2> QED
    BY <1>1, <1>2, <2>1, <2>3, StreamCarries
<1>6. CASE ConnectStream
  <2>1. /\ Connect("stream")
        /\ terminal' = [terminal EXCEPT !.stream = Free, !.error = FALSE]
    BY <1>6 DEF ConnectStream
  <2>2. /\ terminal'.stream = Free /\ terminal'.ring = terminal.ring
        /\ terminal'.view = terminal.view
    BY <1>0, <2>1 DEF Terminal
  <2>3. Free \in Conns /\ conn'[Free].here = "queued" /\ conn'[Free].inbox = <<>>
    BY <2>1, <2>2, Connects
  <2>4. Wire' = <<>> /\ Taken' = <<>> /\ Drawn' = Drawn
    BY <1>0, <2>2, <2>3 DEF Wire, Taken, Drawn
  <2> QED
    BY <1>1, <1>4, <2>2, <2>4 DEF PicturesRise
<1>7. CASE ConnectFails
  <2>1. UNCHANGED conn /\ terminal' = [terminal EXCEPT !.error = TRUE]
    BY <1>7 DEF ConnectFails
  <2>2. Wire' = Wire /\ Taken' = Taken /\ Drawn' = Drawn /\ terminal'.ring = terminal.ring
    BY <1>0, <2>1 DEF Terminal, Wire, Taken, Drawn
  <2> QED
    BY <1>1, <1>3, <2>2 DEF PicturesRise
<1>8. CASE NextEvent
  <2> DEFINE k == terminal.stream
  <2>1. k \in Conns /\ k # NoConn /\ conn[k] \in Connection
    BY <1>0, <1>8 DEF NextEvent, Terminal
  <2>2. Wire = conn[k].inbox
    BY <2>1 DEF Wire
  <2>3. CASE terminal' = [terminal EXCEPT !.stream = NoConn, !.error = TRUE]
    <3>1. Wire' = <<>> /\ Taken' = <<>> /\ Drawn' = Drawn /\ terminal'.ring = terminal.ring
      BY <1>0, <2>3 DEF Terminal, Wire, Taken, Drawn
    <3> QED
      BY <1>1, <1>4, <3>1 DEF PicturesRise
  <2>4. CASE /\ conn[k].inbox # <<>> /\ conn' = [conn EXCEPT ![k].inbox = Tail(@)]
             /\ terminal' = [terminal EXCEPT !.ring = Pushed(@, Head(conn[k].inbox))]
    <3> DEFINE e == Head(Wire)
    <3>1. Wire # <<>> /\ e \in Snapshots /\ Tail(Wire) \in Seq(Snapshots)
      BY <1>2, <2>2, <2>4
    <3>2. /\ conn'[k].inbox = Tail(Wire) /\ conn'[k].here = conn[k].here
          /\ conn'[k].previous = conn[k].previous
      BY <1>0, <2>1, <2>2, <2>4 DEF Connection
    <3>3. /\ terminal'.stream = k /\ terminal'.view = terminal.view
          /\ terminal'.ring = Pushed(terminal.ring, e)
      BY <1>0, <2>2, <2>4 DEF Terminal
    <3>4. Wire' = Tail(Wire) /\ Taken' = Taken /\ Drawn' = Drawn
      BY <2>1, <3>2, <3>3 DEF Wire, Taken, Drawn
    <3>5. Ordered(Drawn, Append(terminal.ring, e), Tail(Wire), Taken, Now)
      BY <1>2, <1>3, <3>1, Reads
    <3> HIDE DEF e
    <3>6. Append(terminal.ring, e) \in Seq(Snapshots)
          /\ Pushed(terminal.ring, e) \in Seq(Snapshots)
          /\ PartOf(Pushed(terminal.ring, e), Append(terminal.ring, e))
      <4>1. terminal.ring \in Seq(Snapshots) /\ e \in Snapshots
        BY <1>2, <3>1
      <4> HIDE DEF k
      <4>2. Append(terminal.ring, e) \in Seq(Snapshots)
        BY <4>1
      <4> QED
        BY <4>1, <4>2, PushedFacts
    <3>7. Ordered(Drawn, Pushed(terminal.ring, e), Tail(Wire), Taken, Now)
      BY <1>2, <3>1, <3>5, <3>6, Overflows
    <3> QED
      BY <1>1, <3>3, <3>4, <3>7 DEF PicturesRise
  <2> QED
    BY <1>8, <2>3, <2>4 DEF NextEvent
<1>9. CASE Draw
  <2>0. UNCHANGED conn
    BY <1>9 DEF Draw
  <2>1. CASE /\ terminal.ring # <<>>
             /\ terminal' = [terminal EXCEPT !.ring = <<>>, !.connected = TRUE,
                              !.view = Last(terminal.ring)]
    <3>1. /\ terminal'.ring = <<>> /\ terminal'.view = Last(terminal.ring)
          /\ terminal'.stream = terminal.stream
      BY <1>0, <2>1 DEF Terminal
    <3>2. Wire' = Wire /\ Taken' = Taken /\ Drawn' \in {<<>>, <<Last(terminal.ring)>>}
      BY <2>0, <3>1 DEF Wire, Taken, Drawn
    <3>3. /\ Ordered(<<Last(terminal.ring)>>, <<>>, Wire, Taken, Now)
          /\ Ordered(<<>>, <<>>, Wire, Taken, Now)
      BY <1>2, <1>3, <2>1, Draws
    <3> QED
      BY <1>1, <3>1, <3>2, <3>3 DEF PicturesRise
  <2>2. CASE terminal' = [terminal EXCEPT !.connected = FALSE]
    <3>1. Wire' = Wire /\ Taken' = Taken /\ Drawn' = Drawn /\ terminal'.ring = terminal.ring
      BY <1>0, <2>0, <2>2 DEF Terminal, Wire, Taken, Drawn
    <3> QED
      BY <1>1, <1>3, <3>1 DEF PicturesRise
  <2> QED
    BY <1>9, <2>1, <2>2 DEF Draw
<1>10. CASE Quit
  <2>1. terminal' = [terminal EXCEPT !.on = FALSE, !.stream = NoConn, !.ring = <<>>]
    BY <1>10 DEF Quit
  <2>2. Wire' = <<>> /\ Taken' = <<>> /\ Drawn' = Drawn /\ terminal'.ring = <<>>
    BY <1>0, <2>1 DEF Terminal, Wire, Taken, Drawn
  <2> QED
    BY <1>1, <1>4, <2>2 DEF PicturesRise
<1> QED
  BY <1>5, <1>6, <1>7, <1>8, <1>9, <1>10 DEF Ingest

LEMMA ReaderPictures ==
    ASSUME TypeOK, Threads, PicturesRise, NEW k \in Conns, ReadAnswer(k)
    PROVE  PicturesRise'
<1>1. conn \in [Conns -> Connection] /\ terminal.stream \in Conns \cup {NoConn} /\ runtime \in Snapshots
  BY DEF TypeOK, Terminal
<1>2. terminal.stream # k
  BY ServerAssumption DEF ReadAnswer, Threads, StreamIsHeld
<1>3. UNCHANGED <<runtime, terminal>> /\ \A j \in Conns : j # k => conn'[j] = conn[j]
  BY <1>1 DEF ReadAnswer, Put
<1> QED
  BY <1>1, <1>2, <1>3, StreamCarries

LEMMA StepPictures ==
    ASSUME TypeOK, Threads, PicturesRise, TypeOK', [Next]_vars
    PROVE  PicturesRise'
<1>1. CASE Tick
  <2>1. Change /\ UNCHANGED <<terminal, conn>>
    BY <1>1 DEF Tick
  <2> QED
    BY <2>1, ChangeMoves, StreamCarries
<1>2. CASE UNCHANGED vars
  <2>1. UNCHANGED <<terminal, conn, runtime>> /\ runtime \in Snapshots
    BY <1>2 DEF vars, TypeOK
  <2> QED
    BY <2>1, StreamCarries
<1> QED
  BY <1>1, <1>2, ProgramPictures, AcceptPictures, ClientPictures, ReaderPictures, TerminalPictures
     DEF Next

-----------------------------------------------------------------------------
(* The server's theorems. *)

LEMMA InitServer == Init => IInv
<1> SUFFICES ASSUME Init PROVE IInv
  OBVIOUS
<1>1. TypeOK
  <2>1. Fresh(0) \in Snapshots /\ <<>> \in Seq(Snapshots)
    BY FreshMoves
  <2>2. NewTerminal \in Terminal
    BY <2>1 DEF NewTerminal, Terminal, Frames
  <2>3. [k \in Conns |-> Idle] \in [Conns -> Connection]
    BY IdleIsSound
  <2> QED
    BY <2>1, <2>2, <2>3, ServerTypes DEF Init, TypeOK
<1>2. terminal.stream = NoConn /\ terminal.view = NoSnapshot /\ terminal.ring = <<>>
  BY DEF Init, NewTerminal
<1>3. Threads
  <2>1. server.backlog = <<>>
    BY DEF Init, Off
  <2>2. BacklogWaits
    BY <2>1 DEF BacklogWaits
  <2> QED
    BY <1>2, <2>2, IdleIsSound DEF Init, Threads, StreamIsHeld
<1>4. PicturesRise
  <2>1. Drawn = <<>> /\ Wire = <<>> /\ Taken = <<>> /\ Now \in Seq(Snapshots)
    BY <1>1, <1>2 DEF TypeOK, Drawn, Wire, Taken, Now
  <2> QED
    BY <1>2, <2>1, Nothing DEF PicturesRise, Ordered
<1> QED
  BY <1>1, <1>3, <1>4 DEF IInv

LEMMA ServerHolds == Spec => []IInv
<1>1. IInv /\ [Next]_vars => IInv'
  BY StepThreads, StepPictures DEF IInv
<1> QED
  BY <1>1, InitServer, PTL DEF Spec

(* What the threads and the clients of the server rely on: a connection in   *)
(* the backlog waits there once, the thread of a stream sends snapshots only, *)
(* and only the thread of a request owes an answer (acceptLoop, serveClient). *)
THEOREM ConnectionsStaySound == Spec => [](TypeOK /\ Threads)
<1>1. IInv => TypeOK /\ Threads
  BY DEF IInv
<1> QED
  BY <1>1, ServerHolds, PTL

(* Whoever gets no answer may take it that the command was not applied, with *)
(* any number of connections and however the program ends, stop() or a kill. *)
THEOREM AppliedStaysAnswered == Spec => []AppliedIsAnswered
<1>1. IInv => AppliedIsAnswered
  BY DEF IInv, Threads, Sound, AppliedIsAnswered
<1> QED
  BY <1>1, ServerHolds, PTL

(* A terminal never goes back, over lost streams, overflows of the ring and  *)
(* restarts of the program, whatever the sizes of the sockets and the ring.  *)
THEOREM PicturesStayInOrder == Spec => []PicturesComeInOrder
<1>1. IInv => PicturesComeInOrder
  BY WayTypes, PicturesRiseInOrder DEF IInv, Threads
<1> QED
  BY <1>1, ServerHolds, PTL

(* What a terminal shows never goes back: a picture drawn later is of the    *)
(* same state or of a later one (runTuiAppFromArgv drains its events).       *)
NeverBack == [][terminal.view # NoSnapshot => Before(terminal.view, terminal'.view)]_vars

THEOREM PictureNeverGoesBack == Spec => NeverBack
<1>1. IInv /\ [Next]_vars =>
        [terminal.view # NoSnapshot => Before(terminal.view, terminal'.view)]_vars
  <2> SUFFICES ASSUME IInv, Next, terminal.view # NoSnapshot
               PROVE  Before(terminal.view, terminal'.view)
    OBVIOUS
  <2>0. /\ terminal \in Terminal /\ terminal.view \in Snapshots
        /\ terminal.ring \in Seq(Snapshots) /\ Drawn = <<terminal.view>>
    BY DEF IInv, TypeOK, Terminal, Frames, Drawn
  <2>1. CASE terminal'.view = terminal.view
    BY <2>0, <2>1, BeforeIsAnOrder
  <2>2. CASE Draw /\ terminal.ring # <<>>
    <3>1. terminal'.view = Last(terminal.ring)
      BY <2>0, <2>2 DEF Draw, Terminal
    <3>2. Len(terminal.ring) \in 1..Len(terminal.ring) /\ Last(terminal.ring) = terminal.ring[Len(terminal.ring)]
      BY <2>0, <2>2 DEF Last
    <3> QED
      BY <2>0, <3>1, <3>2 DEF IInv, PicturesRise, Ordered, Below
  <2>3. ~(Draw /\ terminal.ring # <<>>) => terminal'.view = terminal.view
    BY <2>0 DEF Next, Program, Start, Leave, StopGoesOn, WakeAccept, CloseListener, JoinAccept,
         End, Crash, Tick, AcceptThread, AcceptChecks, AcceptEnters, AcceptReturns, ClientThread,
         Subscribe, Dispatch, Reply, Look, Heartbeat, Send, ReadAnswer, Request, Ingest,
         ConnectStream, ConnectFails, NextEvent, Draw, Quit, Terminal
  <2> QED
    BY <2>1, <2>2, <2>3
<1> QED
  BY <1>1, ServerHolds, PTL DEF Spec, NeverBack

-----------------------------------------------------------------------------
(* The equaliser, for any bands, presets, effects and numbers that satisfy   *)
(* PresetAssumption.                                                         *)

CONSTANTS Bands, Presets, Gains, Custom, Flat, Effects, Intensity, NoEffect, Inputs, MaxInt

VARIABLES eq, chain, backend, engine

Eq == INSTANCE EqRuntime WITH Off <- NoEffect

EqInv == Eq!TypeOK /\ Eq!HeardAsShown /\ Eq!NameIsTrue

LEMMA ClampFacts == \A g \in Int : Eq!Clamp(g) \in Eq!Gain
  BY DEF Eq!Clamp, Eq!Gain

\* Any state that a command applies reaches all copies of the profile.
LEMMA ApplyIsHeard == \A e : Eq!HeardAsShown /\ Eq!ApplyToPlayback(e) => Eq!HeardAsShown' /\ eq' = e
  BY DEF Eq!HeardAsShown, Eq!ApplyToPlayback

LEMMA ZeroedIsFine ==
    ASSUME Eq!PresetAssumption, Eq!TypeOK, Eq!HeardAsShown, Eq!ApplyToPlayback(Eq!Zeroed(eq))
    PROVE  EqInv'
<1>1. Eq!HeardAsShown' /\ eq' = Eq!Zeroed(eq)
  BY ApplyIsHeard
<1>2. Eq!Clamp(0) = 0 /\ 0 \in Eq!Gain
  BY DEF Eq!Clamp, Eq!Gain
<1>3. Eq!TypeOK'
  BY <1>1, <1>2 DEF Eq!TypeOK, Eq!Zeroed, Eq!Names
<1>4. eq'.preset = Flat /\ eq'.bands = [b \in Bands |-> 0]
  BY <1>1 DEF Eq!TypeOK, Eq!Zeroed
<1>5. Eq!NameIsTrue'
  BY <1>2, <1>4 DEF Eq!NameIsTrue, Eq!PresetAssumption
<1> QED
  BY <1>1, <1>3, <1>5 DEF EqInv

LEMMA MovedIsFine ==
    ASSUME Eq!TypeOK, Eq!HeardAsShown, NEW b \in Bands, NEW gain \in Int, Eq!ApplyToPlayback(Eq!Moved(b, gain))
    PROVE  EqInv'
<1>1. Eq!HeardAsShown' /\ eq' = Eq!Moved(b, gain)
  BY ApplyIsHeard
<1>2. [eq.bands EXCEPT ![b] = Eq!Clamp(gain)] \in [Bands -> Eq!Gain]
  BY ClampFacts DEF Eq!TypeOK
<1>3. Eq!TypeOK' /\ eq'.preset = Custom
  BY <1>1, <1>2 DEF Eq!TypeOK, Eq!Moved, Eq!Names, Eq!HasNonZeroGain
<1> QED
  BY <1>1, <1>3 DEF EqInv, Eq!NameIsTrue

LEMMA PresetIsFine ==
    ASSUME Eq!PresetAssumption, Eq!TypeOK, Eq!HeardAsShown, NEW n \in DOMAIN Presets,
           Eq!ApplyToPlayback(Eq!Preset(Presets[n]))
    PROVE  EqInv'
<1> DEFINE bands == [b \in Bands |-> Eq!Clamp(Gains[Presets[n]][b])]
<1>1. Eq!HeardAsShown' /\ eq' = Eq!Preset(Presets[n])
  BY ApplyIsHeard
<1>2. \A b \in Bands : Gains[Presets[n]][b] \in Int
  BY DEF Eq!PresetAssumption
<1>3. bands \in [Bands -> Eq!Gain]
  BY <1>2, ClampFacts
<1>4. eq' = [eq EXCEPT !.bands = bands, !.preset = Presets[n], !.enabled = Eq!HasNonZeroGain(bands)]
  BY <1>1 DEF Eq!Preset
<1> HIDE DEF bands
<1>5. Eq!TypeOK' /\ eq'.preset = Presets[n] /\ eq'.bands = bands
  BY <1>3, <1>4 DEF Eq!TypeOK, Eq!Names, Eq!HasNonZeroGain
<1>6. Eq!NameIsTrue'
  BY <1>5 DEF Eq!NameIsTrue, bands
<1> QED
  BY <1>1, <1>5, <1>6 DEF EqInv

LEMMA StepEq == Eq!PresetAssumption /\ EqInv /\ [Eq!Next]_(Eq!vars) => EqInv'
<1> SUFFICES ASSUME Eq!PresetAssumption, Eq!TypeOK, Eq!HeardAsShown, Eq!NameIsTrue, [Eq!Next]_(Eq!vars) PROVE EqInv'
  BY DEF EqInv
<1>1. CASE Eq!SetEnabled
  <2>1. PICK on \in BOOLEAN : Eq!ApplyToPlayback([eq EXCEPT !.enabled = on])
    BY <1>1 DEF Eq!SetEnabled
  <2>2. Eq!HeardAsShown' /\ eq' = [eq EXCEPT !.enabled = on]
    BY <2>1, ApplyIsHeard
  <2> QED
    BY <2>2 DEF EqInv, Eq!TypeOK, Eq!NameIsTrue
<1>2. CASE Eq!SetBand
  BY <1>2, MovedIsFine DEF Eq!SetBand
<1>3. CASE Eq!AdjustBand
  <2>1. PICK b \in Bands, d \in Inputs \cap Int : \E gain \in Eq!Sums(eq.bands[b], d) :
          Eq!ApplyToPlayback(Eq!Moved(b, gain))
    BY <1>3 DEF Eq!AdjustBand
  <2>2. Eq!Sums(eq.bands[b], d) \subseteq Int
    BY DEF Eq!Sums, Eq!Ints, Eq!TypeOK, Eq!Gain
  <2> QED
    BY <2>1, <2>2, MovedIsFine
<1>4. CASE Eq!ApplyPreset
  BY <1>4, PresetIsFine DEF Eq!ApplyPreset
<1>5. CASE Eq!CyclePreset
  <2>1. PICK d \in Inputs \cap Int : \E sum \in Eq!Sums(Eq!IndexOf(eq.preset) - 1, d) :
          Eq!ApplyToPlayback(Eq!Preset(Presets[(sum % Len(Presets)) + 1]))
    BY <1>5 DEF Eq!CyclePreset
  <2>2. PICK sum \in Eq!Sums(Eq!IndexOf(eq.preset) - 1, d) :
          Eq!ApplyToPlayback(Eq!Preset(Presets[(sum % Len(Presets)) + 1]))
    BY <2>1
  <2>3. Presets # <<>> /\ DOMAIN Presets = 1..Len(Presets) /\ Len(Presets) \in Nat \ {0}
    BY <1>5 DEF Eq!CyclePreset, Eq!PresetAssumption
  <2>4. Eq!IndexOf(eq.preset) \in Int
    BY <2>3 DEF Eq!IndexOf
  <2>5. sum \in Int
    BY <2>2, <2>4 DEF Eq!Sums, Eq!Ints
  <2>6. (sum % Len(Presets)) + 1 \in DOMAIN Presets
    BY <2>3, <2>5
  <2> QED
    BY <2>2, <2>6, PresetIsFine
<1>6. CASE Eq!CycleAudioEffect
  <2>1. PICK d \in Inputs \cap Int : \E sum \in Eq!Sums(Eq!EffectIndex, IF d = 0 THEN 1 ELSE d) :
          Eq!ApplyToPlayback(Eq!WithEffect(sum % (Len(Effects) + 1)))
    BY <1>6 DEF Eq!CycleAudioEffect
  <2> PICK sum \in Eq!Sums(Eq!EffectIndex, IF d = 0 THEN 1 ELSE d) :
          Eq!ApplyToPlayback(Eq!WithEffect(sum % (Len(Effects) + 1)))
    BY <2>1
  <2>2. DOMAIN Effects = 1..Len(Effects) /\ Len(Effects) \in Nat
    BY DEF Eq!PresetAssumption
  <2>3. Eq!EffectIndex \in Int
    BY <2>2 DEF Eq!EffectIndex
  <2>4. sum \in Int
    BY <2>3 DEF Eq!Sums, Eq!Ints
  <2> DEFINE n == sum % (Len(Effects) + 1)
  <2>5. n = 0 \/ n \in DOMAIN Effects
    BY <2>2, <2>4
  <2>6. Eq!HeardAsShown' /\ eq' = Eq!WithEffect(n)
    BY ApplyIsHeard
  <2> HIDE DEF n
  <2>7. Eq!TypeOK' /\ eq'.preset = eq.preset /\ eq'.bands = eq.bands
    BY <2>5, <2>6 DEF Eq!WithEffect, Eq!TypeOK, Eq!EffectIds, Eq!Intensities
  <2> QED
    BY <2>6, <2>7 DEF EqInv, Eq!NameIsTrue
<1>7. CASE Eq!Reset
  BY <1>7, ZeroedIsFine DEF Eq!Reset
<1>8. CASE Eq!Start \/ Eq!Stop
  BY <1>8 DEF Eq!Start, Eq!Stop, EqInv, Eq!TypeOK, Eq!HeardAsShown, Eq!NameIsTrue
<1>9. CASE UNCHANGED Eq!vars
  BY <1>9 DEF Eq!vars, EqInv, Eq!TypeOK, Eq!HeardAsShown, Eq!NameIsTrue
<1> QED
  BY <1>1, <1>2, <1>3, <1>4, <1>5, <1>6, <1>7, <1>8, <1>9 DEF Eq!Next

LEMMA InitEq == Eq!PresetAssumption /\ Eq!Init => EqInv
<1> SUFFICES ASSUME Eq!PresetAssumption, Eq!Init PROVE EqInv
  OBVIOUS
<1>1. Eq!Clamp(0) = 0 /\ 0 \in Eq!Gain
  BY DEF Eq!Clamp, Eq!Gain
<1>2. Eq!TypeOK /\ Eq!HeardAsShown
  BY <1>1 DEF Eq!Init, Eq!TypeOK, Eq!HeardAsShown, Eq!Names, Eq!EffectIds, Eq!Intensities
<1>3. Eq!NameIsTrue
  BY <1>1 DEF Eq!Init, Eq!NameIsTrue, Eq!PresetAssumption
<1> QED
  BY <1>2, <1>3 DEF EqInv

LEMMA EqHolds == Eq!PresetAssumption => (Eq!Spec => []EqInv)
<1> SUFFICES ASSUME Eq!PresetAssumption PROVE Eq!Spec => []EqInv
  OBVIOUS
<1>1. Eq!Init => EqInv
  BY InitEq
<1>2. EqInv /\ [Eq!Next]_(Eq!vars) => EqInv'
  BY StepEq
<1> QED
  BY <1>1, <1>2, PTL DEF Eq!Spec

(* The gains stay within what the profile can hold, whatever numbers the     *)
(* commands carry and however their sums overflow (setBand, adjustBand).     *)
THEOREM GainsStayInRange == Eq!PresetAssumption => (Eq!Spec => []Eq!TypeOK)
<1>1. EqInv => Eq!TypeOK
  BY DEF EqInv
<1> QED
  BY <1>1, EqHolds, PTL

(* What is heard is what clients are shown: no order of commands, starts     *)
(* that fail and stops lets a copy of the profile fall behind                *)
(* (applyToPlayback, startFile, playArgument).                               *)
THEOREM HeardStaysAsShown == Eq!PresetAssumption => (Eq!Spec => []Eq!HeardAsShown)
<1>1. EqInv => Eq!HeardAsShown
  BY DEF EqInv
<1> QED
  BY <1>1, EqHolds, PTL

(* Bands shown under the name of a preset are its own (setBand, applyPreset, *)
(* reset).                                                                   *)
THEOREM NamesStayTrue == Eq!PresetAssumption => (Eq!Spec => []Eq!NameIsTrue)
<1>1. EqInv => Eq!NameIsTrue
  BY DEF EqInv
<1> QED
  BY <1>1, EqHolds, PTL
=============================================================================
