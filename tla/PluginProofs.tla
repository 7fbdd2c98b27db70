---------------------------- MODULE PluginProofs ----------------------------
(***************************************************************************)
(* Proofs about PluginRuntime, for any callers, restarts and pipe: a       *)
(* caller gets its own answer or none, and every helper that lives is      *)
(* known to its host.  The second part is about PluginDiscovery.           *)
(***************************************************************************)
EXTENDS PluginRuntime, SequenceTheorems, TLAPS

Kinds == {"none", "ready", "noise", "value", "error", "list", "long", "rest"}
\* Lines that answer no request have no number.
Lines == {x \in [kind : Kinds, id : Nat] : x.kind \in {"none", "ready", "noise"} => x.id = 0}
Places == {"idle", "wants", "greet", "greetAgain", "reap", "number", "write", "writeAgain",
           "read"}
Numbered == {"greetAgain", "write", "writeAgain", "read"}
Calls == [at : Places, id : Nat, got : Lines]
Helpers == [lives : BOOLEAN, serves : BOOLEAN, told : BOOLEAN]
Hosts == [pid : BOOLEAN, buffer : {"empty", "line", "long"}, restarts : Nat,
          minute : {"none", "runs", "over"}, next : Nat \ {0}]

\* A request has a number, which is not 0, and its caller has no answer yet.
Pending(k) ==
    /\ k.at \in Numbered => k.id # 0
    /\ k.at # "idle" => k.got = NoLine

Own(k) == k.got # NoLine => k.got.id = k.id /\ k.got.kind = "value"

Typed ==
    /\ host \in Hosts
    /\ helper \in Helpers
    /\ input \in Seq(Nat) /\ output \in Seq(Lines)
    /\ call \in [Callers -> Calls]

Sound ==
    /\ Typed
    /\ HelperIsKnown
    /\ \A c \in Callers : Pending(call[c]) /\ Own(call[c])

-----------------------------------------------------------------------------
(* Steps of one caller.                                                    *)

LEMMA NoLineIsLine == NoLine \in Lines
  BY DEF NoLine, Lines, Kinds

LEMMA EmptyIsTyped == <<>> \in Seq(Nat) /\ <<>> \in Seq(Lines)
  OBVIOUS

\* The others stay as they are.
LEMMA OneCallChanges ==
    ASSUME Sound, NEW c \in Callers, NEW k \in Calls, Pending(k), Own(k),
           call' = [call EXCEPT ![c] = k]
    PROVE  call' \in [Callers -> Calls] /\ \A d \in Callers : Pending(call'[d]) /\ Own(call'[d])
  BY DEF Sound, Typed

\* Only its place changes.
LEMMA CallMoves ==
    ASSUME Sound, NEW c \in Callers, NEW at \in Places,
           call[c].at # "idle", at \in Numbered => call[c].at \in Numbered,
           call' = [call EXCEPT ![c].at = at]
    PROVE  call' \in [Callers -> Calls] /\ \A d \in Callers : Pending(call'[d]) /\ Own(call'[d])
  <1> DEFINE k == [call[c] EXCEPT !.at = at]
  <1>1. call[c] \in Calls /\ Pending(call[c]) /\ Own(call[c])
    BY DEF Sound, Typed
  <1>2. k \in Calls /\ Pending(k) /\ Own(k)
    BY <1>1 DEF Calls, Pending, Own
  <1>3. call' = [call EXCEPT ![c] = k]
    OBVIOUS
  <1> HIDE DEF k
  <1> QED
    BY <1>2, <1>3, OneCallChanges

LEMMA ReturnsIsSound ==
    ASSUME Sound, NEW c \in Callers, NEW line \in Lines, Returns(c, line),
           line # NoLine => line.id = call[c].id /\ line.kind = "value"
    PROVE  call' \in [Callers -> Calls] /\ \A d \in Callers : Pending(call'[d]) /\ Own(call'[d])
  <1> DEFINE k == [call[c] EXCEPT !.at = "idle", !.got = line]
  <1>1. call[c] \in Calls
    BY DEF Sound, Typed
  <1>2. k \in Calls /\ Pending(k) /\ Own(k)
    BY <1>1 DEF Calls, Places, Numbered, Pending, Own
  <1>3. call' = [call EXCEPT ![c] = k]
    BY DEF Returns
  <1> HIDE DEF k
  <1> QED
    BY <1>2, <1>3, OneCallChanges

LEMMA NoHelperIsHelper == NoHelper \in Helpers /\ ~NoHelper.lives
  BY DEF NoHelper, Helpers

LEMMA TellIsSound ==
    ASSUME Sound, Tell
    PROVE  /\ host' \in Hosts /\ helper' \in Helpers
           /\ input' \in Seq(Nat) /\ output' \in Seq(Lines) /\ HelperIsKnown'
  <1>1. helper \in Helpers
    BY DEF Sound, Typed
  <1>2. helper' \in Helpers /\ helper'.lives = helper.lives
    BY <1>1 DEF Tell, Helpers
  <1> QED
    BY <1>2 DEF Sound, Typed, Tell, HelperIsKnown

LEMMA ForgetIsSound ==
    ASSUME Sound, Forget
    PROVE  /\ host' \in Hosts /\ helper' \in Helpers
           /\ input' \in Seq(Nat) /\ output' \in Seq(Lines) /\ HelperIsKnown'
  <1>1. host' \in Hosts
    BY DEF Sound, Typed, Forget, Hosts
  <1> QED
    BY <1>1, NoHelperIsHelper, EmptyIsTyped DEF Forget, HelperIsKnown

LEMMA SpawnIsSound ==
    ASSUME Sound, NEW c \in Callers, NEW at \in Places, NEW counted \in Hosts,
           call[c].at # "idle", at \in Numbered => call[c].at \in Numbered, Spawn(c, at, counted)
    PROVE  Sound'
  <1>1. host' \in Hosts /\ helper' \in Helpers /\ HelperIsKnown'
    BY NoHelperIsHelper DEF Spawn, Hosts, Helpers, HelperIsKnown
  <1>2. call' \in [Callers -> Calls] /\ \A d \in Callers : Pending(call'[d]) /\ Own(call'[d])
    BY CallMoves DEF Spawn
  <1> QED
    BY <1>1, <1>2, EmptyIsTyped DEF Spawn, Sound, Typed

LEMMA AskIsSound == ASSUME Sound, NEW c \in Callers, Ask(c) PROVE Sound'
  <1> DEFINE k == [at |-> "wants", id |-> 0, got |-> NoLine]
  <1>1. k \in Calls /\ Pending(k) /\ Own(k)
    BY NoLineIsLine DEF Calls, Places, Numbered, Pending, Own
  <1>2. call' = [call EXCEPT ![c] = k]
    BY DEF Ask
  <1> HIDE DEF k
  <1>3. call' \in [Callers -> Calls] /\ \A d \in Callers : Pending(call'[d]) /\ Own(call'[d])
    BY <1>1, <1>2, OneCallChanges
  <1> QED
    BY <1>3 DEF Ask, Sound, Typed, HelperIsKnown

LEMMA EnterIsSound == ASSUME Sound, NEW c \in Callers, Enter(c) PROVE Sound'
  <1>1. CASE host.pid
    <2>1. call' = [call EXCEPT ![c].at = "number"] /\ UNCHANGED <<host, helper, input, output>>
      BY <1>1 DEF Enter
    <2>2. call' \in [Callers -> Calls] /\ \A d \in Callers : Pending(call'[d]) /\ Own(call'[d])
      BY <2>1, CallMoves DEF Enter, Places, Numbered
    <2> QED
      BY <2>1, <2>2 DEF Sound, Typed, HelperIsKnown
  <1>2. CASE ~host.pid
    <2>1. Spawn(c, "greet", host)
      BY <1>2 DEF Enter
    <2> QED
      BY <2>1, SpawnIsSound DEF Enter, Sound, Typed, Places, Numbered
  <1> QED
    BY <1>1, <1>2

LEMMA GreetsIsSound == ASSUME Sound, NEW c \in Callers, Greets(c) PROVE Sound'
  <1>1. CASE output # <<>> /\ Head(output).kind = "ready"
    <2> DEFINE at == IF call[c].at = "greet" THEN "number" ELSE "writeAgain"
    <2>1. /\ output' = Tail(output) /\ call' = [call EXCEPT ![c].at = at]
          /\ UNCHANGED <<host, helper, input>>
      BY <1>1 DEF Greets
    <2>2. at \in Places /\ (at \in Numbered => call[c].at \in Numbered) /\ call[c].at # "idle"
      BY DEF Greets, Places, Numbered
    <2> HIDE DEF at
    <2>3. call' \in [Callers -> Calls] /\ \A d \in Callers : Pending(call'[d]) /\ Own(call'[d])
      BY <2>1, <2>2, CallMoves
    <2>4. output' \in Seq(Lines)
      BY <1>1, <2>1 DEF Sound, Typed
    <2> QED
      BY <2>1, <2>3, <2>4 DEF Sound, Typed, HelperIsKnown
  <1>2. CASE ~(output # <<>> /\ Head(output).kind = "ready")
    <2>1. Tell /\ call' = [call EXCEPT ![c].at = "reap"]
      BY <1>2 DEF Greets
    <2>2. call' \in [Callers -> Calls] /\ \A d \in Callers : Pending(call'[d]) /\ Own(call'[d])
      BY <2>1, CallMoves DEF Greets, Places, Numbered
    <2> QED
      BY <2>1, <2>2, TellIsSound DEF Sound, Typed
  <1> QED
    BY <1>1, <1>2

LEMMA ReapsIsSound == ASSUME Sound, NEW c \in Callers, Reaps(c) PROVE Sound'
  BY ForgetIsSound, ReturnsIsSound, NoLineIsLine DEF Reaps, Sound, Typed

LEMMA NumberIsSound == ASSUME Sound, NEW c \in Callers, Number(c) PROVE Sound'
  <1> DEFINE k == [call[c] EXCEPT !.at = "write", !.id = host.next]
  <1>1. call[c] \in Calls /\ Pending(call[c]) /\ call[c].at = "number" /\ host.next \in Nat \ {0}
    BY DEF Number, Sound, Typed, Hosts
  <1>2. k \in Calls /\ Pending(k) /\ Own(k)
    BY <1>1 DEF Calls, Places, Numbered, Pending, Own
  <1>3. call' = [call EXCEPT ![c] = k]
    BY DEF Number
  <1> HIDE DEF k
  <1>4. call' \in [Callers -> Calls] /\ \A d \in Callers : Pending(call'[d]) /\ Own(call'[d])
    BY <1>2, <1>3, OneCallChanges
  <1>5. host' \in Hosts /\ host'.pid = host.pid
    BY DEF Number, Sound, Typed, Hosts
  <1> QED
    BY <1>4, <1>5 DEF Number, Sound, Typed, HelperIsKnown

LEMMA WriteIsSound == ASSUME Sound, NEW c \in Callers, Write(c) PROVE Sound'
  <1>1. call' \in [Callers -> Calls] /\ \A d \in Callers : Pending(call'[d]) /\ Own(call'[d])
    BY CallMoves DEF Write, Places, Numbered
  <1>2. call[c].id \in Nat
    BY DEF Sound, Typed, Calls
  <1>3. input' \in Seq(Nat)
    BY <1>2 DEF Write, Sound, Typed
  <1> QED
    BY <1>1, <1>3 DEF Write, Sound, Typed, HelperIsKnown

LEMMA WriteFailsIsSound == ASSUME Sound, NEW c \in Callers, WriteFails(c) PROVE Sound'
  <1> DEFINE counted == IF host.minute = "runs" THEN host
                        ELSE [host EXCEPT !.minute = "runs", !.restarts = 0]
             again == [counted EXCEPT !.restarts = @ + 1]
  <1>1. counted \in Hosts /\ counted.pid = host.pid
    BY DEF Sound, Typed, Hosts
  <1>2. again \in Hosts
    <2> HIDE DEF counted
    <2> QED
      BY <1>1 DEF Hosts
  <1>3. \/ Returns(c, NoLine) /\ host' = counted /\ UNCHANGED <<helper, input, output>>
        \/ Spawn(c, "greetAgain", again)
    BY DEF WriteFails
  <1> HIDE DEF counted, again
  <1>4. CASE Returns(c, NoLine) /\ host' = counted /\ UNCHANGED <<helper, input, output>>
    BY <1>1, <1>4, ReturnsIsSound, NoLineIsLine DEF Sound, Typed, HelperIsKnown
  <1>5. CASE Spawn(c, "greetAgain", again)
    BY <1>2, <1>5, SpawnIsSound DEF WriteFails, Places, Numbered
  <1> QED
    BY <1>3, <1>4, <1>5

LEMMA GivingUpIsSound ==
    ASSUME Sound, NEW c \in Callers, WriteFailsAgain(c) \/ ReadNothing(c) PROVE Sound'
  <1>1. Returns(c, NoLine) /\ UNCHANGED <<host, helper, input, output>>
    BY DEF WriteFailsAgain, ReadNothing
  <1> QED
    BY <1>1, ReturnsIsSound, NoLineIsLine DEF Sound, Typed, HelperIsKnown

\* Where the answer comes from: a line taken for it has its number and is no list, for no
\* request has the number read there.
LEMMA ReadLineIsSound == ASSUME Sound, NEW c \in Callers, ReadLine(c) PROVE Sound'
  <1> DEFINE line == Head(output)
             taken == IF line.kind = "error" THEN NoLine ELSE line
             own == line.kind # "ready" /\ FirstNumber(c, line) = call[c].id
  <1>1. CASE /\ host' = [host EXCEPT !.buffer = "empty"]
             /\ UNCHANGED <<helper, input, output, call>>
    BY <1>1 DEF Sound, Typed, Hosts, HelperIsKnown
  <1>2. CASE output # <<>> /\ output' = Tail(output) /\ UNCHANGED <<helper, input>>
             /\ \/ /\ host' = [host EXCEPT !.buffer = IF line.kind = "long" THEN "long" ELSE "line"]
                   /\ Returns(c, NoLine)
                \/ UNCHANGED <<host, call>>
                \/ /\ line.kind \notin {"long", "rest"} /\ own
                   /\ Returns(c, taken) /\ UNCHANGED host
    <2>1. line \in Lines /\ output' \in Seq(Lines)
      BY <1>2 DEF Sound, Typed
    <2>2. CASE /\ host' = [host EXCEPT !.buffer = IF line.kind = "long" THEN "long" ELSE "line"]
               /\ Returns(c, NoLine)
      <3>1. host' \in Hosts /\ host'.pid = host.pid
        BY <2>2 DEF Sound, Typed, Hosts
      <3> QED
        BY <1>2, <2>1, <2>2, <3>1, ReturnsIsSound, NoLineIsLine DEF Sound, Typed, HelperIsKnown
    <2>3. CASE UNCHANGED <<host, call>>
      BY <1>2, <2>1, <2>3 DEF Sound, Typed, HelperIsKnown
    <2>4. CASE /\ line.kind \notin {"long", "rest"} /\ own
               /\ Returns(c, taken) /\ UNCHANGED host
      <3>1. call[c].id # 0
        BY DEF ReadLine, Sound, Pending, Numbered
      <3>2. taken \in Lines /\ (taken # NoLine => taken.id = call[c].id)
        BY <2>1, <2>4, <3>1, NoLineIsLine DEF FirstNumber
      <3>3. taken # NoLine => taken.kind = "value"
        BY <2>1, <2>4, <3>1 DEF FirstNumber, Lines, Kinds
      <3> HIDE DEF taken, line, own
      <3> QED
        BY <1>2, <2>1, <2>4, <3>2, <3>3, ReturnsIsSound DEF Sound, Typed, HelperIsKnown
    <2> QED
      BY <1>2, <2>2, <2>3, <2>4
  <1> QED
    BY <1>1, <1>2 DEF ReadLine

-----------------------------------------------------------------------------
(* The host's other steps and the helper's.                                *)

LEMMA StopIsSound == ASSUME Sound, Stop PROVE Sound'
  BY TellIsSound DEF Stop, Sound, Typed

LEMMA StoppedIsSound == ASSUME Sound, Stopped PROVE Sound'
  <1>1. host' \in Hosts
    BY DEF Sound, Typed, Stopped, Hosts
  <1> QED
    BY <1>1, NoHelperIsHelper, EmptyIsTyped DEF Stopped, Sound, Typed, HelperIsKnown

LEMMA MinuteEndsIsSound == ASSUME Sound, MinuteEnds PROVE Sound'
  <1>1. host' \in Hosts /\ host'.pid = host.pid
    BY DEF MinuteEnds, Sound, Typed, Hosts
  <1> QED
    BY <1>1 DEF MinuteEnds, Sound, Typed, HelperIsKnown

LEMMA GreetIsSound == ASSUME Sound, Greet PROVE Sound'
  <1>1. PICK kind \in {"ready", "noise"} : output' = Append(output, Line(kind, 0))
    BY DEF Greet
  <1>2. Line(kind, 0) \in Lines
    BY DEF Line, Lines, Kinds
  <1>3. output' \in Seq(Lines)
    BY <1>1, <1>2 DEF Sound, Typed
  <1>4. helper' \in Helpers /\ helper'.lives = helper.lives
    BY DEF Greet, Sound, Typed, Helpers
  <1> QED
    BY <1>3, <1>4 DEF Greet, Sound, Typed, HelperIsKnown

LEMMA AnswersAreLines ==
    ASSUME NEW id \in Nat, NEW lines \in Answers(id) PROVE lines \in Seq(Lines)
  <1>1. \A kind \in {"value", "error", "list", "long", "rest"} : Line(kind, id) \in Lines
    BY DEF Line, Lines, Kinds
  <1>2. \A a, b \in Lines : <<a>> \in Seq(Lines) /\ <<a, b>> \in Seq(Lines)
    OBVIOUS
  <1> QED
    BY <1>1, <1>2 DEF Answers

LEMMA ServeIsSound == ASSUME Sound, Serve PROVE Sound'
  <1>1. Head(input) \in Nat /\ input' \in Seq(Nat)
    BY DEF Serve, Sound, Typed
  <1>2. PICK lines \in Answers(Head(input)) : output' = output \o lines
    BY DEF Serve
  <1>3. lines \in Seq(Lines)
    BY <1>1, <1>2, AnswersAreLines
  <1>4. output' \in Seq(Lines)
    BY <1>2, <1>3 DEF Sound, Typed
  <1> QED
    BY <1>1, <1>4 DEF Serve, Sound, Typed, HelperIsKnown

LEMMA DiesIsSound == ASSUME Sound, Dies PROVE Sound'
  BY EmptyIsTyped, NoHelperIsHelper DEF Dies, Sound, Typed, HelperIsKnown

LEMMA InitIsSound == Init => Sound
  <1> SUFFICES ASSUME Init PROVE Sound
    OBVIOUS
  <1>1. host \in Hosts /\ helper \in Helpers /\ HelperIsKnown
    BY NoHelperIsHelper DEF Init, Hosts, HelperIsKnown
  <1>2. \A c \in Callers : call[c] \in Calls /\ Pending(call[c]) /\ Own(call[c])
    BY NoLineIsLine DEF Init, Calls, Places, Numbered, Pending, Own
  <1>3. call \in [Callers -> Calls]
    BY <1>2 DEF Init
  <1> QED
    BY <1>1, <1>2, <1>3, EmptyIsTyped DEF Init, Sound, Typed

LEMMA StepIsSound == ASSUME Sound, [Next]_vars PROVE Sound'
  <1>1. CASE UNCHANGED vars
    BY <1>1 DEF vars, Sound, Typed, HelperIsKnown
  <1>2. ASSUME NEW c \in Callers, Ask(c) \/ GoesOn(c) PROVE Sound'
    BY <1>2, AskIsSound, EnterIsSound, GreetsIsSound, ReapsIsSound, NumberIsSound, WriteIsSound,
       WriteFailsIsSound, GivingUpIsSound, ReadLineIsSound DEF GoesOn
  <1> QED
    BY <1>1, <1>2, StopIsSound, StoppedIsSound, MinuteEndsIsSound, GreetIsSound, ServeIsSound,
       DiesIsSound
    DEF Next

-----------------------------------------------------------------------------
\* An answer taken is to the request of the one who takes it, and a value.
THEOREM AnswersStayOwn == Spec => []AnswersAreOwn
  <1>1. Sound => AnswersAreOwn
    BY DEF Sound, Own, AnswersAreOwn
  <1> QED
    BY <1>1, InitIsSound, StepIsSound, PTL DEF Spec

\* A helper that lives is the one the host knows: whatever fails, none is left behind.
THEOREM HelperStaysKnown == Spec => []HelperIsKnown
  <1>1. Sound => HelperIsKnown
    BY DEF Sound
  <1> QED
    BY <1>1, InitIsSound, StepIsSound, PTL DEF Spec

-----------------------------------------------------------------------------
(* Discovery, for any ids, capabilities and contents of the directories:     *)
(* GraphInv says what the graph is while it is built, SortInv what in_degree, *)
(* the queue and the order have to do with one another at every step of      *)
(* Kahn's algorithm.                                                         *)

CONSTANTS Ids, Capabilities, None, Layouts

VARIABLES phase, found, seen, plugins, edges, skipped, at, dep, waiting, queue, adjacent, order,
          manifests

Reg == INSTANCE PluginDiscovery

LEMMA AppendFacts ==
    ASSUME NEW S, NEW s \in Seq(S), NEW x \in S
    PROVE  /\ Append(s, x) \in Seq(S) /\ Len(Append(s, x)) = Len(s) + 1
           /\ DOMAIN Append(s, x) = 1..(Len(s) + 1) /\ DOMAIN s = 1..Len(s)
           /\ \A k \in 1..Len(s) : Append(s, x)[k] = s[k]
           /\ Append(s, x)[Len(s) + 1] = x
  OBVIOUS

LEMMA TailFacts ==
    ASSUME NEW S, NEW s \in Seq(S), s # <<>>
    PROVE  /\ Tail(s) \in Seq(S) /\ Head(s) = s[1] /\ s[1] \in S
           /\ Len(s) \in Nat \ {0} /\ DOMAIN s = 1..Len(s)
           /\ DOMAIN Tail(s) = 1..(Len(s) - 1)
           /\ \A k \in 1..(Len(s) - 1) : Tail(s)[k] = s[k + 1]
  OBVIOUS

LEMMA SeqFacts ==
    ASSUME NEW S, NEW s \in Seq(S)
    PROVE  /\ DOMAIN s = 1..Len(s) /\ Len(s) \in Nat
           /\ \A k \in DOMAIN s : s[k] \in S
  OBVIOUS

-----------------------------------------------------------------------------
(* Indices are those of something: edges lead from plugins to plugins, the   *)
(* queue and the order hold plugins, and nothing is there too early.         *)
Indices ==
    /\ edges \in Seq([from : DOMAIN plugins, to : DOMAIN plugins])
    /\ adjacent \subseteq DOMAIN edges
    /\ queue \in Seq(DOMAIN plugins) /\ order \in Seq(DOMAIN plugins)
    /\ phase = "load" => edges = <<>>
    /\ phase \in {"load", "graph"} => queue = <<>> /\ adjacent = {} /\ order = <<>>

LEMMA Shapes ==
    ASSUME Reg!TypeOK, Indices
    PROVE  /\ Len(plugins) \in Nat /\ DOMAIN plugins = 1..Len(plugins)
           /\ \A i \in DOMAIN plugins : plugins[i] \in Reg!Plugin
           /\ Len(edges) \in Nat /\ DOMAIN edges = 1..Len(edges)
           /\ \A e \in DOMAIN edges :
                edges[e].from \in DOMAIN plugins /\ edges[e].to \in DOMAIN plugins
           /\ Len(queue) \in Nat /\ DOMAIN queue = 1..Len(queue)
           /\ \A k \in DOMAIN queue : queue[k] \in DOMAIN plugins
           /\ Len(order) \in Nat /\ DOMAIN order = 1..Len(order)
           /\ \A k \in DOMAIN order : order[k] \in DOMAIN plugins
           /\ \A i \in DOMAIN waiting : waiting[i] \subseteq Nat
           /\ Len(manifests) \in Nat /\ DOMAIN manifests = 1..Len(manifests)
           /\ \A m \in DOMAIN manifests : manifests[m] \in Reg!Plugin
<1>1. plugins \in Seq(Reg!Plugin) /\ queue \in Seq(DOMAIN plugins) /\ order \in Seq(DOMAIN plugins)
      /\ waiting \in Seq(SUBSET Nat) /\ manifests \in Seq(Reg!Plugin)
      /\ edges \in Seq([from : DOMAIN plugins, to : DOMAIN plugins])
  BY DEF Reg!TypeOK, Indices
<1>2. \A e \in DOMAIN edges : edges[e] \in [from : DOMAIN plugins, to : DOMAIN plugins]
  BY <1>1, SeqFacts
<1>3. \A e \in DOMAIN edges : edges[e].from \in DOMAIN plugins /\ edges[e].to \in DOMAIN plugins
  BY <1>2
<1>4. \A i \in DOMAIN waiting : waiting[i] \subseteq Nat
  BY <1>1, SeqFacts
<1> QED
  BY <1>1, <1>3, <1>4, SeqFacts

LEMMA InitTyped == Reg!Init => Reg!TypeOK /\ Indices
  BY DEF Reg!Init, Reg!TypeOK, Indices

LEMMA StepTyped == Reg!TypeOK /\ Indices /\ [Reg!Next]_(Reg!vars) => Reg!TypeOK' /\ Indices'
<1> SUFFICES ASSUME Reg!TypeOK, Indices, [Reg!Next]_(Reg!vars) PROVE Reg!TypeOK' /\ Indices'
  OBVIOUS
<1>0. /\ plugins \in Seq(Reg!Plugin) /\ found \in Seq(Reg!Plugin) /\ manifests \in Seq(Reg!Plugin)
      /\ edges \in Seq(Reg!Edge) /\ edges \in Seq([from : DOMAIN plugins, to : DOMAIN plugins])
      /\ queue \in Seq(Nat) /\ queue \in Seq(DOMAIN plugins)
      /\ order \in Seq(Nat) /\ order \in Seq(DOMAIN plugins)
      /\ waiting \in Seq(SUBSET Nat) /\ at \in Nat \ {0} /\ dep \in Nat \ {0}
  BY DEF Reg!TypeOK, Indices
<1>1. CASE Reg!Discover
  BY <1>1 DEF Reg!TypeOK, Indices, Reg!Discover
<1>2. CASE Reg!Take
  <2> DEFINE d == Head(found)
             twice == d.status = "Ok" /\ d.id \in seen
             taken == IF twice THEN [d EXCEPT !.status = "Duplicate"] ELSE d
  <2>1. d \in Reg!Plugin /\ Tail(found) \in Seq(Reg!Plugin)
    BY <1>0, <1>2, TailFacts DEF Reg!Take
  <2>2. taken \in Reg!Plugin /\ d.id \in Ids
    BY <2>1 DEF Reg!Plugin, Reg!Statuses
  <2>3. plugins' = Append(plugins, taken) /\ found' = Tail(found)
        /\ seen' = IF d.status = "Ok" THEN seen \cup {d.id} ELSE seen
    BY <1>2 DEF Reg!Take
  <2> HIDE DEF taken, d
  <2>4. plugins' \in Seq(Reg!Plugin) /\ DOMAIN plugins \subseteq DOMAIN plugins'
    BY <1>0, <2>2, <2>3, AppendFacts
  <2>5. Reg!TypeOK'
    BY <1>2, <2>1, <2>2, <2>3, <2>4 DEF Reg!TypeOK, Reg!Take, Reg!sort
  <2>6. edges' = <<>> /\ queue' = <<>> /\ adjacent' = {} /\ order' = <<>>
    BY <1>2 DEF Indices, Reg!Take, Reg!sort
  <2> QED
    BY <2>5, <2>6 DEF Indices
<1>3. CASE Reg!MarkFailed
  BY <1>3 DEF Reg!TypeOK, Indices, Reg!MarkFailed, Reg!sort
<1>4. CASE Reg!Link
  <2>1. PICK to \in Reg!Candidates(Reg!Wanted) : edges' = Append(edges, [from |-> at, to |-> to])
    BY <1>4 DEF Reg!Link
  <2>2. to \in DOMAIN plugins /\ at \in DOMAIN plugins /\ to \in Nat
    BY <1>4, <2>1, Shapes DEF Reg!Link, Reg!Linking, Reg!Candidates, Reg!ById, Reg!ByCapability
  <2>3. edges' \in Seq(Reg!Edge) /\ edges' \in Seq([from : DOMAIN plugins, to : DOMAIN plugins])
    BY <1>0, <2>1, <2>2, AppendFacts DEF Reg!Edge
  <2> QED
    BY <1>4, <2>3 DEF Reg!TypeOK, Indices, Reg!Link, Reg!Linking, Reg!sort
<1>5. CASE Reg!GiveUp
  <2>1. at \in DOMAIN plugins /\ plugins[at] \in Reg!Plugin
    BY <1>5, Shapes DEF Reg!GiveUp, Reg!Linking
  <2>2. [plugins[at] EXCEPT !.status = "Unsatisfied"] \in Reg!Plugin
    BY <2>1 DEF Reg!Plugin, Reg!Statuses
  <2>3. plugins' = [plugins EXCEPT ![at] = [plugins[at] EXCEPT !.status = "Unsatisfied"]]
    BY <1>5 DEF Reg!GiveUp
  <2>4. plugins' \in Seq(Reg!Plugin) /\ DOMAIN plugins' = DOMAIN plugins
    BY <1>0, <2>1, <2>2, <2>3
  <2> QED
    BY <1>5, <2>1, <2>4 DEF Reg!TypeOK, Indices, Reg!GiveUp, Reg!Linking, Reg!sort
<1>6. CASE Reg!DoWithout
  BY <1>6 DEF Reg!TypeOK, Indices, Reg!DoWithout, Reg!Linking, Reg!sort, Reg!graph
<1>7. CASE Reg!NextPlugin
  BY <1>7 DEF Reg!TypeOK, Indices, Reg!NextPlugin, Reg!sort, Reg!graph
<1>8. CASE Reg!CountEdges
  <2>1. DOMAIN plugins = 1..Len(plugins) /\ Len(plugins) \in Nat /\ DOMAIN edges \subseteq Nat
    BY Shapes
  <2>2. \A i : Reg!EdgesOf(i) \in SUBSET Nat
    BY <2>1 DEF Reg!EdgesOf, Reg!Counted
  <2>3. waiting' \in [1..Len(plugins) -> SUBSET Nat]
    BY <1>8, <2>1, <2>2 DEF Reg!CountEdges
  <2>4. waiting' \in Seq(SUBSET Nat)
    BY <2>1, <2>3
  <2> QED
    BY <1>8, <2>4 DEF Reg!TypeOK, Indices, Reg!CountEdges, Reg!graph
<1>9. CASE Reg!Fill
  <2>1. queue' \in Seq(Nat) /\ queue' \in Seq(DOMAIN plugins)
    BY <1>0, <1>9, Shapes, AppendFacts DEF Reg!Fill
  <2> QED
    BY <1>9, <2>1 DEF Reg!TypeOK, Indices, Reg!Fill, Reg!graph
<1>10. CASE Reg!StartSort
  BY <1>10 DEF Reg!TypeOK, Indices, Reg!StartSort, Reg!graph, Reg!sort
<1>11. CASE Reg!Pop
  <2>1. Tail(queue) \in Seq(DOMAIN plugins) /\ Head(queue) \in DOMAIN plugins
        /\ Tail(queue) \in Seq(Nat) /\ Head(queue) \in Nat
    BY <1>0, <1>11, TailFacts DEF Reg!Pop
  <2>2. Reg!EdgesTo(Head(queue)) \subseteq Nat /\ Reg!EdgesTo(Head(queue)) \subseteq DOMAIN edges
    BY Shapes DEF Reg!EdgesTo, Reg!Counted
  <2>3. order' \in Seq(Nat) /\ order' \in Seq(DOMAIN plugins)
    BY <1>0, <1>11, <2>1, AppendFacts DEF Reg!Pop
  <2> QED
    BY <1>11, <2>1, <2>2, <2>3 DEF Reg!TypeOK, Indices, Reg!Pop, Reg!graph
<1>12. CASE Reg!CountDown
  <2>1. PICK e \in adjacent :
          /\ waiting' = [waiting EXCEPT ![edges[e].from] = waiting[edges[e].from] \ {e}]
          /\ queue' = IF waiting[edges[e].from] \ {e} = {}
                      THEN Append(queue, edges[e].from) ELSE queue
          /\ adjacent' = adjacent \ {e}
    BY <1>12 DEF Reg!CountDown
  <2>2. edges[e].from \in DOMAIN plugins /\ edges[e].from \in Nat
    <3>1. e \in DOMAIN edges
      BY DEF Indices
    <3> QED
      BY <3>1, Shapes
  <2>3. waiting' \in Seq(SUBSET Nat)
    <3> DEFINE v == edges[e].from
               left == waiting[v] \ {e}
    <3>1. v \in DOMAIN waiting => left \in SUBSET Nat
      BY Shapes
    <3>2. waiting' = [waiting EXCEPT ![v] = left]
      BY <2>1
    <3> HIDE DEF v, left
    <3>3. waiting \in [1..Len(waiting) -> SUBSET Nat] /\ Len(waiting) \in Nat
      BY <1>0
    <3>4. DOMAIN waiting = 1..Len(waiting)
      BY <3>3
    <3>5. waiting' \in [1..Len(waiting) -> SUBSET Nat]
      BY <3>1, <3>2, <3>3, <3>4
    <3> QED
      BY <3>3, <3>5
  <2>4. queue' \in Seq(Nat) /\ queue' \in Seq(DOMAIN plugins)
    BY <1>0, <2>1, <2>2, AppendFacts
  <2> QED
    BY <1>12, <2>1, <2>3, <2>4 DEF Reg!TypeOK, Indices, Reg!CountDown, Reg!graph
<1>13. CASE Reg!StartActivation
  BY <1>13 DEF Reg!TypeOK, Indices, Reg!StartActivation, Reg!graph, Reg!sort
<1>14. CASE Reg!Activate
  <2>1. plugins[order[at]] \in Reg!Plugin
    BY <1>14, Shapes DEF Reg!Activate
  <2>2. manifests' \in Seq(Reg!Plugin)
    BY <1>0, <1>14, <2>1, AppendFacts DEF Reg!Activate
  <2> QED
    BY <1>14, <2>2 DEF Reg!TypeOK, Indices, Reg!Activate, Reg!graph, Reg!sort
<1>15. CASE Reg!Finish
  BY <1>15 DEF Reg!TypeOK, Indices, Reg!Finish, Reg!graph, Reg!sort
<1>16. CASE UNCHANGED Reg!vars
  BY <1>16 DEF Reg!TypeOK, Indices, Reg!vars, Reg!graph, Reg!sort
<1> QED
  BY <1>1, <1>2, <1>3, <1>4, <1>5, <1>6, <1>7, <1>8, <1>9, <1>10, <1>11, <1>12,
     <1>13, <1>14, <1>15, <1>16 DEF Reg!Next

(* The variables keep their types: no loop leaves its indices and every      *)
(* manifest that is registered is one that was read.                         *)
THEOREM TypeCorrect == Reg!Spec => []Reg!TypeOK
<1>1. Reg!Spec => [](Reg!TypeOK /\ Indices)
  BY InitTyped, StepTyped, PTL DEF Reg!Spec
<1> QED
  BY <1>1, PTL

-----------------------------------------------------------------------------
(* The graph.  An edge leads to a plugin that could be used when it was      *)
(* made: since then that plugin may have been given up itself.               *)
FailedAreSkipped ==
    phase # "load" =>
      \A i \in DOMAIN plugins : i \in skipped <=> plugins[i].status # "Ok"

IdsAreOwn ==
    /\ phase = "load" => \A i \in DOMAIN plugins : plugins[i].status = "Ok" => plugins[i].id \in seen
    /\ \A i, j \in DOMAIN plugins :
         /\ plugins[i].status = "Ok" /\ plugins[j].status = "Ok"
         /\ plugins[i].id = plugins[j].id
         => i = j

EdgesLeadOn == \A e \in DOMAIN edges : plugins[edges[e].to].status \in {"Ok", "Unsatisfied"}

Linked(i, n) == phase = "graph" => i < at \/ (i = at /\ n < dep)

RequiredIsLinked ==
    phase # "load" =>
      \A i \in DOMAIN plugins : \A n \in DOMAIN plugins[i].depends :
        /\ plugins[i].status = "Ok" /\ plugins[i].depends[n].required
        /\ Linked(i, n)
        => \E e \in DOMAIN edges :
             edges[e].from = i /\ Reg!Answers(edges[e].to, plugins[i].depends[n])

GraphInv == FailedAreSkipped /\ IdsAreOwn /\ EdgesLeadOn /\ RequiredIsLinked

LEMMA InitGraph == Reg!Init => GraphInv
  BY DEF Reg!Init, GraphInv, FailedAreSkipped, IdsAreOwn, EdgesLeadOn, RequiredIsLinked

LEMMA GraphStays ==
    ASSUME GraphInv, UNCHANGED Reg!graph,
           phase \notin {"load", "graph"}, phase' \notin {"load", "graph"}
    PROVE  GraphInv'
  BY DEF GraphInv, FailedAreSkipped, IdsAreOwn, EdgesLeadOn, RequiredIsLinked, Linked,
     Reg!Answers, Reg!graph

LEMMA StepGraph == Reg!TypeOK /\ Indices /\ GraphInv /\ [Reg!Next]_(Reg!vars) => GraphInv'
<1> SUFFICES ASSUME Reg!TypeOK, Indices, GraphInv, [Reg!Next]_(Reg!vars) PROVE GraphInv'
  OBVIOUS
<1>0. /\ plugins \in Seq(Reg!Plugin) /\ edges \in Seq([from : DOMAIN plugins, to : DOMAIN plugins])
      /\ at \in Nat \ {0} /\ dep \in Nat \ {0}
  BY DEF Reg!TypeOK, Indices
<1>1. CASE Reg!Discover
  BY <1>1 DEF Reg!Discover, GraphInv, FailedAreSkipped, IdsAreOwn, EdgesLeadOn, RequiredIsLinked
<1>2. CASE Reg!Take
  <2> DEFINE d == Head(found)
             twice == d.status = "Ok" /\ d.id \in seen
             taken == IF twice THEN [d EXCEPT !.status = "Duplicate"] ELSE d
  <2>1. d \in Reg!Plugin
    <3>1. found \in Seq(Reg!Plugin) /\ found # <<>>
      BY <1>2 DEF Reg!Take, Reg!TypeOK
    <3> QED
      BY <3>1, TailFacts
  <2>2. taken \in Reg!Plugin /\ taken.id = d.id
        /\ (taken.status = "Ok" <=> d.status = "Ok" /\ d.id \notin seen)
    BY <2>1 DEF Reg!Plugin, Reg!Statuses
  <2>3. plugins' = Append(plugins, taken) /\ phase = "load" /\ phase' = "load"
        /\ seen' = (IF d.status = "Ok" THEN seen \cup {d.id} ELSE seen)
        /\ edges' = <<>>
    BY <1>2 DEF Reg!Take, Indices
  <2> HIDE DEF taken, d
  <2>4. /\ DOMAIN plugins' = 1..(Len(plugins) + 1) /\ DOMAIN plugins = 1..Len(plugins)
        /\ Len(plugins) \in Nat /\ \A k \in DOMAIN plugins : plugins'[k] = plugins[k]
        /\ plugins'[Len(plugins) + 1] = taken
    BY <1>0, <2>2, <2>3, AppendFacts, Shapes
  <2>5. \A i \in DOMAIN plugins : plugins[i].status = "Ok" => plugins[i].id \in seen
    BY <2>3 DEF GraphInv, IdsAreOwn
  <2>6. \A i \in DOMAIN plugins' : plugins'[i].status = "Ok" => plugins'[i].id \in seen'
    BY <2>2, <2>3, <2>4, <2>5
  <2>7. \A i, j \in DOMAIN plugins :
          plugins[i].status = "Ok" /\ plugins[j].status = "Ok" /\ plugins[i].id = plugins[j].id => i = j
    BY DEF GraphInv, IdsAreOwn
  <2>8. IdsAreOwn'
    BY <2>2, <2>4, <2>5, <2>6, <2>7 DEF IdsAreOwn
  <2> QED
    BY <2>3, <2>8 DEF GraphInv, FailedAreSkipped, EdgesLeadOn, RequiredIsLinked
<1>3. CASE Reg!MarkFailed
  <2>1. /\ phase' = "graph" /\ at' = 1 /\ dep' = 1 /\ plugins' = plugins /\ edges' = <<>>
        /\ skipped' = {i \in DOMAIN plugins : plugins[i].status # "Ok"}
    BY <1>3 DEF Reg!MarkFailed, Indices
  <2>2. \A i \in DOMAIN plugins : \A n \in DOMAIN plugins[i].depends :
               i \in Nat /\ n \in Nat /\ ~(i < 1) /\ ~(n < 1)
    <3> TAKE i \in DOMAIN plugins
    <3>1. i \in 1..Len(plugins) /\ plugins[i].depends \in Seq(Reg!Dependency) /\ Len(plugins) \in Nat
      BY Shapes DEF Reg!Plugin
    <3> QED
      BY <3>1, SeqFacts
  <2>3. RequiredIsLinked'
    BY <2>1, <2>2 DEF RequiredIsLinked, Linked
  <2> QED
    BY <2>1, <2>3 DEF GraphInv, FailedAreSkipped, IdsAreOwn, EdgesLeadOn
<1>4. CASE Reg!Link
  <2>1. PICK to \in Reg!Candidates(Reg!Wanted) : edges' = Append(edges, [from |-> at, to |-> to])
    BY <1>4 DEF Reg!Link
  <2>2. to \in DOMAIN plugins /\ at \in DOMAIN plugins /\ plugins[to].status = "Ok"
        /\ Reg!Answers(to, Reg!Wanted)
    BY <1>4, <2>1 DEF Reg!Link, Reg!Linking, Reg!Candidates, Reg!ById, Reg!ByCapability,
       Reg!Answers
  <2>3. /\ DOMAIN edges = 1..Len(edges) /\ DOMAIN edges' = 1..(Len(edges) + 1) /\ Len(edges) \in Nat
        /\ \A e \in DOMAIN edges : edges'[e] = edges[e]
        /\ edges'[Len(edges) + 1] = [from |-> at, to |-> to]
    <3>1. [from |-> at, to |-> to] \in [from : DOMAIN plugins, to : DOMAIN plugins]
      BY <2>2
    <3> QED
      BY <1>0, <2>1, <3>1, AppendFacts, SeqFacts
  <2>4. /\ plugins' = plugins /\ skipped' = skipped /\ phase' = "graph" /\ phase = "graph"
        /\ at' = at /\ dep' = dep + 1 /\ seen' = seen
    BY <1>4 DEF Reg!Link, Reg!Linking
  <2>5. EdgesLeadOn'
    <3> SUFFICES ASSUME NEW e \in DOMAIN edges'
                 PROVE  plugins[edges'[e].to].status \in {"Ok", "Unsatisfied"}
      BY <2>4 DEF EdgesLeadOn
    <3>1. CASE e \in DOMAIN edges
      BY <2>3, <3>1 DEF GraphInv, EdgesLeadOn
    <3>2. CASE e = Len(edges) + 1
      BY <2>2, <2>3, <3>2
    <3> QED
      BY <2>3, <3>1, <3>2
  <2>6. RequiredIsLinked'
    <3> SUFFICES ASSUME NEW i \in DOMAIN plugins, NEW n \in DOMAIN plugins[i].depends,
                        plugins[i].status = "Ok", plugins[i].depends[n].required,
                        i < at \/ (i = at /\ n < dep + 1)
                 PROVE  \E e \in DOMAIN edges' :
                          edges'[e].from = i /\ Reg!Answers(edges'[e].to, plugins[i].depends[n])
      BY <2>4 DEF RequiredIsLinked, Linked, Reg!Answers
    <3>1. CASE i = at /\ n = dep
      BY <2>2, <2>3, <3>1 DEF Reg!Wanted
    <3>2. CASE i < at \/ (i = at /\ n < dep)
      <4>1. PICK e \in DOMAIN edges : edges[e].from = i /\ Reg!Answers(edges[e].to, plugins[i].depends[n])
        BY <2>4, <3>2 DEF GraphInv, RequiredIsLinked, Linked
      <4> QED
        BY <2>3, <4>1
    <3>3. n \in Nat
      <4>1. plugins[i].depends \in Seq(Reg!Dependency)
        BY Shapes DEF Reg!Plugin
      <4> QED
        BY <4>1, SeqFacts
    <3> QED
      BY <1>0, <3>1, <3>2, <3>3
  <2> QED
    BY <2>4, <2>5, <2>6 DEF GraphInv, FailedAreSkipped, IdsAreOwn
<1>5. CASE Reg!GiveUp
  <2>1. /\ at \in DOMAIN plugins /\ plugins[at] \in Reg!Plugin /\ phase = "graph" /\ phase' = "graph"
        /\ edges' = edges /\ at' = at /\ dep' = dep + 1 /\ skipped' = skipped \cup {at}
        /\ plugins' = [plugins EXCEPT ![at] = [plugins[at] EXCEPT !.status = "Unsatisfied"]]
    BY <1>5, Shapes DEF Reg!GiveUp, Reg!Linking
  <2>2. /\ DOMAIN plugins' = DOMAIN plugins
        /\ \A i \in DOMAIN plugins :
             /\ plugins'[i].id = plugins[i].id /\ plugins'[i].capabilities = plugins[i].capabilities
             /\ plugins'[i].depends = plugins[i].depends
             /\ plugins'[i].status = IF i = at THEN "Unsatisfied" ELSE plugins[i].status
    BY <1>0, <2>1, Shapes DEF Reg!Plugin
  <2>3. FailedAreSkipped' /\ IdsAreOwn'
    BY <2>1, <2>2 DEF GraphInv, FailedAreSkipped, IdsAreOwn
  <2>4. \A e \in DOMAIN edges : edges[e].to \in DOMAIN plugins
    BY Shapes
  <2>5. EdgesLeadOn'
    BY <2>1, <2>2, <2>4 DEF GraphInv, EdgesLeadOn
  <2>6. RequiredIsLinked'
    <3> SUFFICES ASSUME NEW i \in DOMAIN plugins, NEW n \in DOMAIN plugins[i].depends,
                        i # at, plugins[i].status = "Ok", plugins[i].depends[n].required,
                        i < at
                 PROVE  \E e \in DOMAIN edges :
                          edges[e].from = i /\ Reg!Answers(edges[e].to, plugins[i].depends[n])'
      BY <2>1, <2>2 DEF RequiredIsLinked, Linked, Reg!Answers
    <3>1. PICK e \in DOMAIN edges : edges[e].from = i /\ Reg!Answers(edges[e].to, plugins[i].depends[n])
      BY <2>1 DEF GraphInv, RequiredIsLinked, Linked
    <3> QED
      BY <2>1, <2>2, <2>4, <3>1 DEF Reg!Answers
  <2> QED
    BY <2>3, <2>5, <2>6 DEF GraphInv
<1>6. CASE Reg!DoWithout
  <2>1. /\ UNCHANGED <<plugins, edges, skipped, seen, at>> /\ phase = "graph" /\ phase' = "graph"
        /\ dep' = dep + 1 /\ ~plugins[at].depends[dep].required
    BY <1>6 DEF Reg!DoWithout, Reg!Linking, Reg!Wanted, Reg!graph
  <2>2. RequiredIsLinked'
    <3> SUFFICES ASSUME NEW i \in DOMAIN plugins, NEW n \in DOMAIN plugins[i].depends,
                        plugins[i].status = "Ok", plugins[i].depends[n].required,
                        i < at \/ (i = at /\ n < dep + 1)
                 PROVE  \E e \in DOMAIN edges :
                          edges[e].from = i /\ Reg!Answers(edges[e].to, plugins[i].depends[n])
      BY <2>1 DEF RequiredIsLinked, Linked, Reg!Answers
    <3>1. plugins[i].depends \in Seq(Reg!Dependency)
      BY Shapes DEF Reg!Plugin
    <3>2. n \in Nat
      BY <3>1, SeqFacts
    <3>3. i < at \/ (i = at /\ n < dep)
      BY <1>0, <2>1, <3>2
    <3> QED
      BY <2>1, <3>3 DEF GraphInv, RequiredIsLinked, Linked
  <2> QED
    BY <2>1, <2>2 DEF GraphInv, FailedAreSkipped, IdsAreOwn, EdgesLeadOn
<1>7. CASE Reg!NextPlugin
  <2>1. /\ UNCHANGED <<plugins, edges, skipped, seen>> /\ phase = "graph" /\ phase' = "graph"
        /\ at' = at + 1 /\ dep' = 1 /\ at \in DOMAIN plugins
        /\ dep \notin DOMAIN plugins[at].depends \/ plugins[at].status # "Ok"
    BY <1>7 DEF Reg!NextPlugin, Reg!Linking, Reg!graph
  <2>2. RequiredIsLinked'
    <3> SUFFICES ASSUME NEW i \in DOMAIN plugins, NEW n \in DOMAIN plugins[i].depends,
                        plugins[i].status = "Ok", plugins[i].depends[n].required,
                        i < at + 1 \/ (i = at + 1 /\ n < 1)
                 PROVE  \E e \in DOMAIN edges :
                          edges[e].from = i /\ Reg!Answers(edges[e].to, plugins[i].depends[n])
      BY <2>1 DEF RequiredIsLinked, Linked, Reg!Answers
    <3>1. plugins[i].depends \in Seq(Reg!Dependency) /\ i \in Nat
      BY Shapes DEF Reg!Plugin
    <3>2. n \in 1..Len(plugins[i].depends) /\ Len(plugins[i].depends) \in Nat
          /\ DOMAIN plugins[i].depends = 1..Len(plugins[i].depends)
      BY <3>1, SeqFacts
    <3>3. i < at \/ (i = at /\ n < dep)
      BY <1>0, <2>1, <3>1, <3>2
    <3> QED
      BY <2>1, <3>3 DEF GraphInv, RequiredIsLinked, Linked
  <2> QED
    BY <2>1, <2>2 DEF GraphInv, FailedAreSkipped, IdsAreOwn, EdgesLeadOn
<1>8. CASE Reg!CountEdges
  <2>1. UNCHANGED <<plugins, edges, skipped>> /\ phase = "graph" /\ phase' = "fill"
        /\ at \notin DOMAIN plugins
    BY <1>8 DEF Reg!CountEdges, Reg!graph
  <2>2. \A i \in DOMAIN plugins : i < at
    BY <1>0, <2>1, Shapes
  <2>3. RequiredIsLinked'
    BY <2>1, <2>2 DEF GraphInv, RequiredIsLinked, Linked, Reg!Answers
  <2> QED
    BY <2>1, <2>3 DEF GraphInv, FailedAreSkipped, IdsAreOwn, EdgesLeadOn
<1>9. CASE \/ Reg!Fill \/ Reg!StartSort \/ Reg!Pop \/ Reg!CountDown
           \/ Reg!StartActivation \/ Reg!Activate \/ Reg!Finish
  <2>1. UNCHANGED Reg!graph /\ phase \notin {"load", "graph"} /\ phase' \notin {"load", "graph"}
    BY <1>9 DEF Reg!Fill, Reg!StartSort, Reg!Pop, Reg!CountDown, Reg!StartActivation,
       Reg!Activate, Reg!Finish
  <2> QED
    BY <2>1, GraphStays
<1>10. CASE UNCHANGED Reg!vars
  BY <1>10 DEF Reg!vars, Reg!graph, GraphInv, FailedAreSkipped, IdsAreOwn, EdgesLeadOn,
     RequiredIsLinked, Linked, Reg!Answers
<1> QED
  BY <1>1, <1>2, <1>3, <1>4, <1>5, <1>6, <1>7, <1>8, <1>9, <1>10 DEF Reg!Next

-----------------------------------------------------------------------------
(* The sort.  What is left of the edges of a plugin are those to plugins     *)
(* that are not in the order, or whose edges are being counted down; a       *)
(* plugin without one is in the queue or in the order, once.                 *)
Queued(i) == \E k \in DOMAIN queue : queue[k] = i
Sorting == phase \notin {"load", "graph"}

CountsAreRight ==
    Sorting =>
      /\ DOMAIN waiting = DOMAIN plugins
      /\ \A i \in DOMAIN plugins :
           waiting[i] = {e \in Reg!EdgesOf(i) : ~Reg!Ordered(edges[e].to) \/ e \in adjacent}

AdjacentAreLeft == \A e \in adjacent : e \in Reg!Counted /\ Reg!Ordered(edges[e].to)

ReadyAreQueued ==
    Sorting =>
      \A i \in DOMAIN plugins :
        (Queued(i) \/ Reg!Ordered(i)) <=>
        (i \notin skipped /\ waiting[i] = {} /\ (phase = "fill" => i < at))

NothingIsLeft ==
    /\ phase = "fill" => order = <<>> /\ adjacent = {}
    /\ phase \in {"activate", "idle"} => queue = <<>> /\ adjacent = {}

NoneTwice ==
    /\ \A k, m \in DOMAIN queue : queue[k] = queue[m] => k = m
    /\ \A k, m \in DOMAIN order : order[k] = order[m] => k = m
    /\ \A k \in DOMAIN queue : ~Reg!Ordered(queue[k])

SortInv == /\ CountsAreRight /\ AdjacentAreLeft /\ ReadyAreQueued /\ NothingIsLeft
           /\ NoneTwice /\ Reg!ProvidersComeFirst

LEMMA InitSort == Reg!Init => SortInv
  BY DEF Reg!Init, SortInv, CountsAreRight, AdjacentAreLeft, ReadyAreQueued, NothingIsLeft,
     NoneTwice, Reg!ProvidersComeFirst

LEMMA SortIsEmpty ==
    ASSUME phase' \in {"load", "graph"}, queue' = <<>>, adjacent' = {}, order' = <<>>
    PROVE  SortInv'
  BY DEF SortInv, CountsAreRight, AdjacentAreLeft, ReadyAreQueued, NothingIsLeft, NoneTwice,
     Reg!ProvidersComeFirst, Sorting

LEMMA SortStays ==
    ASSUME SortInv, UNCHANGED <<Reg!graph, Reg!sort>>, phase \notin {"load", "graph", "fill"},
           phase' \notin {"load", "graph", "fill"},
           phase' \in {"activate", "idle"} => queue = <<>> /\ adjacent = {}
    PROVE  SortInv'
<1>1. CountsAreRight' /\ AdjacentAreLeft' /\ Reg!ProvidersComeFirst'
  BY DEF SortInv, CountsAreRight, AdjacentAreLeft, Reg!ProvidersComeFirst, Sorting, Reg!Ordered,
     Reg!EdgesOf, Reg!Counted, Reg!graph, Reg!sort
<1> QED
  BY <1>1 DEF SortInv, ReadyAreQueued, NothingIsLeft, NoneTwice, Sorting, Queued, Reg!Ordered,
     Reg!graph, Reg!sort

LEMMA FillStep == Reg!TypeOK /\ Indices /\ SortInv /\ Reg!Fill => SortInv'
<1> SUFFICES ASSUME Reg!TypeOK, Indices, SortInv, Reg!Fill PROVE SortInv'
  OBVIOUS
<1>1. /\ UNCHANGED <<plugins, edges, skipped, waiting, adjacent, order, phase>> /\ phase = "fill"
      /\ at' = at + 1 /\ at \in DOMAIN plugins /\ at \in Nat
      /\ order = <<>> /\ adjacent = {}
  BY DEF Reg!Fill, Reg!graph, SortInv, NothingIsLeft, Reg!TypeOK
<1>2. CountsAreRight' /\ AdjacentAreLeft' /\ NothingIsLeft' /\ Reg!ProvidersComeFirst'
  BY <1>1 DEF SortInv, CountsAreRight, AdjacentAreLeft, NothingIsLeft, Reg!ProvidersComeFirst,
     Sorting, Reg!Ordered, Reg!EdgesOf, Reg!Counted
<1>3. ~Queued(at) /\ \A i : ~Reg!Ordered(i)
  BY <1>1 DEF SortInv, ReadyAreQueued, Sorting, Reg!Ordered
<1>4. \A i \in DOMAIN plugins : Queued(i) <=> (i \notin skipped /\ waiting[i] = {} /\ i < at)
  BY <1>1, <1>3 DEF SortInv, ReadyAreQueued, Sorting
<1>5. DOMAIN plugins \subseteq Nat
  BY Shapes
<1>6. CASE at \notin skipped /\ waiting[at] = {}
  <2>1. queue' = Append(queue, at) /\ queue \in Seq(Nat)
    BY <1>6 DEF Reg!Fill, Reg!TypeOK
  <2>2. /\ DOMAIN queue = 1..Len(queue) /\ DOMAIN queue' = 1..(Len(queue) + 1) /\ Len(queue) \in Nat
        /\ \A k \in DOMAIN queue : queue'[k] = queue[k]
        /\ queue'[Len(queue) + 1] = at
    BY <1>1, <2>1, AppendFacts, SeqFacts
  <2>3. \A i : Queued(i)' <=> Queued(i) \/ i = at
    BY <2>2 DEF Queued
  <2>4. ReadyAreQueued'
    <3>1. \A i \in DOMAIN plugins : Queued(i)' <=> (i \notin skipped /\ waiting[i] = {} /\ i < at + 1)
      BY <1>1, <1>4, <1>5, <1>6, <2>3
    <3> QED
      BY <1>1, <3>1 DEF ReadyAreQueued, Sorting, Reg!Ordered
  <2>5. NoneTwice'
    BY <1>1, <1>3, <2>2 DEF SortInv, NoneTwice, Queued, Reg!Ordered
  <2> QED
    BY <1>2, <2>4, <2>5 DEF SortInv
<1>7. CASE ~(at \notin skipped /\ waiting[at] = {})
  <2>1. queue' = queue
    BY <1>7 DEF Reg!Fill
  <2>2. \A i \in DOMAIN plugins : Queued(i) <=> (i \notin skipped /\ waiting[i] = {} /\ i < at + 1)
    BY <1>1, <1>4, <1>5, <1>7
  <2>3. ReadyAreQueued'
    BY <1>1, <2>1, <2>2 DEF ReadyAreQueued, Sorting, Reg!Ordered, Queued
  <2> QED
    BY <1>1, <1>2, <2>1, <2>3 DEF SortInv, NoneTwice, Reg!Ordered
<1> QED
  BY <1>6, <1>7

LEMMA PopStep == Reg!TypeOK /\ Indices /\ SortInv /\ Reg!Pop => SortInv'
<1> SUFFICES ASSUME Reg!TypeOK, Indices, SortInv, Reg!Pop PROVE SortInv'
  OBVIOUS
<1> DEFINE u == Head(queue)
<1>1. /\ UNCHANGED <<plugins, edges, skipped, waiting, phase, at>> /\ phase = "sort"
      /\ adjacent = {} /\ adjacent' = Reg!EdgesTo(u) /\ order' = Append(order, u) /\ queue' = Tail(queue)
      /\ queue # <<>> /\ queue \in Seq(Nat) /\ order \in Seq(Nat)
  BY DEF Reg!Pop, Reg!graph, Reg!TypeOK
<1>2. /\ u = queue[1] /\ u \in Nat /\ DOMAIN queue = 1..Len(queue) /\ Len(queue) \in Nat \ {0}
      /\ DOMAIN queue' = 1..(Len(queue) - 1)
      /\ \A k \in DOMAIN queue' : queue'[k] = queue[k + 1]
  BY <1>1, TailFacts
<1>3. 1 \in DOMAIN queue /\ u \in DOMAIN plugins
  BY <1>2, Shapes
<1> HIDE DEF u
<1>4. /\ DOMAIN order = 1..Len(order) /\ DOMAIN order' = 1..(Len(order) + 1) /\ Len(order) \in Nat
      /\ \A k \in DOMAIN order : order'[k] = order[k]
      /\ order'[Len(order) + 1] = u
  BY <1>1, <1>2, AppendFacts, SeqFacts
<1>5. \A i : Reg!Ordered(i)' <=> Reg!Ordered(i) \/ i = u
  BY <1>4 DEF Reg!Ordered
<1>6. ~Reg!Ordered(u) /\ Queued(u)
  BY <1>2, <1>3 DEF SortInv, NoneTwice, Queued
<1>7. \A k \in DOMAIN queue' : k + 1 \in DOMAIN queue /\ queue[k + 1] # u
  BY <1>2, <1>3 DEF SortInv, NoneTwice
<1>8. \A i : Queued(i)' <=> Queued(i) /\ i # u
  <2> SUFFICES ASSUME NEW i PROVE Queued(i)' <=> Queued(i) /\ i # u
    OBVIOUS
  <2>1. Queued(i)' => Queued(i) /\ i # u
    BY <1>2, <1>7 DEF Queued
  <2>2. ASSUME Queued(i), i # u PROVE Queued(i)'
    <3>1. PICK k \in DOMAIN queue : queue[k] = i
      BY <2>2 DEF Queued
    <3>2. k # 1 /\ k - 1 \in DOMAIN queue' /\ (k - 1) + 1 = k
      BY <1>2, <2>2, <3>1
    <3> QED
      BY <1>2, <3>1, <3>2 DEF Queued
  <2> QED
    BY <2>1, <2>2
<1>9. CountsAreRight'
  <2>1. \A i \in DOMAIN plugins : Reg!EdgesOf(i)' = Reg!EdgesOf(i)
    BY <1>1 DEF Reg!EdgesOf, Reg!Counted
  <2>2. DOMAIN waiting = DOMAIN plugins /\ \A i \in DOMAIN plugins :
          waiting[i] = {e \in Reg!EdgesOf(i) : ~Reg!Ordered(edges[e].to)}
    BY <1>1 DEF SortInv, CountsAreRight, Sorting
  <2>3. \A i : \A e \in Reg!EdgesOf(i) : e \in Reg!EdgesTo(u) <=> edges[e].to = u
    BY DEF Reg!EdgesOf, Reg!EdgesTo
  <2>4. \A i \in DOMAIN plugins :
          waiting[i] = {e \in Reg!EdgesOf(i) : ~Reg!Ordered(edges[e].to)' \/ e \in Reg!EdgesTo(u)}
    BY <1>1, <1>5, <1>6, <2>2, <2>3
  <2>5. \A e : Reg!Ordered(edges[e].to)' <=> Reg!Ordered(edges[e].to) \/ edges[e].to = u
    BY <1>1, <1>5
  <2> QED
    BY <1>1, <2>1, <2>2, <2>4 DEF CountsAreRight, Sorting
<1>10. AdjacentAreLeft'
  BY <1>1, <1>5 DEF AdjacentAreLeft, Reg!EdgesTo, Reg!Counted, Reg!Ordered
<1>11. ReadyAreQueued' /\ NothingIsLeft'
  BY <1>1, <1>5, <1>6, <1>8 DEF SortInv, ReadyAreQueued, NothingIsLeft, Sorting
<1>12. NoneTwice'
  <2>1. \A k, m \in DOMAIN queue' : queue'[k] = queue'[m] => k = m
    BY <1>2, <1>7 DEF SortInv, NoneTwice
  <2>2. \A k, m \in DOMAIN order' : order'[k] = order'[m] => k = m
    BY <1>4, <1>6 DEF SortInv, NoneTwice, Reg!Ordered
  <2>3. \A k \in DOMAIN queue' : \A m \in DOMAIN order' : order'[m] # queue'[k]
    <3> TAKE k \in DOMAIN queue'
    <3>1. queue'[k] = queue[k + 1] /\ k + 1 \in DOMAIN queue /\ queue[k + 1] # u
      BY <1>2, <1>7
    <3>2. \A m \in DOMAIN order : order[m] # queue[k + 1]
      BY <3>1 DEF SortInv, NoneTwice, Reg!Ordered
    <3> QED
      BY <1>4, <3>1, <3>2
  <2> QED
    BY <2>1, <2>2, <2>3 DEF NoneTwice, Reg!Ordered
<1>13. Reg!ProvidersComeFirst'
  <2>1. \A i : Reg!EdgesOf(i)' = Reg!EdgesOf(i)
    BY <1>1 DEF Reg!EdgesOf, Reg!Counted
  <2> SUFFICES ASSUME NEW k \in DOMAIN order', NEW e \in Reg!EdgesOf(order'[k])
               PROVE  \E p \in 1..(k - 1) : order'[p] = edges[e].to
    BY <1>1, <2>1 DEF Reg!ProvidersComeFirst
  <2>2. CASE k \in DOMAIN order
    <3>1. PICK p \in 1..(k - 1) : order[p] = edges[e].to
      BY <1>4, <2>2 DEF SortInv, Reg!ProvidersComeFirst
    <3>2. p \in DOMAIN order
      BY <1>4, <2>2, <3>1
    <3> QED
      BY <1>4, <3>1, <3>2
  <2>3. CASE k = Len(order) + 1
    <3>1. e \in Reg!EdgesOf(u)
      BY <1>4, <2>3
    <3>2. waiting[u] = {}
      BY <1>1, <1>3, <1>6 DEF SortInv, ReadyAreQueued, Sorting
    <3>3. Reg!Ordered(edges[e].to)
      BY <1>1, <1>3, <3>1, <3>2 DEF SortInv, CountsAreRight, Sorting
    <3>4. PICK p \in DOMAIN order : order[p] = edges[e].to
      BY <3>3 DEF Reg!Ordered
    <3>5. p \in 1..(k - 1)
      BY <1>4, <2>3, <3>4
    <3> QED
      BY <1>4, <3>4, <3>5
  <2> QED
    BY <1>4, <2>2, <2>3
<1> QED
  BY <1>9, <1>10, <1>11, <1>12, <1>13 DEF SortInv

LEMMA CountDownStep == Reg!TypeOK /\ Indices /\ SortInv /\ Reg!CountDown => SortInv'
<1> SUFFICES ASSUME Reg!TypeOK, Indices, SortInv, Reg!CountDown PROVE SortInv'
  OBVIOUS
<1>1. PICK e \in adjacent :
        /\ waiting' = [waiting EXCEPT ![edges[e].from] = waiting[edges[e].from] \ {e}]
        /\ queue' = IF waiting[edges[e].from] \ {e} = {}
                    THEN Append(queue, edges[e].from) ELSE queue
        /\ adjacent' = adjacent \ {e}
  BY DEF Reg!CountDown
<1> DEFINE v == edges[e].from
<1>2. /\ UNCHANGED <<plugins, edges, skipped, order, phase, at>> /\ phase = "sort"
  BY DEF Reg!CountDown, Reg!graph
<1>3. e \in Reg!Counted /\ e \in DOMAIN edges /\ Reg!Ordered(edges[e].to)
  BY DEF SortInv, AdjacentAreLeft, Reg!Counted
<1>4. v \in DOMAIN plugins /\ v \in Nat /\ v \notin skipped /\ e \in Reg!EdgesOf(v)
  BY <1>3, Shapes DEF Reg!EdgesOf, Reg!Counted
<1>5. /\ DOMAIN waiting = DOMAIN plugins
      /\ \A i \in DOMAIN plugins :
           waiting[i] = {x \in Reg!EdgesOf(i) : ~Reg!Ordered(edges[x].to) \/ x \in adjacent}
  BY <1>2 DEF SortInv, CountsAreRight, Sorting
<1>6. waiting[v] # {} /\ ~Queued(v) /\ ~Reg!Ordered(v)
  <2>1. e \in waiting[v]
    BY <1>4, <1>5
  <2> QED
    BY <1>2, <1>4, <2>1 DEF SortInv, ReadyAreQueued, Sorting
<1>7. \A i \in DOMAIN plugins : i # v => e \notin Reg!EdgesOf(i)
  BY DEF Reg!EdgesOf
<1>8. /\ DOMAIN waiting' = DOMAIN plugins
      /\ \A i \in DOMAIN plugins : waiting'[i] = waiting[i] \ {e}
  <2>1. \A i \in DOMAIN plugins : i # v => waiting[i] = waiting[i] \ {e}
    BY <1>5, <1>7
  <2> QED
    BY <1>1, <1>4, <1>5, <2>1
<1>9. CountsAreRight'
  <2>1. \A i \in DOMAIN plugins :
          waiting'[i] = {x \in Reg!EdgesOf(i) : ~Reg!Ordered(edges[x].to) \/ x \in adjacent'}
    BY <1>1, <1>3, <1>5, <1>8
  <2> QED
    BY <1>2, <1>8, <2>1 DEF CountsAreRight, Sorting, Reg!EdgesOf, Reg!Counted, Reg!Ordered
<1>10. AdjacentAreLeft' /\ NothingIsLeft' /\ Reg!ProvidersComeFirst'
  BY <1>1, <1>2 DEF SortInv, AdjacentAreLeft, NothingIsLeft, Reg!ProvidersComeFirst, Reg!EdgesOf,
     Reg!Counted, Reg!Ordered
<1>11. \A i \in DOMAIN plugins : i # v => waiting'[i] = waiting[i]
  BY <1>1, <1>4, <1>5
<1>12. CASE waiting[v] \ {e} = {}
  <2>1. queue' = Append(queue, v) /\ queue \in Seq(Nat)
    BY <1>1, <1>12 DEF Reg!TypeOK
  <2> HIDE DEF v
  <2>2. /\ DOMAIN queue = 1..Len(queue) /\ DOMAIN queue' = 1..(Len(queue) + 1) /\ Len(queue) \in Nat
        /\ \A k \in DOMAIN queue : queue'[k] = queue[k]
        /\ queue'[Len(queue) + 1] = v
    BY <1>4, <2>1, AppendFacts, SeqFacts
  <2>3. \A i : Queued(i)' <=> Queued(i) \/ i = v
    BY <2>2 DEF Queued
  <2>4. \A i : Reg!Ordered(i)' <=> Reg!Ordered(i)
    BY <1>2 DEF Reg!Ordered
  <2>5. ReadyAreQueued'
    <3>1. waiting'[v] = {}
      BY <1>4, <1>8, <1>12
    <3>2. \A i \in DOMAIN plugins :
            (Queued(i) \/ Reg!Ordered(i)) <=> (i \notin skipped /\ waiting[i] = {})
      BY <1>2 DEF SortInv, ReadyAreQueued, Sorting
    <3>3. \A i \in DOMAIN plugins :
            (Queued(i)' \/ Reg!Ordered(i)') <=> (i \notin skipped /\ waiting'[i] = {})
      BY <1>4, <1>11, <2>3, <2>4, <3>1, <3>2
    <3> QED
      BY <1>2, <3>3 DEF ReadyAreQueued, Sorting
  <2>6. NoneTwice'
    BY <1>2, <1>6, <2>2, <2>4 DEF SortInv, NoneTwice, Queued
  <2> QED
    BY <1>9, <1>10, <2>5, <2>6 DEF SortInv
<1>13. CASE waiting[v] \ {e} # {}
  <2>1. queue' = queue
    BY <1>1, <1>13
  <2>2. \A i \in DOMAIN plugins : waiting'[i] = {} <=> waiting[i] = {}
    BY <1>6, <1>8, <1>11, <1>13
  <2> HIDE DEF v
  <2>3. ReadyAreQueued' /\ NoneTwice'
    BY <1>2, <2>1, <2>2 DEF SortInv, ReadyAreQueued, NoneTwice, Sorting, Queued, Reg!Ordered
  <2> QED
    BY <1>9, <1>10, <2>3 DEF SortInv
<1> QED
  BY <1>12, <1>13

LEMMA StepSort == Reg!TypeOK /\ Indices /\ SortInv /\ [Reg!Next]_(Reg!vars) => SortInv'
<1> SUFFICES ASSUME Reg!TypeOK, Indices, SortInv, [Reg!Next]_(Reg!vars) PROVE SortInv'
  OBVIOUS
<1>1. CASE Reg!Discover
  BY <1>1, SortIsEmpty DEF Reg!Discover
<1>2. CASE Reg!Take \/ Reg!MarkFailed \/ Reg!Link \/ Reg!GiveUp \/ Reg!DoWithout \/ Reg!NextPlugin
  <2>1. phase' \in {"load", "graph"} /\ phase \in {"load", "graph"}
        /\ UNCHANGED <<queue, adjacent, order>>
    BY <1>2 DEF Reg!Take, Reg!MarkFailed, Reg!Link, Reg!GiveUp, Reg!DoWithout, Reg!NextPlugin,
       Reg!Linking, Reg!sort
  <2> QED
    BY <2>1, SortIsEmpty DEF Indices
<1>3. CASE Reg!CountEdges
  <2>1. /\ UNCHANGED <<plugins, edges, skipped, queue, adjacent, order>> /\ phase' = "fill" /\ at' = 1
        /\ waiting' = [i \in DOMAIN plugins |-> Reg!EdgesOf(i)]
        /\ queue = <<>> /\ adjacent = {} /\ order = <<>>
    BY <1>3 DEF Reg!CountEdges, Reg!graph, Indices
  <2>2. \A i \in DOMAIN plugins : ~(i < 1)
    BY Shapes
  <2>3. \A i : ~Reg!Ordered(i)' /\ ~Queued(i)' /\ Reg!EdgesOf(i)' = Reg!EdgesOf(i)
    BY <2>1 DEF Reg!Ordered, Queued, Reg!EdgesOf, Reg!Counted
  <2>4. CountsAreRight' /\ AdjacentAreLeft' /\ NothingIsLeft' /\ NoneTwice' /\ Reg!ProvidersComeFirst'
    BY <2>1, <2>3 DEF CountsAreRight, AdjacentAreLeft, NothingIsLeft, NoneTwice,
       Reg!ProvidersComeFirst, Sorting
  <2>5. ReadyAreQueued'
    BY <2>1, <2>2, <2>3 DEF ReadyAreQueued
  <2> QED
    BY <2>4, <2>5 DEF SortInv
<1>4. CASE Reg!Fill
  BY <1>4, FillStep
<1>5. CASE Reg!StartSort
  <2>1. /\ UNCHANGED <<plugins, edges, skipped, waiting, queue, adjacent, order>>
        /\ phase = "fill" /\ phase' = "sort" /\ at \notin DOMAIN plugins /\ at \in Nat \ {0}
    BY <1>5 DEF Reg!StartSort, Reg!graph, Reg!sort, Reg!TypeOK
  <2>2. \A i \in DOMAIN plugins : i < at
    BY <2>1, Shapes
  <2>3. CountsAreRight' /\ AdjacentAreLeft' /\ NothingIsLeft' /\ NoneTwice' /\ Reg!ProvidersComeFirst'
    BY <2>1 DEF SortInv, CountsAreRight, AdjacentAreLeft, NothingIsLeft, NoneTwice,
       Reg!ProvidersComeFirst, Sorting, Reg!Ordered, Reg!EdgesOf, Reg!Counted
  <2>4. ReadyAreQueued'
    BY <2>1, <2>2 DEF SortInv, ReadyAreQueued, Sorting, Queued, Reg!Ordered
  <2> QED
    BY <2>3, <2>4 DEF SortInv
<1>6. CASE Reg!Pop
  BY <1>6, PopStep
<1>7. CASE Reg!CountDown
  BY <1>7, CountDownStep
<1>8. CASE Reg!StartActivation
  BY <1>8, SortStays DEF Reg!StartActivation
<1>9. CASE Reg!Activate \/ Reg!Finish
  BY <1>9, SortStays DEF Reg!Activate, Reg!Finish, SortInv, NothingIsLeft
<1>10. CASE UNCHANGED Reg!vars
  BY <1>10 DEF Reg!vars, Reg!graph, Reg!sort, SortInv, CountsAreRight, AdjacentAreLeft,
     ReadyAreQueued, NothingIsLeft, NoneTwice, Reg!ProvidersComeFirst, Sorting, Queued,
     Reg!Ordered, Reg!EdgesOf, Reg!Counted
<1> QED
  BY <1>1, <1>2, <1>3, <1>4, <1>5, <1>6, <1>7, <1>8, <1>9, <1>10 DEF Reg!Next

-----------------------------------------------------------------------------
(* The registry.                                                           *)
RegistryInv ==
    /\ phase \in {"load", "graph", "fill", "sort"} => manifests = <<>>
    /\ Reg!RegistryIsTheOrder

LEMMA StepRegistry ==
    Reg!TypeOK /\ Indices /\ GraphInv /\ SortInv /\ RegistryInv /\ [Reg!Next]_(Reg!vars)
        => RegistryInv'
<1> SUFFICES ASSUME Reg!TypeOK, Indices, GraphInv, SortInv, RegistryInv, [Reg!Next]_(Reg!vars)
             PROVE  RegistryInv'
  OBVIOUS
<1>1. CASE Reg!Discover
  BY <1>1 DEF Reg!Discover, RegistryInv, Reg!RegistryIsTheOrder
<1>2. CASE \/ Reg!Take \/ Reg!MarkFailed \/ Reg!Link \/ Reg!GiveUp \/ Reg!DoWithout
           \/ Reg!NextPlugin \/ Reg!CountEdges
           \/ Reg!Fill \/ Reg!StartSort \/ Reg!Pop \/ Reg!CountDown
  <2>1. manifests' = manifests /\ phase' \in {"load", "graph", "fill", "sort"}
        /\ phase \in {"load", "graph", "fill", "sort"}
    BY <1>2 DEF Reg!Take, Reg!MarkFailed, Reg!Link, Reg!GiveUp, Reg!DoWithout, Reg!NextPlugin,
       Reg!CountEdges, Reg!Linking, Reg!Fill, Reg!StartSort, Reg!Pop, Reg!CountDown
  <2> QED
    BY <2>1 DEF RegistryInv, Reg!RegistryIsTheOrder
<1>3. CASE Reg!StartActivation
  <2>1. manifests' = <<>> /\ at' = 1 /\ phase' = "activate"
    BY <1>3 DEF Reg!StartActivation, RegistryInv
  <2> QED
    BY <2>1 DEF RegistryInv, Reg!RegistryIsTheOrder
<1>4. CASE Reg!Activate
  <2> DEFINE i == order[at]
  <2>1. /\ UNCHANGED <<plugins, skipped, order, phase>> /\ phase = "activate" /\ at' = at + 1
        /\ at \in DOMAIN order /\ at \in Nat \ {0} /\ manifests \in Seq(Reg!Plugin)
    BY <1>4 DEF Reg!Activate, Reg!graph, Reg!sort, Reg!TypeOK
  <2>2. i \in DOMAIN plugins /\ plugins[i] \in Reg!Plugin /\ Reg!Ordered(i)
    BY <2>1, Shapes DEF Reg!Ordered
  <2>3. i \notin skipped /\ plugins[i].status = "Ok"
    BY <2>1, <2>2 DEF SortInv, ReadyAreQueued, Sorting, GraphInv, FailedAreSkipped
  <2>4. /\ Len(manifests) = at - 1 /\ DOMAIN manifests = 1..(at - 1)
        /\ \A k \in DOMAIN manifests :
             /\ k \in DOMAIN order /\ manifests[k] = plugins[order[k]]
             /\ \A m \in DOMAIN manifests : manifests[m].id = manifests[k].id => m = k
    BY <2>1, SeqFacts DEF RegistryInv, Reg!RegistryIsTheOrder
  <2>5. \A m \in DOMAIN manifests : manifests[m].id # plugins[i].id
    <3> SUFFICES ASSUME NEW m \in DOMAIN manifests, manifests[m].id = plugins[i].id PROVE FALSE
      OBVIOUS
    <3>1. m \in DOMAIN order /\ m # at /\ manifests[m] = plugins[order[m]]
      BY <2>1, <2>4
    <3>2. order[m] \in DOMAIN plugins /\ Reg!Ordered(order[m]) /\ order[m] # i
      BY <2>1, <3>1, Shapes DEF Reg!Ordered, SortInv, NoneTwice
    <3>3. plugins[order[m]].status = "Ok"
      BY <2>1, <3>2 DEF SortInv, ReadyAreQueued, Sorting, GraphInv, FailedAreSkipped
    <3> QED
      BY <2>2, <2>3, <3>1, <3>2, <3>3 DEF GraphInv, IdsAreOwn
  <2>6. manifests' = Append(manifests, plugins[i])
    BY <1>4, <2>3, <2>5 DEF Reg!Activate, Reg!Admitted
  <2> HIDE DEF i
  <2>7. /\ Len(manifests') = at /\ DOMAIN manifests' = 1..at
        /\ \A k \in DOMAIN manifests : manifests'[k] = manifests[k]
        /\ manifests'[at] = plugins[i]
    BY <2>1, <2>2, <2>4, <2>6, AppendFacts
  <2>8. \A k \in DOMAIN manifests' : k \in DOMAIN manifests \/ k = at
    BY <2>1, <2>4, <2>7
  <2>9. ASSUME NEW k \in DOMAIN manifests'
        PROVE  /\ k \in DOMAIN order /\ manifests'[k] = plugins[order[k]]
               /\ \A m \in DOMAIN manifests' : manifests'[m].id = manifests'[k].id => m = k
    <3>1. k \in DOMAIN order /\ manifests'[k] = plugins[order[k]]
      BY <2>1, <2>4, <2>7, <2>8 DEF i
    <3>2. \A m \in DOMAIN manifests' : manifests'[m].id = manifests'[k].id => m = k
      BY <2>4, <2>5, <2>7, <2>8
    <3> QED
      BY <3>1, <3>2
  <2>10. at = at' - 1
    BY <2>1
  <2> QED
    BY <2>1, <2>7, <2>9, <2>10 DEF RegistryInv, Reg!RegistryIsTheOrder
<1>5. CASE Reg!Finish
  BY <1>5 DEF Reg!Finish, RegistryInv, Reg!RegistryIsTheOrder
<1>6. CASE UNCHANGED Reg!vars
  BY <1>6 DEF Reg!vars, Reg!graph, Reg!sort, RegistryInv, Reg!RegistryIsTheOrder
<1> QED
  BY <1>1, <1>2, <1>3, <1>4, <1>5, <1>6 DEF Reg!Next

LEMMA AllHolds == Reg!Spec => [](Reg!TypeOK /\ Indices /\ GraphInv /\ SortInv /\ RegistryInv)
<1>1. Reg!Init => RegistryInv
  BY DEF Reg!Init, RegistryInv, Reg!RegistryIsTheOrder
<1> QED
  BY <1>1, InitTyped, StepTyped, InitGraph, StepGraph, InitSort, StepSort, StepRegistry, PTL DEF
     Reg!Spec

-----------------------------------------------------------------------------
(* Kahn's algorithm keeps its word: whatever a plugin depends on stands      *)
(* before it in the order, unless it is skipped (topologicalSort).           *)
THEOREM OrderHolds == Reg!Spec => []Reg!ProvidersComeFirst
<1>1. SortInv => Reg!ProvidersComeFirst
  BY DEF SortInv
<1> QED
  BY <1>1, AllHolds, PTL

(* Nobody is forgotten: a plugin that is neither skipped nor in the order    *)
(* when the sort ends waits for another one like it, so only circles and     *)
(* what hangs on them stay out (topologicalSort).                            *)
THEOREM OnlyCirclesAreLeft == Reg!Spec => []Reg!OnlyCirclesStay
<1>1. Reg!TypeOK /\ Indices /\ SortInv => Reg!OnlyCirclesStay
  <2> SUFFICES ASSUME Reg!TypeOK, Indices, SortInv, phase = "activate",
                      NEW i \in DOMAIN plugins, i \notin skipped, ~Reg!Ordered(i)
               PROVE  \E e \in Reg!EdgesOf(i) : ~Reg!Ordered(edges[e].to)
    BY DEF Reg!OnlyCirclesStay
  <2>1. queue = <<>> /\ adjacent = {}
    BY DEF SortInv, NothingIsLeft
  <2>2. ~Queued(i)
    BY <2>1 DEF Queued
  <2>3. waiting[i] # {}
    BY <2>2 DEF SortInv, ReadyAreQueued, Sorting
  <2> QED
    BY <2>1, <2>3 DEF SortInv, CountsAreRight, Sorting
<1> QED
  BY <1>1, AllHolds, PTL

(* The registry holds the plugins of the order, one by one and none twice:   *)
(* no guard of activateInOrder or registerPlugin turns one away.             *)
THEOREM NoneIsTurnedAway == Reg!Spec => []Reg!RegistryIsTheOrder
<1>1. RegistryInv => Reg!RegistryIsTheOrder
  BY DEF RegistryInv
<1> QED
  BY <1>1, AllHolds, PTL

(* What a plugin requires stands before it or was given up in its turn, and  *)
(* no more than that: being given up does not reach those who asked for it   *)
(* (buildDependencyGraph).                                                   *)
THEOREM RequiredIsThereOrGivenUp == Reg!Spec => []Reg!RequiredIsThere
<1>1. Reg!TypeOK /\ Indices /\ GraphInv /\ SortInv => Reg!RequiredIsThere
  <2> SUFFICES ASSUME Reg!TypeOK, Indices, GraphInv, SortInv,
                      NEW k \in DOMAIN order, NEW n \in DOMAIN plugins[order[k]].depends,
                      plugins[order[k]].depends[n].required
               PROVE  \E i \in DOMAIN plugins :
                        /\ Reg!Answers(i, plugins[order[k]].depends[n])
                        /\ \/ plugins[i].status = "Unsatisfied"
                           \/ \E p \in 1..(k - 1) : order[p] = i
    BY DEF Reg!RequiredIsThere
  <2>1. phase \notin {"load", "graph"}
    BY DEF Indices
  <2>2. order[k] \in DOMAIN plugins /\ Reg!Ordered(order[k])
    BY Shapes DEF Reg!Ordered
  <2>3. order[k] \notin skipped /\ plugins[order[k]].status = "Ok"
    BY <2>1, <2>2 DEF SortInv, ReadyAreQueued, Sorting, GraphInv, FailedAreSkipped
  <2>4. PICK e \in DOMAIN edges :
          edges[e].from = order[k] /\ Reg!Answers(edges[e].to, plugins[order[k]].depends[n])
    BY <2>1, <2>2, <2>3 DEF GraphInv, RequiredIsLinked, Linked
  <2>5. edges[e].to \in DOMAIN plugins
    BY Shapes
  <2>6. CASE edges[e].to \in skipped
    BY <2>1, <2>4, <2>5, <2>6 DEF GraphInv, FailedAreSkipped, EdgesLeadOn
  <2>7. CASE edges[e].to \notin skipped
    <3>1. e \in Reg!EdgesOf(order[k])
      BY <2>3, <2>4, <2>7 DEF Reg!EdgesOf, Reg!Counted
    <3> QED
      BY <2>4, <2>5, <3>1 DEF SortInv, Reg!ProvidersComeFirst
  <2> QED
    BY <2>6, <2>7
<1> QED
  BY <1>1, AllHolds, PTL
=============================================================================
