---------------------------- MODULE PluginRuntime ---------------------------
(***************************************************************************)
(* The host of one helper plugin (src/plugins/plugin_runtime.cpp): threads *)
(* that call it under one mutex, the helper process at the other end of    *)
(* two pipes, its crashes, delays and restarts.  Requests and answers are  *)
(* lines; a line carries the number of its request.                        *)
(***************************************************************************)
EXTENDS Integers, Sequences, FiniteSets

CONSTANTS Callers,
          NoCaller,
          Stopper,       \* the thread that calls stop()
          MaxRestarts,   \* restarts in one minute
          PipeSize,      \* requests the helper's input holds
          MaxCalls       \* bound: requests made

ASSUME PluginAssumption ==
    /\ NoCaller \notin Callers /\ Stopper \notin Callers \cup {NoCaller}
    /\ {MaxRestarts, PipeSize, MaxCalls} \subseteq Nat /\ PipeSize > 0

VARIABLES host,     \* pid_, stdout_buffer_, the restarts counted and next_request_id_
          helper,   \* the process: whether it lives, has begun to serve, was told to end
          input,    \* requests on their way to the helper
          output,   \* lines on their way from it
          call,     \* each caller: where it is, its request, the line it got
          mutex     \* the holder of call_mutex_

vars == <<host, helper, input, output, call, mutex>>

NoLine == [kind |-> "none", id |-> 0]
Line(kind, id) == [kind |-> kind, id |-> id]

NoHelper == [lives |-> FALSE, serves |-> FALSE, told |-> FALSE]

Init ==
    /\ host = [pid |-> FALSE, buffer |-> "empty", restarts |-> 0, minute |-> "none", next |-> 1]
    /\ helper = NoHelper
    /\ input = <<>> /\ output = <<>>
    /\ call = [c \in Callers |-> [at |-> "idle", id |-> 0, got |-> NoLine]]
    /\ mutex = NoCaller

-----------------------------------------------------------------------------
(* Starting and ending the process. *)

\* New pipes, a new process; the caller waits for its first line.
Spawn(c, at, counted) ==
    /\ host' = [counted EXCEPT !.pid = TRUE, !.buffer = "empty"]
    /\ helper' = [NoHelper EXCEPT !.lives = TRUE]
    /\ input' = <<>> /\ output' = <<>>
    /\ call' = [call EXCEPT ![c].at = at]

\* killProcess tells the helper to end (SIGTERM) and waits for that without a limit;
\* nothing forces it.  Only when it has ended is it forgotten and its pipes closed.
Tell ==
    /\ helper' = [helper EXCEPT !.told = helper.lives]
    /\ UNCHANGED <<host, input, output>>

Forget ==
    /\ ~helper.lives
    /\ host' = [host EXCEPT !.pid = FALSE, !.buffer = "empty"]
    /\ helper' = NoHelper
    /\ input' = <<>> /\ output' = <<>>

\* The call ends and gives the mutex back.
Returns(c, line) ==
    /\ call' = [call EXCEPT ![c] = [@ EXCEPT !.at = "idle", !.got = line]]
    /\ mutex' = NoCaller

-----------------------------------------------------------------------------
(* A call. *)

Ask(c) ==
    /\ call[c].at = "idle"
    /\ host.next + Cardinality({d \in Callers : call[d].at # "idle"}) <= MaxCalls
    /\ call' = [call EXCEPT ![c] = [at |-> "wants", id |-> 0, got |-> NoLine]]
    /\ UNCHANGED <<host, helper, input, output, mutex>>

\* It starts the helper when none is known; whether a known one lives shows later.
Enter(c) ==
    /\ call[c].at = "wants" /\ mutex = NoCaller
    /\ mutex' = c
    /\ IF host.pid
       THEN /\ call' = [call EXCEPT ![c].at = "number"]
            /\ UNCHANGED <<host, helper, input, output>>
       ELSE Spawn(c, "greet", host)

\* Mutant: a helper that did not greet is given up without being ended.
GreetsLeaving(c) ==
    /\ call[c].at \in {"greet", "greetAgain"}
    /\ Returns(c, NoLine)
    /\ host' = [host EXCEPT !.pid = FALSE]
    /\ UNCHANGED <<helper, input, output>>

\* The first line must be "ready"; any other, the end or the timeout end the helper.
Greets(c) ==
    /\ call[c].at \in {"greet", "greetAgain"}
    /\ IF output # <<>> /\ Head(output).kind = "ready"
       THEN /\ output' = Tail(output)
            /\ call' = [call EXCEPT ![c].at = IF @ = "greet" THEN "number" ELSE "writeAgain"]
            /\ UNCHANGED <<host, helper, input, mutex>>
       ELSE /\ Tell
            /\ call' = [call EXCEPT ![c].at = "reap"]
            /\ UNCHANGED mutex

Reaps(c) == call[c].at = "reap" /\ Forget /\ Returns(c, NoLine)

Number(c) ==
    /\ call[c].at = "number"
    /\ call' = [call EXCEPT ![c].at = "write", ![c].id = host.next]
    /\ host' = [host EXCEPT !.next = @ + 1]
    /\ UNCHANGED <<helper, input, output, mutex>>

\* A write waits while the pipe is full, with no limit of time.
Write(c) ==
    /\ call[c].at \in {"write", "writeAgain"} /\ helper.lives /\ Len(input) < PipeSize
    /\ input' = Append(input, call[c].id)
    /\ call' = [call EXCEPT ![c].at = "read"]
    /\ UNCHANGED <<host, helper, output, mutex>>

\* Only a failed write restarts the helper, so often in a minute.
WriteFails(c) ==
    /\ call[c].at = "write" /\ ~helper.lives
    /\ LET counted == IF host.minute = "runs" THEN host
                      ELSE [host EXCEPT !.minute = "runs", !.restarts = 0]
       IN  IF counted.restarts >= MaxRestarts
           THEN /\ Returns(c, NoLine) /\ host' = counted
                /\ UNCHANGED <<helper, input, output>>
           ELSE /\ Spawn(c, "greetAgain", [counted EXCEPT !.restarts = @ + 1])
                /\ UNCHANGED mutex

WriteFailsAgain(c) ==
    /\ call[c].at = "writeAgain" /\ ~helper.lives
    /\ Returns(c, NoLine)
    /\ UNCHANGED <<host, helper, input, output>>

\* Mutant: any answer will do.
FirstNumberAny(c, line) == IF line.kind = "list" THEN 0 ELSE call[c].id

\* The number of a line is what follows the first "id" in it; in a list of
\* items that is the first item's, which is a string and no number.
FirstNumber(c, line) == IF line.kind = "list" THEN 0 ELSE line.id

\* One line is taken.  Lines of other requests are skipped; a line too long fails
\* this call, and the next one when the rest of it arrives.
ReadLine(c) ==
    /\ call[c].at = "read"
    /\ UNCHANGED <<helper, input>>
    /\ \/ /\ host.buffer = "line"
          /\ host' = [host EXCEPT !.buffer = "empty"]
          /\ UNCHANGED <<output, call, mutex>>
       \/ /\ host.buffer # "line" /\ output # <<>>
          /\ output' = Tail(output)
          /\ LET line == Head(output)
                 own == line.kind # "ready" /\ FirstNumber(c, line) = call[c].id
             IN  \/ /\ line.kind \in {"long", "rest"}
                    /\ host' = [host EXCEPT !.buffer = IF line.kind = "long" THEN "long"
                                                      ELSE "line"]
                    /\ Returns(c, NoLine)
                 \/ /\ line.kind \notin {"long", "rest"} /\ ~own
                    /\ UNCHANGED <<host, call, mutex>>
                 \/ /\ line.kind \notin {"long", "rest"} /\ own
                    /\ Returns(c, IF line.kind = "error" THEN NoLine ELSE line)
                    /\ UNCHANGED host

\* Mutant: the time left is not looked at.
WaitOn(c) ==
    /\ call[c].at = "read" /\ output = <<>> /\ host.buffer # "line" /\ ~helper.lives
    /\ Returns(c, NoLine)
    /\ UNCHANGED <<host, helper, input, output>>

\* The helper's end, or the timeout.
ReadNothing(c) ==
    /\ call[c].at = "read" /\ output = <<>> /\ host.buffer # "line"
    /\ Returns(c, NoLine)
    /\ UNCHANGED <<host, helper, input, output>>

GoesOn(c) ==
    \/ Enter(c) \/ Greets(c) \/ Reaps(c) \/ Number(c) \/ Write(c) \/ WriteFails(c)
    \/ WriteFailsAgain(c) \/ ReadLine(c) \/ ReadNothing(c)

\* stop() and the destructor.
Stop ==
    /\ mutex = NoCaller
    /\ mutex' = Stopper
    /\ Tell
    /\ UNCHANGED call

Stopped ==
    /\ mutex = Stopper /\ ~helper.lives
    /\ mutex' = NoCaller
    /\ host' = [host EXCEPT !.pid = FALSE, !.buffer = "empty", !.restarts = 0]
    /\ helper' = NoHelper
    /\ input' = <<>> /\ output' = <<>>
    /\ UNCHANGED call

MinuteEnds ==
    /\ host.minute = "runs"
    /\ host' = [host EXCEPT !.minute = "over"]
    /\ UNCHANGED <<helper, input, output, call, mutex>>

-----------------------------------------------------------------------------
(* The helper. *)

\* Its first line is the greeting, or something else.
Greet ==
    /\ helper.lives /\ ~helper.serves
    /\ helper' = [helper EXCEPT !.serves = TRUE]
    /\ \E kind \in {"ready", "noise"} : output' = Append(output, Line(kind, 0))
    /\ UNCHANGED <<host, input, call, mutex>>

\* It answers in its own time: with a value, an error, a list of items, or more
\* than the host takes, which comes in two pieces.
Answers(id) == {<<Line("value", id)>>, <<Line("error", id)>>, <<Line("list", id)>>,
                <<Line("long", id), Line("rest", id)>>}

Serve ==
    /\ helper.lives /\ helper.serves /\ input # <<>>
    /\ input' = Tail(input)
    /\ \E lines \in Answers(Head(input)) : output' = output \o lines
    /\ UNCHANGED <<host, helper, call, mutex>>

\* Told to or by itself.
Dies ==
    /\ helper.lives
    /\ helper' = NoHelper
    /\ input' = <<>>
    /\ UNCHANGED <<host, output, call, mutex>>

Next ==
    \/ \E c \in Callers : Ask(c) \/ GoesOn(c)
    \/ Stop \/ Stopped \/ MinuteEnds \/ Greet \/ Serve \/ Dies

Spec == Init /\ [][Next]_vars

(***************************************************************************)
(* The callers run on, timeouts included, and the helper does not stop to   *)
(* read its input.  It need not greet nor end when it is told to, and nobody *)
(* needs to call.                                                           *)
(***************************************************************************)
FairSpec ==
    Spec /\ WF_vars(Serve) /\ WF_vars(Stopped) /\ \A c \in Callers : WF_vars(GoesOn(c))

-----------------------------------------------------------------------------
(* Properties. *)

(* A caller gets the answer to its own request or none, whatever late answers *)
(* of requests that timed out, halves of long lines and lines of a helper that *)
(* has died are still on their way, if the ids of the items helpers list are   *)
(* strings, as in docs/specification/lofibox-zero-plugin-system-spec.md:385.   *)
AnswersAreOwn ==
    \A c \in Callers :
        call[c].got # NoLine => call[c].got.id = call[c].id /\ call[c].got.kind = "value"

(* No helper is left behind: one that lives is known to the host, after      *)
(* greetings that failed and restarts too.                                   *)
HelperIsKnown == helper.lives => host.pid

\* A helper that does not end although it was told to.
Ignores == helper.lives /\ helper.told

(* Whoever holds the mutex, a caller or stop(), gives it back, as long as a   *)
(* helper that lives reads its input: a call whose helper is silent, babbles,  *)
(* dies or answers too much gives up, and the next caller has its turn.  The   *)
(* exception is a helper that ignores SIGTERM for ever: it is waited for       *)
(* without a limit, with the mutex held.                                      *)
CallsEnd ==
    (\A c \in Callers \cup {Stopper} : mutex = c ~> mutex # c) \/ <>[]Ignores

(* docs/specification/lofibox-zero-plugin-system-spec.md:361: a helper is     *)
(* asked to browse and answers with items, each with its id (line 385); the    *)
(* caller takes the answer to its request when it reads it.                  *)
AnswersAreTaken ==
    [][\A c \in Callers :
         /\ call[c].at = "read" /\ host.buffer # "line" /\ output # <<>>
         /\ Head(output).id = call[c].id /\ Head(output).kind \in {"value", "list"}
         /\ output' = Tail(output)
         => call'[c].got = Head(output)]_vars
=============================================================================
