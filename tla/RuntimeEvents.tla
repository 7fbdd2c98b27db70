---------------------------- MODULE RuntimeEvents ---------------------------
(***************************************************************************)
(* The runtime as its clients see it: a snapshot that commands and ticks   *)
(* change under the mutex of the command bus, and the events made from two *)
(* snapshots (src/runtime/runtime_event.cpp).  A domain of the snapshot    *)
(* (playback, queue, eq, ...) is a count of the changes it has seen; one   *)
(* step of "progress" is the time of one frame, below what is reported.    *)
(***************************************************************************)
EXTENDS Integers, Sequences

CONSTANTS Domains,       \* the domains that move in this instance
          ProgressStep,  \* frames of progress that make an event
          MaxShown,      \* bound: changes of one domain, in one run of the program
          NoSnapshot

DomainOrder ==
    <<"playback", "progress", "error", "queue", "eq", "remote", "settings", "lyrics",
      "line", "visualization", "library", "diagnostics", "creator">>

ASSUME EventsAssumption ==
    /\ Domains \subseteq {DomainOrder[i] : i \in DOMAIN DomainOrder}
    /\ ProgressStep \in Nat \ {0}
    /\ MaxShown \in Nat

VARIABLE runtime   \* the program's run and the state shown

Snapshots == [life : Nat, shown : [Domains -> 0..MaxShown]]

Fresh(life) == [life |-> life, shown |-> [d \in Domains |-> 0]]

-----------------------------------------------------------------------------
(* Changes. *)

\* What a command, a tick, the answer to a lookup or a scan does, under the
\* mutex of the bus.
Change ==
    \E d \in Domains :
        /\ runtime.shown[d] < MaxShown
        /\ runtime' = [runtime EXCEPT !.shown[d] = @ + 1]

-----------------------------------------------------------------------------
(* Events. *)

Changed(d, before, after) ==
    IF d = "progress" THEN after - before >= ProgressStep ELSE before # after

\* A new subscriber is greeted, and told of what is available; later events
\* say which domains differ.
EventsBetween(previous, next) ==
    LET told(d) == d \in Domains /\ next.shown[d] > 0
        moved(d) == d \in Domains /\ Changed(d, previous.shown[d], next.shown[d])
    IN  IF previous = NoSnapshot
        THEN <<"connected", "snapshot">>
               \o SelectSeq(<<"visualization", "lyrics", "line", "creator">>, told)
        ELSE SelectSeq(DomainOrder, moved)

=============================================================================
