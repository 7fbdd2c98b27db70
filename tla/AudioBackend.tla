---------------------------- MODULE AudioBackend ----------------------------
(***************************************************************************)
(* What an audio backend promises the playback session (AudioPlaybackState *)
(* and AudioPlaybackBackend of src/app/runtime_services.h): the states it  *)
(* reports, and the order they may come in.  PcmPipeline implements it and *)
(* the backend of Playback is this one with sounded hidden.                *)
(***************************************************************************)
VARIABLES state,    \* the AudioPlaybackState it reports
          sounded   \* audio has been handed to the sink since the start

Active == {"Starting", "Playing", "Paused"}

Init == state = "Idle" /\ sounded = FALSE

Start == state = "Idle" /\ state' = "Starting" /\ sounded' = FALSE

Sound == state \in Active /\ sounded' = TRUE /\ UNCHANGED state

Confirm == state = "Starting" /\ sounded /\ state' = "Playing" /\ UNCHANGED sounded

Pause ==
    /\ state \in {"Starting", "Playing"}
    /\ state' = "Paused"
    /\ UNCHANGED sounded

\* Only output that had begun is Playing again.
Resume ==
    /\ state = "Paused"
    /\ \/ state' = "Starting"
       \/ sounded /\ state' = "Playing"
    /\ UNCHANGED sounded

\* A stream that was never heard cannot have come to its end.
Finish == state \in Active /\ sounded /\ state' = "Finished" /\ UNCHANGED sounded

Fail == state \in Active /\ state' = "Failed" /\ UNCHANGED sounded

Stop == state # "Idle" /\ state' = "Idle" /\ sounded' = FALSE

Next == Start \/ Sound \/ Confirm \/ Pause \/ Resume \/ Finish \/ Fail \/ Stop

Spec == Init /\ [][Next]_<<state, sounded>>
=============================================================================
