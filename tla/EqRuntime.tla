------------------------------ MODULE EqRuntime ------------------------------
(***************************************************************************)
(* The equaliser: EqRuntime, the commands it serves and the three copies   *)
(* of its profile, in the audio pipeline controller, in the backend and in *)
(* the engine of the pipeline that plays (src/runtime, src/audio).  A      *)
(* profile is its gains, whether they are on, its name and its effect.     *)
(* Commands and ticks hold the mutex of the bus, so each is one step.      *)
(***************************************************************************)
EXTENDS Integers, Sequences

CONSTANTS Bands,          \* indices of the ten bands
          Presets,        \* names of builtinEqPresets, in their order, in capitals
          Gains,          \* the gains of each preset
          Custom,         \* the name of bands somebody moved
          Flat,           \* the name reset() gives
          Effects,        \* effects of the remix plugin, in their order
          Intensity,      \* default_intensity of each
          Off,            \* no effect
          Inputs,         \* numbers a command may carry
          MaxInt          \* the largest int of the build

Ints == (-MaxInt - 1)..MaxInt
Gain == -12..12

PresetAssumption ==
    /\ Flat # Custom
    /\ Presets \in Seq({Presets[n] : n \in DOMAIN Presets})
    /\ Effects \in Seq({Effects[n] : n \in DOMAIN Effects})
    /\ \A n \in DOMAIN Presets : Gains[Presets[n]] \in [Bands -> Int] /\ Presets[n] # Custom
    /\ Gains[Flat] = [b \in Bands |-> 0]

VARIABLES eq,        \* EqRuntimeState
          chain,     \* AudioPipelineController::dsp_chain_
          backend,   \* dsp_profile_ of the backend
          engine     \* the profile of pcm_pipeline_, or nothing

vars == <<eq, chain, backend, engine>>

Clamp(g) == IF g < -12 THEN -12 ELSE IF g > 12 THEN 12 ELSE g
HasNonZeroGain(bands) == \E b \in Bands : bands[b] # 0

\* Enabled without a gain is shown as on and does nothing.
ProfileOf(e) == [gains |-> e.bands, on |-> e.enabled /\ HasNonZeroGain(e.bands),
                 name |-> e.preset, effect |-> e.effect, intensity |-> e.intensity]

\* A sum that overflows is any number.
Sums(a, d) == IF a + d \in Ints THEN {a + d} ELSE Ints

-----------------------------------------------------------------------------
ApplyToPlayback(e) ==
    /\ eq' = e
    /\ chain' = ProfileOf(e)
    /\ backend' = chain'
    /\ engine' = IF engine = {} THEN {} ELSE {chain'}

Zeroed(e) == [e EXCEPT !.bands = [b \in Bands |-> 0], !.preset = Flat, !.enabled = FALSE]

\* The constructor of LoFiBoxApp calls resetEq() before anything can ask or play.
Init ==
    /\ eq = [bands |-> [b \in Bands |-> 0], preset |-> Flat, enabled |-> FALSE,
             effect |-> Off, intensity |-> 100]
    /\ chain = ProfileOf(eq) /\ backend = chain /\ engine = {}

SetEnabled == \E on \in BOOLEAN : ApplyToPlayback([eq EXCEPT !.enabled = on])

Moved(b, gain) ==
    LET bands == [eq.bands EXCEPT ![b] = Clamp(gain)]
    IN  [eq EXCEPT !.bands = bands, !.preset = Custom, !.enabled = HasNonZeroGain(bands)]

\* An index that is none is rejected and changes nothing.
SetBand == \E b \in Bands, gain \in Inputs \cap Int : ApplyToPlayback(Moved(b, gain))

AdjustBand ==
    \E b \in Bands, d \in Inputs \cap Int : \E gain \in Sums(eq.bands[b], d) :
      ApplyToPlayback(Moved(b, gain))

Preset(name) ==
    LET bands == [b \in Bands |-> Clamp(Gains[name][b])]
    IN  [eq EXCEPT !.bands = bands, !.preset = name, !.enabled = HasNonZeroGain(bands)]

ApplyPreset == \E n \in DOMAIN Presets : ApplyToPlayback(Preset(Presets[n]))

\* 0 for a name that is no preset: the indices of the code plus one.
IndexOf(name) == IF \E n \in DOMAIN Presets : Presets[n] = name
                 THEN CHOOSE n \in DOMAIN Presets : Presets[n] = name
                 ELSE 0

CyclePreset ==
    /\ Presets # <<>>
    /\ \E d \in Inputs \cap Int : \E sum \in Sums(IndexOf(eq.preset) - 1, d) :
         ApplyToPlayback(Preset(Presets[(sum % Len(Presets)) + 1]))

EffectIndex == IF \E n \in DOMAIN Effects : Effects[n] = eq.effect
               THEN CHOOSE n \in DOMAIN Effects : Effects[n] = eq.effect
               ELSE 0

\* Without an effect the intensity stays what it was.
WithEffect(n) ==
    IF n = 0 THEN [eq EXCEPT !.effect = Off]
    ELSE [eq EXCEPT !.effect = Effects[n], !.intensity = Intensity[Effects[n]]]

CycleAudioEffect ==
    /\ Effects # <<>>
    /\ \E d \in Inputs \cap Int :
         \E sum \in Sums(EffectIndex, IF d = 0 THEN 1 ELSE d) :
           ApplyToPlayback(WithEffect(sum % (Len(Effects) + 1)))

Reset == ApplyToPlayback(Zeroed(eq))

\* What played is retired or stopped, and the next pipeline starts or does not.
Start ==
    /\ backend' = chain
    /\ engine' \in {{}, {backend'}}
    /\ UNCHANGED <<eq, chain>>

Stop == engine' = {} /\ UNCHANGED <<eq, chain, backend>>

Next == \/ SetEnabled \/ SetBand \/ AdjustBand \/ ApplyPreset \/ CyclePreset
        \/ CycleAudioEffect \/ Reset \/ Start \/ Stop

Spec == Init /\ [][Next]_vars

-----------------------------------------------------------------------------
Names == {Flat, Custom} \cup {Presets[n] : n \in DOMAIN Presets}
EffectIds == {Off} \cup {Effects[n] : n \in DOMAIN Effects}
Intensities == {100} \cup {Intensity[Effects[n]] : n \in DOMAIN Effects}

TypeOK == eq \in [bands : [Bands -> Gain], preset : Names, enabled : BOOLEAN,
                  effect : EffectIds, intensity : Intensities]

(* What is heard is what is shown: the engine of the pipeline that plays has *)
(* the gains, the name and the effect of the state that clients read, over   *)
(* every order of commands, starts that fail and stops (applyToPlayback,     *)
(* AudioPipelineController::startFile, playArgument).                        *)
HeardAsShown ==
    /\ engine \subseteq {ProfileOf(eq)}
    /\ backend = ProfileOf(eq) /\ chain = ProfileOf(eq)

(* A name is true: bands shown under the name of a preset are its own, and   *)
(* moving one of them takes the name away (setBand, applyPreset, reset).     *)
NameIsTrue == eq.preset # Custom => eq.bands = [b \in Bands |-> Clamp(Gains[eq.preset][b])]
=============================================================================
