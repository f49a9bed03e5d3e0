--------------------------------- MODULE Orb --------------------------------
(*******************************************************************************)
(* The orb that shows a voice (components/ui/voice-powered-orb.tsx): an effect *)
(* that holds the microphone while a session listens, and one that holds a     *)
(* WebGL context and draws a frame at a time while the orb is on screen.       *)
(* Each microphone effect waits for the permission and for its audio context,  *)
(* and may be cleaned up while it waits.                                       *)
(*******************************************************************************)
EXTENDS Naturals

CONSTANT MaxMics                     \* bound on the times the microphone is asked for

ASSUME OrbAssumption == MaxMics \in Nat

Mic == 1..MaxMics

VARIABLES
    orbShown, reduced,   \* the component is mounted; less motion is preferred
    listens,         \* enableVoiceControl
    mic,             \* mic[n]: where the n-th microphone effect stands
    micNow,          \* the effect that has not been cleaned up, 0 for none
    analyser,        \* analyserRef: the effect whose analyser it is, 0 for none
    contexts,        \* WebGL contexts that are alive
    picture,         \* data-state, "none" without a host
    frameAsked,      \* frameId
    orbOnScreen         \* what the observer last said

orbVars == <<orbShown, reduced, listens, mic, micNow, analyser, contexts, picture, frameAsked, orbOnScreen>>
micVars == <<listens, mic, micNow, analyser>>
drawnVars == <<contexts, picture, frameAsked, orbOnScreen>>

(* asking for the stream, resuming with it open, open, or torn down *)
MicStates == {"unused", "asking", "resuming", "open", "over"}
Holds(s) == s \in {"resuming", "open"}

-----------------------------------------------------------------------------
(* The microphone. *)

Opened(n) == mic' = [mic EXCEPT ![n] = "asking"] /\ micNow' = n

(* teardown nulls the shared analyser whatever effect it is of. *)
TornDown(n, m) == [m EXCEPT ![n] = IF Holds(@) THEN "over" ELSE @]

(* The effect runs anew whenever listens and reduced say otherwise than before. *)
MicEffect(on) ==
    IF on
    THEN /\ \E n \in Mic : /\ mic[n] = "unused" /\ \A k \in Mic : k < n => mic[k] # "unused"
                           /\ Opened(n)
         /\ UNCHANGED analyser
    ELSE IF micNow = 0 THEN UNCHANGED <<mic, micNow, analyser>>
    ELSE mic' = TornDown(micNow, mic) /\ micNow' = 0 /\ analyser' = 0

ListensOrNot ==
    /\ orbShown /\ listens' = ~listens
    /\ IF reduced THEN UNCHANGED <<mic, micNow, analyser>> ELSE MicEffect(listens')
    /\ UNCHANGED <<orbShown, reduced, drawnVars>>

(* getUserMedia answers: the effect may be over by then, or the browser refuses. *)
StreamAnswered(n) ==
    /\ mic[n] = "asking"
    /\ \/ /\ micNow = n /\ mic' = [mic EXCEPT ![n] = "resuming"] /\ UNCHANGED analyser
       \/ mic' = [mic EXCEPT ![n] = "over"] /\ analyser' = 0
    /\ UNCHANGED <<orbShown, reduced, listens, micNow, drawnVars>>

(* The audio context runs; torn down by the clean-up, a late one changes nothing. *)
Resumed(n) ==
    /\ mic[n] = "resuming"
    /\ mic' = [mic EXCEPT ![n] = "open"] /\ analyser' = n
    /\ UNCHANGED <<orbShown, reduced, listens, micNow, drawnVars>>

-----------------------------------------------------------------------------
(* The picture. *)

PictureGone ==
    /\ contexts' = IF picture \in {"ready", "live"} THEN contexts - 1 ELSE contexts
    /\ frameAsked' = FALSE /\ orbOnScreen' = TRUE

(* Without a context, or a scene on it, the orb is a still gradient. *)
PictureMade(still) ==
    \/ still /\ picture' = "still" /\ UNCHANGED <<contexts, frameAsked, orbOnScreen>>
    \/ ~still /\ picture' = "fallback" /\ UNCHANGED <<contexts, frameAsked, orbOnScreen>>
    \/ /\ ~still /\ picture' = "ready" /\ contexts' = contexts + 1
       /\ frameAsked' = TRUE /\ orbOnScreen' = TRUE

OrbMounts ==
    /\ ~orbShown /\ orbShown' = TRUE /\ PictureMade(reduced)
    /\ IF listens /\ ~reduced THEN MicEffect(TRUE) ELSE UNCHANGED <<mic, micNow, analyser>>
    /\ UNCHANGED <<reduced, listens>>

OrbLeaves ==
    /\ orbShown /\ orbShown' = FALSE /\ picture' = "none" /\ PictureGone
    /\ MicEffect(FALSE) /\ UNCHANGED <<reduced, listens>>

(* Both effects depend on the preference; the picture is made again without one. *)
MotionPreferred(on) ==
    /\ orbShown /\ reduced # on /\ reduced' = on
    /\ IF on THEN PictureGone /\ picture' = "still" ELSE PictureMade(FALSE)
    /\ IF listens THEN MicEffect(~on) ELSE UNCHANGED <<mic, micNow, analyser>>
    /\ UNCHANGED <<orbShown, listens>>

OrbSeen(seen) ==                     \* the observer
    /\ picture \in {"ready", "live"} /\ orbOnScreen' = seen
    /\ frameAsked' = (frameAsked \/ seen)
    /\ UNCHANGED <<orbShown, reduced, micVars, contexts, picture>>

Draws ==                             \* frame: the last one asked for out of sight draws nothing
    /\ frameAsked /\ frameAsked' = orbOnScreen
    /\ picture' = IF orbOnScreen THEN "live" ELSE picture
    /\ UNCHANGED <<orbShown, reduced, micVars, contexts, orbOnScreen>>

OrbInit ==
    /\ orbShown = FALSE /\ reduced \in BOOLEAN /\ listens = FALSE
    /\ mic = [n \in Mic |-> "unused"] /\ micNow = 0 /\ analyser = 0
    /\ contexts = 0 /\ picture = "none" /\ frameAsked = FALSE /\ orbOnScreen = TRUE

OrbNext ==
    \/ OrbMounts \/ OrbLeaves \/ ListensOrNot \/ Draws
    \/ \E on \in BOOLEAN : MotionPreferred(on) \/ OrbSeen(on)
    \/ \E n \in Mic : StreamAnswered(n) \/ Resumed(n)

OrbSpec == OrbInit /\ [][OrbNext]_orbVars

-----------------------------------------------------------------------------
OrbTypeOK ==
    /\ mic \in [Mic -> MicStates] /\ {micNow, analyser} \subseteq {0} \cup Mic
    /\ picture \in {"none", "still", "fallback", "ready", "live"} /\ contexts \in 0..1
    /\ {orbShown, reduced, listens, frameAsked, orbOnScreen} \subseteq BOOLEAN

(* Every microphone and every context the orb took is given back: only the effect that *)
(* stands holds a stream, only a picture that draws holds a context, and only it has a *)
(* frame to come; across permissions that arrive after the press of stop.              *)
OrbHoldsNothingElse ==
    /\ \A n \in Mic : Holds(mic[n]) => n = micNow
    /\ contexts = (IF picture \in {"ready", "live"} THEN 1 ELSE 0)
    /\ frameAsked => picture \in {"ready", "live"}
    /\ analyser # 0 => mic[analyser] = "open"

(* A microphone that is open is the one the orb draws.  (Not so when an earlier request *)
(* is answered after it: its teardown takes the shared analyser with it.)               *)
OpenMicIsDrawn == \A n \in Mic : mic[n] = "open" => analyser = n
=============================================================================
