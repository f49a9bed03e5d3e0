------------------------------ MODULE Controls ------------------------------
(***************************************************************************)
(* Two controls that answer a press: the copy button, and feedback.        *)
(***************************************************************************)
EXTENDS Naturals, Sequences

(*****************************************************************************)
(* The button that copies a value (components/copy-button.tsx): a press asks *)
(* the clipboard, and the answer is shown: a success for two seconds, a      *)
(* failure, with the value selected, until a later success.                  *)
(*****************************************************************************)

CONSTANT MaxCopies                   \* bound on presses in flight

ASSUME CopyAssumption == MaxCopies \in Nat

VARIABLES
    copyShown,       \* state
    copyTimer,       \* the timer back to rest
    writesOut,       \* writeText calls in flight
    copyMounted,
    lastOutcome      \* history: what the last answer was

copyVars == <<copyShown, copyTimer, writesOut, copyMounted, lastOutcome>>

CopyInit ==
    /\ copyShown = "idle" /\ copyTimer = FALSE /\ writesOut = 0 /\ copyMounted = TRUE /\ lastOutcome = "none"

CopyPressed ==
    /\ copyMounted /\ writesOut < MaxCopies /\ writesOut' = writesOut + 1
    /\ UNCHANGED <<copyShown, copyTimer, copyMounted, lastOutcome>>

Copied ==                            \* settle
    /\ writesOut > 0 /\ writesOut' = writesOut - 1 /\ copyTimer' = TRUE /\ lastOutcome' = "copied"
    /\ copyShown' = IF copyMounted THEN "copied" ELSE copyShown
    /\ UNCHANGED copyMounted

CopyRefused ==                       \* or no clipboard at all
    /\ writesOut > 0 /\ writesOut' = writesOut - 1 /\ copyTimer' = FALSE /\ lastOutcome' = "failed"
    /\ copyShown' = IF copyMounted THEN "failed" ELSE copyShown
    /\ UNCHANGED copyMounted

CopyTimerFires ==
    /\ copyTimer /\ copyTimer' = FALSE
    /\ copyShown' = IF copyMounted THEN "idle" ELSE copyShown
    /\ UNCHANGED <<writesOut, copyMounted, lastOutcome>>

CopyLeaves ==
    /\ copyMounted /\ copyMounted' = FALSE /\ copyTimer' = FALSE
    /\ UNCHANGED <<copyShown, writesOut, lastOutcome>>

CopyNext == CopyPressed \/ Copied \/ CopyRefused \/ CopyTimerFires \/ CopyLeaves

CopySpec == CopyInit /\ [][CopyNext]_copyVars

-----------------------------------------------------------------------------
CopyTypeOK ==
    /\ copyShown \in {"idle", "copied", "failed"} /\ copyTimer \in BOOLEAN /\ writesOut \in 0..MaxCopies

(* "Copied" is never shown for a value that was not, and a failure stays until a copy   *)
(* succeeds: no timer of an earlier success takes its selected value away, whatever the *)
(* order the clipboard answers in.                                                      *)
FailureStands ==
    copyMounted => /\ lastOutcome = "failed" => copyShown = "failed"
                   /\ copyShown = "copied" => lastOutcome = "copied" /\ copyTimer

-----------------------------------------------------------------------------
(******************************************************************************)
(* The tick that answers a press, delegated from the document                 *)
(* (lib/feedback.ts).  One press reaches the page as one to three events, and *)
(* some engines report a touch's late click as the keyboard's.                *)
(******************************************************************************)

CONSTANTS
    Control,         \* what can be pressed; Drawn of them are SVG with role="button"
    Drawn,
    NoControl,
    MinInterval,     \* MIN_INTERVAL_MS and POINTER_ECHO_MS, in steps of the clock
    PointerEcho,
    ClickGap,        \* a touch's click comes at most this long after its pointerdown
    MaxTime, MaxPressed                      \* bounds on the clock and the presses

ASSUME EchoAssumption ==
    /\ {MinInterval, PointerEcho, ClickGap, MaxTime, MaxPressed} \subseteq Nat
    /\ ClickGap < PointerEcho /\ Drawn \subseteq Control /\ NoControl \notin Control

VARIABLES
    now,
    presses,         \* each press: its control, kind and time, its click still to come, its ticks
    lastFired,       \* lastFiredAt, 0 for never
    lastPointer,     \* lastPointerControl and lastPointerAt
    sound,           \* the preference, as the storage has it
    audio,           \* "none" or "open": the audio context
    heard            \* history: sound has been on since the listeners were attached

feedbackVars == <<now, presses, lastFired, lastPointer, sound, audio, heard>>

NeverPointed == [control |-> NoControl, at |-> 0]

FeedbackInit ==
    /\ now = MinInterval /\ presses = <<>> /\ lastFired = 0 /\ lastPointer = NeverPointed
    /\ sound = FALSE /\ audio = "none" /\ heard = FALSE

ClockMoves ==
    /\ now < MaxTime /\ now' = now + 1
    /\ \A n \in DOMAIN presses : presses[n].due => now < presses[n].at + ClickGap
    /\ UNCHANGED <<presses, lastFired, lastPointer, sound, audio, heard>>

(* fire: nothing within MinInterval of the last tick.  The tone builds its context. *)
Throttled == now - lastFired < MinInterval
Tone == audio' = IF sound THEN "open" ELSE audio
Fires(ps, n) ==
    IF Throttled THEN presses' = ps /\ UNCHANGED <<lastFired, audio>>
    ELSE /\ presses' = [ps EXCEPT ![n].ticks = @ + 1]
         /\ lastFired' = now /\ Tone

Pressed(c, kind) ==
    Append(presses, [control |-> c, kind |-> kind, at |-> now, due |-> kind = "touch", ticks |-> 0])

(* onPointerDown, of a mouse or a finger. *)
PointerDown(c, kind) ==
    /\ Len(presses) < MaxPressed
    /\ lastPointer' = [control |-> c, at |-> now]
    /\ Fires(Pressed(c, kind), Len(presses) + 1)
    /\ UNCHANGED <<now, sound, heard>>

(* onClick with a detail of zero: a native button's keyboard, or a touch's echo. *)
IsEcho(c) == c = lastPointer.control /\ now - lastPointer.at < PointerEcho
Clicked(c, ps, n) ==
    IF IsEcho(c) THEN presses' = ps /\ UNCHANGED <<lastFired, audio>> ELSE Fires(ps, n)

KeyOnButton(c) ==
    /\ c \notin Drawn /\ Len(presses) < MaxPressed
    /\ Clicked(c, Pressed(c, "key"), Len(presses) + 1)
    /\ UNCHANGED <<now, lastPointer, sound, heard>>

(* onKeyDown answers for those that synthesise no click. *)
KeyOnDrawn(c) ==
    /\ c \in Drawn /\ Len(presses) < MaxPressed
    /\ Fires(Pressed(c, "key"), Len(presses) + 1)
    /\ UNCHANGED <<now, lastPointer, sound, heard>>

TouchClicks(n) ==
    /\ presses[n].due
    /\ Clicked(presses[n].control, [presses EXCEPT ![n].due = FALSE], n)
    /\ UNCHANGED <<now, lastPointer, sound, heard>>

(* A detail of one, or none at all: a submit is disabled by its own press. *)
TouchClickPasses(n) ==
    /\ presses[n].due /\ presses' = [presses EXCEPT ![n].due = FALSE]
    /\ UNCHANGED <<now, lastFired, lastPointer, sound, audio, heard>>

StoredAs(on) == sound' = on /\ heard' = (heard \/ on)

(* preview: a channel just switched on demonstrates itself. *)
Previewed == audio' = IF sound' THEN "open" ELSE audio

SoundToggled ==
    /\ StoredAs(~sound) /\ Previewed
    /\ UNCHANGED <<now, presses, lastFired, lastPointer>>

SoundSetElsewhere ==                     \* the storage event of another tab
    /\ StoredAs(~sound) /\ UNCHANGED <<now, presses, lastFired, lastPointer, audio>>

(* The teardown of startFeedback, and its next start. *)
FeedbackRestarted ==
    /\ audio = "open" /\ audio' = "none" /\ heard' = sound
    /\ UNCHANGED <<now, presses, lastFired, lastPointer, sound>>

FeedbackNext ==
    \/ ClockMoves \/ FeedbackRestarted
    \/ \E c \in Control : \/ \E kind \in {"mouse", "touch"} : PointerDown(c, kind)
                          \/ KeyOnButton(c) \/ KeyOnDrawn(c)
    \/ \E n \in DOMAIN presses : TouchClicks(n) \/ TouchClickPasses(n)
    \/ SoundToggled \/ SoundSetElsewhere

FeedbackSpec == FeedbackInit /\ [][FeedbackNext]_feedbackVars

-----------------------------------------------------------------------------
FeedbackTypeOK ==
    /\ now \in 0..MaxTime /\ Len(presses) <= MaxPressed /\ lastFired \in 0..now
    /\ sound \in BOOLEAN /\ audio \in {"none", "open"}

(* "stop a press being answered twice": a press ticks once at most, whatever events     *)
(* its engine makes of it, unless another control was pointed at before its click came. *)
PressesAnsweredOnce ==
    \A n \in DOMAIN presses :
        \/ presses[n].ticks <= 1
        \/ \E m \in DOMAIN presses : m > n /\ presses[m].kind # "key" /\ presses[m].control # presses[n].control

(* "Sound is off until asked for": the tab opens no audio before it was. *)
SilentUntilAsked == audio = "open" => heard
=============================================================================
