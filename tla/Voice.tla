-------------------------------- MODULE Voice -------------------------------
(*****************************************************************************)
(* Voice input of the question box: useVoiceInput (lib/voice-input.ts) over  *)
(* the browser's recogniser, with the microphone stream the orb opens for    *)
(* its picture (components/ui/voice-powered-orb.tsx).                        *)
(*                                                                           *)
(* Every session makes a recogniser of its own, whose events arrive whenever *)
(* the browser sends them, also after the hook has moved on; what keeps an   *)
(* old session's events off a new one is that cancel takes its handlers off  *)
(* first.  The orb asks for a second stream and may be granted it after the  *)
(* session is over.                                                          *)
(*****************************************************************************)
EXTENDS Naturals

CONSTANT MaxSessions                 \* bound on the sessions of one page

ASSUME VoiceAssumption == MaxSessions \in Nat

Session == 1..MaxSessions

VARIABLES
    voiceStatus,     \* the hook's status
    rec,             \* recognitionRef: the session in hand, 0 for none
    engine,          \* engine[n]: the browser's side of session n
    handlers,        \* handlers[n]: session n's events still reach the hook
    ceiling,         \* the session whose 30 s timer is armed, 0 for none
    orb,             \* orb[n]: the stream the orb opened for session n
    attached         \* a question box takes the words

voiceVars == <<voiceStatus, rec, engine, handlers, ceiling, orb, attached>>

Listening == voiceStatus # "idle"
Hot == {"starting", "hearing", "stopping"}       \* the recogniser holds the microphone
EngineStates == {"unused", "aborted", "over"} \cup Hot

VoiceInit ==
    /\ voiceStatus = "idle" /\ rec = 0 /\ ceiling = 0
    /\ engine = [n \in Session |-> "unused"]
    /\ handlers = [n \in Session |-> FALSE]
    /\ orb = [n \in Session |-> "none"]
    /\ attached = TRUE

(* The orb's effect is cleaned up when listening ends: an open stream is         *)
(* stopped at once; one still being asked for only learns that it was cancelled. *)
OrbLeftOpen == orb                                                   \* a defect
OrbClosed == [n \in Session |-> IF orb[n] = "open" THEN "closed" ELSE orb[n]]

-----------------------------------------------------------------------------
(* start(): onto a recogniser that starts, or one whose start() throws. *)
VoiceStart(n) ==
    /\ attached /\ rec = 0 /\ engine[n] = "unused"
    /\ \A m \in Session : m < n => engine[m] # "unused"
    /\ handlers' = [handlers EXCEPT ![n] = TRUE]
    /\ \/ /\ rec' = n /\ ceiling' = n /\ voiceStatus' = "starting"
          /\ engine' = [engine EXCEPT ![n] = "starting"]
          /\ orb' \in {orb, [orb EXCEPT ![n] = "asking"]}      \* reduced motion asks for none
       \/ /\ engine' = [engine EXCEPT ![n] = "over"]
          /\ UNCHANGED <<rec, ceiling, voiceStatus, orb>>
    /\ UNCHANGED attached

(* cancel() with a session in hand: handlers off, abort, release, idle. *)
CancelEffect ==
    /\ handlers' = [handlers EXCEPT ![rec] = FALSE]
    /\ engine' = [engine EXCEPT ![rec] = IF @ = "over" THEN @ ELSE "aborted"]
    /\ rec' = 0 /\ ceiling' = 0 /\ voiceStatus' = "idle"
    /\ orb' = OrbClosed

(* Escape, a hidden tab, a page being left, the component unmounting. *)
VoiceCancel == rec # 0 /\ CancelEffect /\ UNCHANGED attached

(* The detach that attach returned: the box turned into evidence search. *)
VoiceDetach ==
    /\ attached /\ attached' = FALSE
    /\ \/ rec # 0 /\ CancelEffect
       \/ rec = 0 /\ UNCHANGED <<voiceStatus, rec, engine, handlers, ceiling, orb>>

(* stop(): the button, or the ceiling's timer on its own session. *)
VoiceStop ==
    /\ rec # 0 /\ voiceStatus # "stopping"
    /\ voiceStatus' = "stopping"
    /\ engine' = [engine EXCEPT ![rec] = IF @ \in Hot THEN "stopping" ELSE @]
    /\ UNCHANGED <<rec, handlers, ceiling, orb, attached>>

CeilingForgotten ==                                                  \* a defect
    /\ ceiling # 0 /\ ceiling' = 0
    /\ UNCHANGED <<voiceStatus, rec, engine, handlers, orb, attached>>

CeilingFires ==
    /\ ceiling # 0 /\ ceiling' = 0
    /\ IF rec = ceiling
       THEN /\ voiceStatus' = "stopping"
            /\ engine' = [engine EXCEPT ![rec] = IF @ \in Hot THEN "stopping" ELSE @]
       ELSE UNCHANGED <<voiceStatus, engine>>
    /\ UNCHANGED <<rec, handlers, orb, attached>>

-----------------------------------------------------------------------------
(* The browser's events. *)

EngineStarts(n) ==
    /\ engine[n] = "starting"
    /\ engine' = [engine EXCEPT ![n] = "hearing"]
    /\ voiceStatus' = IF handlers[n] /\ voiceStatus = "starting" THEN "listening" ELSE voiceStatus
    /\ UNCHANGED <<rec, handlers, ceiling, orb, attached>>

(* A result, interim or the final one after stop; onText is the box's business. *)
EngineHears(n) == engine[n] \in {"hearing", "stopping"} /\ handlers[n] /\ UNCHANGED voiceVars

(* The end: by itself after a pause or an error, after stop, or after abort. *)
EngineEnds(n) ==
    /\ engine[n] \in Hot \cup {"aborted"}
    /\ engine' = [engine EXCEPT ![n] = "over"]
    /\ IF handlers[n]
       THEN rec' = 0 /\ ceiling' = 0 /\ voiceStatus' = "idle" /\ orb' = OrbClosed
       ELSE UNCHANGED <<rec, ceiling, voiceStatus, orb>>
    /\ UNCHANGED <<handlers, attached>>

(* getUserMedia answers the orb: too late, granted, or denied. *)
OrbAnswered(n) ==
    /\ orb[n] = "asking"
    /\ \/ orb' = [orb EXCEPT ![n] = IF rec = n THEN "open" ELSE "closed"]
       \/ orb' = [orb EXCEPT ![n] = "closed"]
    /\ UNCHANGED <<voiceStatus, rec, engine, handlers, ceiling, attached>>

VoiceNext ==
    \/ \E n \in Session : VoiceStart(n) \/ EngineStarts(n) \/ EngineHears(n)
                          \/ EngineEnds(n) \/ OrbAnswered(n)
    \/ VoiceCancel \/ VoiceDetach \/ VoiceStop \/ CeilingFires

VoiceSpec == VoiceInit /\ [][VoiceNext]_voiceVars

-----------------------------------------------------------------------------
VoiceTypeOK ==
    /\ voiceStatus \in {"idle", "starting", "listening", "stopping"}
    /\ rec \in {0} \cup Session
    /\ engine \in [Session -> EngineStates]
    /\ handlers \in [Session -> BOOLEAN]
    /\ ceiling \in {0} \cup Session
    /\ orb \in [Session -> {"none", "asking", "open", "closed"}]
    /\ attached \in BOOLEAN

(* No microphone outlives its session: only the session in hand can still be    *)
(* heard, only it has a timer, and while the page says idle or no box takes the *)
(* words there is none, however late events and permissions arrive.             *)
OneSession ==
    /\ rec = 0 <=> voiceStatus = "idle"
    /\ \A n \in Session : /\ engine[n] \in Hot => rec = n /\ handlers[n]
                          /\ orb[n] = "open" => rec = n
    /\ ceiling # 0 => ceiling = rec
    /\ ~attached => rec = 0
=============================================================================
