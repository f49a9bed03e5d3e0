------------------------------ MODULE Scenes ------------------------------
(******************************************************************************)
(* Two pictures of the landing page that run by themselves, and the marker at *)
(* the end of its opening.                                                    *)
(******************************************************************************)
EXTENDS Naturals

(***********************************************************************************)
(* The knowledge graph of the landing page (components/site/memory-graph.tsx):     *)
(* one loop that moves every node and edge, one frame of nodes for wide windows    *)
(* and a smaller one for narrow ones, and the node a reader points at.             *)
(*                                                                                 *)
(* A change of frame is rendered at once, while the loop of the frame before runs  *)
(* on until React flushes its effects.  A node's element keeps its place in the    *)
(* page, and the offset last written to it, as long as both frames show it.  React *)
(* flushes the effects of one rendering before the next.                           *)
(***********************************************************************************)
CONSTANTS
    Node,
    Narrow,          \* the nodes the narrow frame shows
    NoNode

ASSUME GraphAssumption == Narrow \subseteq Node /\ NoNode \notin Node

VARIABLES
    frame,           \* the frame rendered
    loop,            \* the effect's loop: its frame, whether it runs, a frame asked for
    inView,          \* the graph is near the viewport
    offset,          \* offset[n]: the frame whose loop last moved n's element
    activeId         \* the node pointed at or focused

graphVars == <<frame, loop, inView, offset, activeId>>

Frames == {"wide", "narrow", "left"}
NodesOf(f) == CASE f = "wide" -> Node [] f = "narrow" -> Narrow [] OTHER -> {}
Resting(f) == [frame |-> f, running |-> FALSE, asked |-> FALSE]
NoLoop == Resting("left")            \* under reduced motion none is ever started

GraphInit ==
    /\ frame \in {"wide", "narrow"} /\ inView \in BOOLEAN
    /\ loop \in {NoLoop, Resting(frame)}
    /\ offset = [n \in Node |-> "none"] /\ activeId = NoNode

(* A change of the media query, or leaving the page: the elements of nodes that *)
(* are not shown any more go, with what was written to them.                    *)
FrameChanges(f) ==
    /\ frame # "left" /\ f # frame /\ frame' = f
    /\ loop.frame = frame \/ loop = NoLoop
    /\ offset' = [n \in Node |-> IF n \in NodesOf(f) THEN offset[n] ELSE "none"]
    /\ UNCHANGED <<loop, inView, activeId>>

Cleaned == [n \in Node |-> "none"]

(* The passive effects: the old loop's clean-up, then the new frame's loop. *)
EffectsFlushed ==
    /\ loop.frame # frame /\ loop # NoLoop
    /\ loop' = Resting(frame) /\ offset' = Cleaned
    /\ UNCHANGED <<frame, inView, activeId>>

Scrolled == inView' = ~inView /\ UNCHANGED <<frame, loop, offset, activeId>>

(* The observer's report, on its first look and on every crossing. *)
ObserverReports ==
    /\ loop # NoLoop /\ loop.running # inView
    /\ loop' = [loop EXCEPT !.running = inView, !.asked = inView]
    /\ UNCHANGED <<frame, inView, offset, activeId>>

(* tick: every element rendered at a place of the loop's, and the next frame. *)
LoopTicks ==
    /\ loop.asked
    /\ offset' = [n \in Node |-> IF n \in NodesOf(frame) THEN loop.frame ELSE offset[n]]
    /\ UNCHANGED <<frame, loop, inView, activeId>>

PointedAt(n) ==                      \* entered or focused
    /\ n \in NodesOf(frame) /\ activeId' = n
    /\ UNCHANGED <<frame, loop, inView, offset>>

NodePressed(n) ==                        \* a click, Enter or Space: onto it, or off it
    /\ n \in NodesOf(frame) /\ activeId' = IF activeId = n THEN NoNode ELSE n
    /\ UNCHANGED <<frame, loop, inView, offset>>

PointedAway ==                       \* left, blurred, or Escape
    /\ activeId # NoNode /\ activeId' = NoNode
    /\ UNCHANGED <<frame, loop, inView, offset>>

GraphNext ==
    \/ \E f \in Frames : FrameChanges(f)
    \/ EffectsFlushed \/ Scrolled \/ ObserverReports \/ LoopTicks \/ PointedAway
    \/ \E n \in Node : PointedAt(n) \/ NodePressed(n)

GraphSpec == GraphInit /\ [][GraphNext]_graphVars

-----------------------------------------------------------------------------
GraphTypeOK ==
    /\ frame \in Frames /\ inView \in BOOLEAN /\ activeId \in Node \cup {NoNode}
    /\ loop \in [frame : Frames, running : BOOLEAN, asked : BOOLEAN]
    /\ offset \in [Node -> {"none", "wide", "narrow"}]

(* No node stands where another frame's loop left it: once the effects of a change *)
(* have run, whatever is still offset is so by the frame on screen ("a leftover    *)
(* translate would offset that node permanently").                                 *)
NothingLeftOver ==
    loop.frame = frame => \A n \in Node : offset[n] \in {"none", frame}

(* The node pointed at is one the frame shows.  (A window that narrows under the      *)
(* pointer drops a node without its mouseleave or blur: everything is dimmed for it.) *)
PointsAtShown == activeId # NoNode => activeId \in NodesOf(frame)

-----------------------------------------------------------------------------
(*******************************************************************************)
(* The 3D scene a page may show (components/ui/spline-scene.tsx): the vendored *)
(* viewer is a custom element whose script is added once and whose scene loads *)
(* on its own.  Its element may be on the page before the script has run, and  *)
(* off it again before its scene has loaded.                                   *)
(*******************************************************************************)

CONSTANT MaxScenes                   \* bound on the times a scene is mounted

ASSUME SceneAssumption == MaxScenes \in Nat

Scene == 1..MaxScenes

VARIABLES
    script,          \* the viewer's script: "absent", "asked" or "ran"
    scene,           \* scene[n]: the n-th element
    upgradeLate      \* UPGRADE_DEADLINE_MS has passed since the current one was mounted

sceneVars == <<script, scene, upgradeLate>>

(* at: "unused", "inert" until it is upgraded, "loading", "loaded", "failed", "unloaded";    *)
(* late: the clean-up's own listener for a load that ends later; queued: its microtask;      *)
(* badgeHidden: the style is in the shadow root; polls: hide is tried again; shown: onReady. *)
NoScene == [at |-> "unused", connected |-> FALSE, late |-> FALSE, queued |-> FALSE,
            badgeHidden |-> FALSE, polls |-> FALSE, shown |-> FALSE]

SceneInit == script = "absent" /\ scene = [n \in Scene |-> NoScene] /\ upgradeLate = FALSE

(* The four effects.  An upgraded element has its shadow root at once. *)
SceneMounts(n) ==
    /\ scene[n].at = "unused" /\ \A k \in Scene : ~scene[k].connected /\ (k < n => scene[k].at # "unused")
    /\ script' = IF script = "absent" THEN "asked" ELSE script
    /\ scene' = [scene EXCEPT ![n] = [@ EXCEPT
                    !.at = IF script = "ran" THEN "loading" ELSE "inert", !.connected = TRUE,
                    !.badgeHidden = (script = "ran"), !.polls = (script # "ran")]]
    /\ upgradeLate' = FALSE

(* Elements on the page are upgraded as the module registers the name. *)
ScriptRuns ==
    /\ script = "asked" /\ script' = "ran"
    /\ scene' = [n \in Scene |-> IF scene[n].at = "inert" /\ scene[n].connected
                                 THEN [scene[n] EXCEPT !.at = "loading"] ELSE scene[n]]
    /\ UNCHANGED upgradeLate

DeadlinePasses == ~upgradeLate /\ upgradeLate' = TRUE /\ UNCHANGED <<script, scene>>

Polled(n) ==
    /\ scene[n].polls
    /\ scene' = [scene EXCEPT ![n] = [@ EXCEPT
                    !.badgeHidden = (scene[n].at # "inert"),
                    !.polls = (scene[n].at = "inert" /\ ~upgradeLate)]]
    /\ UNCHANGED <<script, upgradeLate>>

(* load-complete: onReady while it is on the page, the late unload once it is not. *)
SceneLoads(n) ==
    /\ scene[n].at = "loading"
    /\ scene' = [scene EXCEPT ![n] = [@ EXCEPT
                    !.at = "loaded", !.shown = scene[n].connected,
                    !.queued = scene[n].late, !.late = FALSE]]
    /\ UNCHANGED <<script, upgradeLate>>

SceneFails(n) ==
    /\ scene[n].at = "loading" /\ scene' = [scene EXCEPT ![n].at = "failed"]
    /\ UNCHANGED <<script, upgradeLate>>

MicrotaskRuns(n) ==
    /\ scene[n].queued /\ scene' = [scene EXCEPT ![n] = [@ EXCEPT !.queued = FALSE, !.at = "unloaded"]]
    /\ UNCHANGED <<script, upgradeLate>>

(* The clean-up: unload does nothing to a scene that has not loaded yet. *)
SceneUnmounts(n) ==
    /\ scene[n].connected
    /\ scene' = [scene EXCEPT ![n] = [@ EXCEPT
                    !.connected = FALSE, !.polls = FALSE, !.late = TRUE,
                    !.at = IF scene[n].at = "loaded" THEN "unloaded" ELSE scene[n].at]]
    /\ UNCHANGED <<script, upgradeLate>>

SceneNext ==
    \/ ScriptRuns \/ DeadlinePasses
    \/ \E n \in Scene : \/ SceneMounts(n) \/ SceneUnmounts(n) \/ Polled(n)
                        \/ SceneLoads(n) \/ SceneFails(n) \/ MicrotaskRuns(n)

SceneSpec == SceneInit /\ [][SceneNext]_sceneVars

-----------------------------------------------------------------------------
SceneTypeOK ==
    /\ script \in {"absent", "asked", "ran"} /\ upgradeLate \in BOOLEAN
    /\ \A n \in Scene : scene[n].at \in {"unused", "inert", "loading", "loaded", "failed", "unloaded"}

(* A scene off the page is not left drawing, even one that finishes loading there: its *)
(* unload is queued by the time it has loaded.  And one on the page that has loaded    *)
(* hides the viewer's badge, or still tries to, unless the script took longer than the *)
(* deadline.                                                                           *)
ScenesStop ==
    \A n \in Scene : scene[n].at = "loaded" =>
        /\ scene[n].connected \/ scene[n].queued
        /\ scene[n].connected => scene[n].badgeHidden \/ scene[n].polls \/ upgradeLate
-----------------------------------------------------------------------------
(***********************************************************************************)
(* The marker at the end of the landing page's opening                             *)
(* (components/site/opening-seen-marker.tsx): it remembers, for the next           *)
(* visit, that a reader got past it, by one position check per frame of scrolling. *)
(***********************************************************************************)
VARIABLES
    seenFlag,        \* OPENING_SEEN_KEY in the storage
    end,             \* where the sentinel is: "below" the viewport, "in" it or "above"
    marker           \* the effect: its listener, its frame handle, what is queued, done

markerVars == <<seenFlag, end, marker>>

NoMarker == [mounted |-> FALSE, listening |-> FALSE, handle |-> FALSE, queued |-> FALSE, done |-> FALSE]

MarkerInit == seenFlag \in BOOLEAN /\ end \in {"below", "in", "above"} /\ marker = NoMarker

(* check: `top <= 0`, whatever route the scroll took. *)
IsPassed == end = "above"

(* A storage that cannot be read counts as seen.  The listener is added whatever the *)
(* first check came to.                                                              *)
MarkerMounts ==
    /\ ~marker.mounted
    /\ marker' = [NoMarker EXCEPT !.mounted = TRUE, !.listening = ~seenFlag, !.done = ~seenFlag /\ IsPassed]
    /\ seenFlag' = (seenFlag \/ IsPassed)
    /\ UNCHANGED end

(* Any distance at once, an End key's or a fling's. *)
OpeningScrolled ==
    /\ end' \in {"below", "in", "above"} \ {end}
    /\ marker' = IF marker.listening /\ ~marker.handle
                 THEN [marker EXCEPT !.handle = TRUE, !.queued = TRUE] ELSE marker
    /\ UNCHANGED seenFlag

MarkerChecks ==
    /\ marker.queued
    /\ LET marks == ~marker.done /\ IsPassed
       IN  /\ marker' = [marker EXCEPT !.handle = FALSE, !.queued = FALSE, !.done = @ \/ marks,
                                       !.listening = @ /\ ~marks]
           /\ seenFlag' = (seenFlag \/ marks)
    /\ UNCHANGED end

MarkerLeaves == marker.mounted /\ marker' = NoMarker /\ UNCHANGED <<seenFlag, end>>

MarkerNext == MarkerMounts \/ OpeningScrolled \/ MarkerChecks \/ MarkerLeaves

MarkerSpec == MarkerInit /\ [][MarkerNext]_markerVars

-----------------------------------------------------------------------------
MarkerTypeOK == seenFlag \in BOOLEAN /\ marker \in [DOMAIN NoMarker -> BOOLEAN]

(* Whoever is past the opening has it remembered once the frame has run, by whatever *)
(* jumps they came ("that misses every fast scroll").                                *)
PassedIsSeen == marker.mounted /\ ~marker.queued /\ end = "above" => seenFlag
=============================================================================
