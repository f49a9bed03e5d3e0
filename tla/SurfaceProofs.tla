----------------------------- MODULE SurfaceProofs --------------------------
(****************************************************************************)
(* Proofs about the surfaces of the web console, each from an inductive     *)
(* invariant of its own, named ...Fits:                                     *)
(*                                                                          *)
(*   forms       OneQuestionStands, OrderStaysSound, RoleFormAdmits,        *)
(*               SavedIsStored, UntouchedIsKept, JudgedStands               *)
(*   resources   UrlsAreReleased, GraphCleansUp, ScenesDoStop, OrbGivesBack *)
(*   reads       CardIsTold, SourcesCatchUp, GrantsDoCatchUp,               *)
(*               SavedDoesCatchUp, MarksDoCatchUp, PanelShowsGrants         *)
(*   searches    PickerFollowsTheBox, ListDoesFollow, EvidenceIsTheSearch   *)
(*   walks       RowsAreOneWalk, TrailHasNoHole, TextStaysUnbroken          *)
(*   telling     FailureStandsOut, PressAnsweredOnce, SilenceUntilAsked,    *)
(*               MarkerRemembers, CurrentStaysInView, UnderlineStaysInBand  *)
(*   invitations NobodyIsMailedTwice, UntickedIsLeftOut                     *)
(*   sessions    SessionsStay                                               *)
(*   copilot     ThreadStaysInOrder, AnswersNeverBlink, ArchivedStaysOut    *)
(*   screens     OffersAreServed, FailuresAreSaid, ListsAreTold             *)
(*                                                                          *)
(* ConsoleProofs brings them together as what the console's run checks.     *)
(****************************************************************************)
EXTENDS KtAdmin, Forms, KtReader, Scenes, Shell, Registration, SourcePanels, Identities,
        KtMarks, Orb, Controls, Navigation, BulkRoster, Directory, Copilot, Screens,
        FiniteSetTheorems, SequenceTheorems, WellFoundedInduction, TLAPS

-----------------------------------------------------------------------------
(* The forms and the packages of an administrator. *)

(* Of every set of packages: however presses, answers and refusals interleave, a *)
(* question stands on one button at most, the last one pressed (admin/knowledge- *)
(* transfer/page.tsx).                                                           *)
THEOREM OneQuestionStands == RowsSpec => []OneQuestion
<1>1. RowsInit => OneQuestion
  BY DEF RowsInit, OneQuestion
<1>2. ASSUME OneQuestion, [RowsNext]_rowVars PROVE OneQuestion'
  <2> USE <1>2
  <2>1. ASSUME NEW p \in Pack, CompletePressed(p) PROVE OneQuestion'
    BY <2>1, ListAssumption DEF CompletePressed, OneQuestion
  <2>2. ASSUME NEW p \in Pack, RevokePressed(p) PROVE OneQuestion'
    BY <2>2, ListAssumption DEF RevokePressed, OneQuestion
  <2>3. CASE CompleteSettles
    BY <2>3 DEF CompleteSettles, OneQuestion
  <2>4. CASE UNCHANGED <<confirmingComplete, confirmingRevoke, lastPressed>>
    BY <2>4 DEF OneQuestion
  <2>. QED
    BY <1>2, <2>1, <2>2, <2>3, <2>4
    DEF RowsNext, rowVars, ClosedElsewhere, CompleteRuns, RevokeRuns, RevokeSettles, ListRead
<1>. QED
  BY <1>1, <1>2, PTL DEF RowsSpec

(* What the wizard holds may be ordered once its last tick is there. *)
DraftFits ==
    /\ WizardTypeOK /\ OrderIsSound
    /\ form.subject # Nobody => form.recipient # form.subject

(* Of every set of employees: however the wizard was filled in, no package is ordered *)
(* that goes to the employee it is about, nor one of an unconfirmed whole history     *)
(* (CreateWizard of that page).                                                       *)
THEOREM OrderStaysSound == WizardSpec => []OrderIsSound
<1>. NewDraft \in [subject : Person \cup {Nobody}, recipient : Person \cup {Nobody},
                  whole : BOOLEAN, confirmed : BOOLEAN]
     /\ NewDraft.subject = Nobody /\ ~NewDraft.whole
  BY DEF NewDraft
<1>1. WizardInit => DraftFits
  BY DEF WizardInit, DraftFits, WizardTypeOK, OrderIsSound
<1>2. ASSUME DraftFits, [WizardNext]_wizardVars PROVE DraftFits'
  <2> USE <1>2, WizardAssumption DEF DraftFits, WizardTypeOK, OrderIsSound
  <2>1. ASSUME NEW e \in Person, PicksSubject(e) \/ PicksRecipient(e) PROVE DraftFits'
    BY <2>1 DEF PicksSubject, PicksRecipient, WizardStep, WizardShown
  <2>2. ASSUME NEW on \in BOOLEAN, PicksPeriod(on) \/ Ticks(on) PROVE DraftFits'
    BY <2>2 DEF PicksPeriod, Ticks, WizardStep, WizardShown
  <2>3. CASE GeneratePressed
    BY <2>3 DEF GeneratePressed, MayGenerate
  <2>4. CASE CreateChosen \/ Cancelled \/ CreateAnswered
    BY <2>4 DEF CreateChosen, Cancelled, CreateAnswered, WizardShown
  <2>5. CASE CreateRefused \/ BackToTheList
    BY <2>5 DEF CreateRefused, BackToTheList
  <2>6. CASE UNCHANGED wizardVars
    BY <2>6 DEF wizardVars
  <2>. QED
    BY <1>2, <2>1, <2>2, <2>3, <2>4, <2>5, <2>6 DEF WizardNext
<1>. QED
  BY <1>1, <1>2, PTL DEF WizardSpec, DraftFits

(* What the form shows, what is stored and what is on its way are choices; what is *)
(* stored was accepted.                                                            *)
RoleFits ==
    /\ ChoiceIsAdmitted
    /\ stored \in Choice /\ Accepted(stored)
    /\ roleSaving = Unset \/ roleSaving \in Choice

(* Of every catalogue: whatever was chosen, remade and overwritten by the assignment's *)
(* arrival, the form holds a choice the catalogue admits (role-assignment.tsx).        *)
THEOREM RoleFormAdmits == RoleFormSpec => []ChoiceIsAdmitted
<1>1. RoleFormInit => RoleFits
  BY CatalogueAssumption DEF RoleFormInit, RoleFits, ChoiceIsAdmitted, Blank, Choice, InCatalogue
<1>2. ASSUME RoleFits, [RoleFormNext]_roleVars PROVE RoleFits'
  <2>1. CASE AssignmentArrives
    BY <1>2, <2>1 DEF RoleFits, AssignmentArrives, ChoiceIsAdmitted, Accepted, InCatalogue
  <2>2. ASSUME ChoosesRole PROVE ChoiceIsAdmitted'
    <3> USE <1>2, CatalogueAssumption DEF RoleFits, ChoiceIsAdmitted, Choice, InCatalogue
    <3>1. ASSUME NEW p \in Practice \cup {Unset}, PracticeChosen(p) PROVE ChoiceIsAdmitted'
      BY <3>1 DEF PracticeChosen
    <3>2. ASSUME NEW t \in Title \cup {Unset}, TitleChosen(t) PROVE ChoiceIsAdmitted'
      <4>1. DefaultLevel(t) \in Level \cup {Unset} /\ (t # Unset => DefaultLevel(t) \in Admits[t] \cup {Unset})
        BY DEF DefaultLevel
      <4>. QED
        BY <3>2, <4>1 DEF TitleChosen
    <3>3. ASSUME NEW l \in Level \cup {Unset}, LevelChosen(l) PROVE ChoiceIsAdmitted'
      BY <3>3 DEF LevelChosen, LevelsOffered
    <3>4. ASSUME NEW c \in Code \cup {Unset}, CodeChosen(c) PROVE ChoiceIsAdmitted'
      BY <3>4 DEF CodeChosen
    <3>5. CASE CustomTicked
      BY <3>5 DEF CustomTicked
    <3>. QED
      BY <2>2, <3>1, <3>2, <3>3, <3>4, <3>5 DEF ChoosesRole
  <2>3. CASE ChoosesRole
    BY <1>2, <2>2, <2>3 DEF ChoosesRole, RoleFits
  <2>4. CASE RoleSavePressed
    BY <1>2, <2>4 DEF RoleSavePressed, RoleFits, ChoiceIsAdmitted
  <2>5. CASE RoleSaveAnswered
    BY <1>2, <2>5 DEF RoleSaveAnswered, RoleFits, ChoiceIsAdmitted
  <2>6. CASE UNCHANGED roleVars
    BY <1>2, <2>6 DEF roleVars, RoleFits, ChoiceIsAdmitted
  <2>. QED
    BY <1>2, <2>1, <2>3, <2>4, <2>5, <2>6 DEF RoleFormNext
<1>. QED
  BY <1>1, <1>2, PTL DEF RoleFormSpec, RoleFits

(* A save that ran is what the server holds until it is answered; no outcome of an *)
(* earlier one stands beside it, and the form is there while either does.          *)
ProfileFits ==
    /\ profileSaving \subseteq [sends : Version, ran : BOOLEAN]
    /\ \A s \in profileSaving : s.ran => atServer = s.sends
    /\ profileSaving # {} => ~savedNote /\ ~saveRefused
    /\ profileSaving # {} \/ savedNote => profileRead = "here"
    /\ profileDraft \in Version /\ {savedNote, saveRefused} \subseteq BOOLEAN
    /\ atServer \in Version /\ profile \in Version
    /\ SavedMeansStored

(* Of every set of values: where "Saved" stands, the form is what the server holds,     *)
(* whatever was edited while the save was out and whichever save it was (profile page). *)
THEOREM SavedIsStored == ProfileSpec => []SavedMeansStored
<1>1. ProfileInit => ProfileFits
  BY VersionAssumption DEF ProfileInit, ProfileFits, SavedMeansStored
<1>2. ASSUME ProfileFits, [ProfileNext]_profileVars PROVE ProfileFits'
  <2> USE <1>2 DEF ProfileFits, SavedMeansStored
  <2>1. CASE ProfileArrives \/ ProfileReadFails \/ ProfileRetried
    BY <2>1 DEF ProfileArrives, ProfileReadFails, ProfileRetried
  <2>2. CASE ProfileSubmitted
    <3>1. [sends |-> profileDraft, ran |-> FALSE] \in [sends : Version, ran : BOOLEAN]
      BY DEF ProfileFits
    <3>. QED
      BY <2>2, <3>1 DEF ProfileSubmitted
  <2>3. CASE ProfileSaveFails
    BY <2>3 DEF ProfileSaveFails
  <2>9. CASE ProfileCancelled
    BY <2>9 DEF ProfileCancelled
  <2>4. ASSUME NEW v \in Version, FieldEdited(v) PROVE ProfileFits'
    BY <2>4 DEF FieldEdited
  <2>5. ASSUME NEW s \in profileSaving, ProfileStored(s) PROVE ProfileFits'
    BY <2>5 DEF ProfileStored
  <2>6. ASSUME NEW s \in profileSaving, ProfileSaveAnswered(s) PROVE ProfileFits'
    BY <2>6 DEF ProfileSaveAnswered
  <2>7. CASE UNCHANGED profileVars
    BY <2>7 DEF profileVars
  <2>. QED
    BY <1>2, <2>1, <2>2, <2>3, <2>4, <2>5, <2>6, <2>7, <2>9 DEF ProfileNext
<1>. QED
  BY <1>1, <1>2, PTL DEF ProfileSpec, ProfileFits

(* What a query of this console holds, and what its operators make of it. *)
ViewOf(Facts) ==
    [data : Facts, got : Facts, here : BOOLEAN, invalid : BOOLEAN,
     stage : {"never", "asked", "answered", "idle", "failed"}]

(* Each step of a cached query is one again (lib/query.ts). *)
LEMMA ViewsStayViews ==
  ASSUME NEW Facts, NEW f \in Facts, NEW v \in ViewOf(Facts), NEW b \in BOOLEAN
  PROVE  /\ Unread(f) \in ViewOf(Facts) /\ Asked(v) \in ViewOf(Facts)
         /\ ReadAnswered(v, f) \in ViewOf(Facts)
         /\ Arrived(v) \in ViewOf(Facts) /\ Failed(v) \in ViewOf(Facts)
         /\ Invalidated(v, b) \in ViewOf(Facts)
BY DEF ViewOf, Unread, Asked, ReadAnswered, Arrived, Failed, Invalidated

(* A field of the form nobody touched is the schedule's it was filled from, and so *)
(* is what a save took from it.                                                    *)
ScheduleFits ==
    /\ SettingsTypeOK /\ scheduleView \in ViewOf(Schedule) /\ touched \subseteq {"zone", "hour"}
    /\ scheduleOut \subseteq [sends : Schedule, kept : Schedule, but : SUBSET {"zone", "hour"}, ran : BOOLEAN]
    /\ \A f \in fields : /\ "zone" \in touched \/ f.zone = base.zone
                         /\ "hour" \in touched \/ f.hour = base.hour
    /\ UntouchedFieldsKept

(* Of every set of zones and hours: what a save sends for a field nobody touched is *)
(* what the schedule held when the form was filled (settings page).                 *)
THEOREM UntouchedIsKept == SettingsSpec => []UntouchedFieldsKept
<1>1. SettingsInit => ScheduleFits
  BY DEF SettingsInit, ScheduleFits, SettingsTypeOK, UntouchedFieldsKept, ViewOf, Asked, Unread
<1>2. ASSUME ScheduleFits, [SettingsNext]_settingsVars PROVE ScheduleFits'
  <2> USE <1>2 DEF ScheduleFits, SettingsTypeOK, UntouchedFieldsKept
  <2>1. CASE ScheduleServed \/ ScheduleReadAgain \/ ScheduleReadFails
    BY <2>1, ViewsStayViews DEF ScheduleServed, ScheduleReadAgain, ScheduleReadFails
  <2>2. CASE ScheduleArrives
    <3>1. scheduleView'\in ViewOf(Schedule) /\ scheduleView.got \in Schedule
      BY <2>2, ViewsStayViews DEF ScheduleArrives, ViewOf
    <3>2. Shown(scheduleView.got.zone) = scheduleView.got.zone
      BY DEF Shown, Options
    <3>. QED
      BY <2>2, <3>1, <3>2 DEF ScheduleArrives, Schedule
  <2>3. ASSUME NEW f \in fields, NEW z \in Zone, ZoneEdited(f, z) PROVE ScheduleFits'
    <3>1. [f EXCEPT !.zone = z] \in Schedule /\ [f EXCEPT !.zone = z].hour = f.hour
      BY DEF Schedule
    <3>2. touched' \subseteq {"zone", "hour"} /\ "zone" \in touched' /\ ("hour" \in touched => "hour" \in touched')
      BY <2>3 DEF ZoneEdited
    <3>. QED
      BY <2>3, <3>1, <3>2 DEF ZoneEdited
  <2>4. ASSUME NEW f \in fields, NEW h \in Hour, HourEdited(f, h) PROVE ScheduleFits'
    <3>1. [f EXCEPT !.hour = h] \in Schedule /\ [f EXCEPT !.hour = h].zone = f.zone
      BY DEF Schedule
    <3>2. touched' \subseteq {"zone", "hour"} /\ "hour" \in touched' /\ ("zone" \in touched => "zone" \in touched')
      BY <2>4 DEF HourEdited
    <3>. QED
      BY <2>4, <3>1, <3>2 DEF HourEdited
  <2>5. ASSUME NEW f \in fields, ScheduleSubmitted(f) PROVE ScheduleFits'
    BY <2>5 DEF ScheduleSubmitted
  <2>6. ASSUME NEW c \in scheduleOut, ScheduleStored(c) PROVE ScheduleFits'
    BY <2>6 DEF ScheduleStored
  <2>7. ASSUME NEW c \in scheduleOut, ScheduleSaveAnswered(c) PROVE ScheduleFits'
    BY <2>7, ViewsStayViews DEF ScheduleSaveAnswered
  <2>8. CASE UNCHANGED settingsVars
    BY <2>8 DEF settingsVars
  <2>. QED
    BY <1>2, <2>1, <2>2, <2>3, <2>4, <2>5, <2>6, <2>7, <2>8 DEF SettingsNext
<1>. QED
  BY <1>1, <1>2, PTL DEF SettingsSpec, ScheduleFits

-----------------------------------------------------------------------------
(* What a page takes from the browser, the session, the registration. *)

(* A composition in flight is the mounted page's, one at most and with no file shown *)
(* beside it, or one the page was left during.                                       *)
HandoverFits ==
    /\ composed \in 0..MaxComposed /\ liveUrls \subseteq 1..MaxComposed
    /\ composeOut \subseteq [n : 1..MaxComposed, mine : BOOLEAN]
    /\ \A c \in composeOut : /\ c.mine => urlRef = 0
                             /\ ~c.mine => c.n \in abandoned
    /\ \A c, d \in composeOut : c.mine /\ d.mine => c = d
    /\ pdfUrl = urlRef /\ reportShown = urlRef /\ urlRef \in liveUrls \cup {0}
    /\ EveryUrlReleased

(* Of every number of compositions: no object URL outlives the page's reach but those   *)
(* of compositions it was left during, and the file linked is the text on screen, still *)
(* in memory (handover page).                                                           *)
THEOREM UrlsAreReleased == HandoverSpec => [](EveryUrlReleased /\ OneComposition)
<1>1. HandoverInit => HandoverFits
  BY ComposedAssumption DEF HandoverInit, HandoverFits, EveryUrlReleased
<1>2. ASSUME HandoverFits, [HandoverNext]_handoverVars PROVE HandoverFits'
  <2> USE <1>2, ComposedAssumption DEF HandoverFits, EveryUrlReleased
  <2>1. CASE ComposePressed
    <3>1. composed + 1 \in 1..MaxComposed /\ \A c \in composeOut : ~c.mine
      BY <2>1 DEF ComposePressed, Mine
    <3>2. [n |-> composed + 1, mine |-> TRUE] \in [n : 1..MaxComposed, mine : BOOLEAN]
      BY <3>1
    <3>. QED
      <4>1. \A c \in composeOut' : c.mine => urlRef' = 0 /\ c = [n |-> composed + 1, mine |-> TRUE]
        BY <2>1, <3>1 DEF ComposePressed
      <4>2. \A c \in composeOut' : ~c.mine => c.n \in abandoned'
        BY <2>1, <3>1 DEF ComposePressed
      <4>3. composeOut' \subseteq [n : 1..MaxComposed, mine : BOOLEAN] /\ composed' \in 0..MaxComposed
        <5>1. composed' = composed + 1 /\ composeOut' = composeOut \cup {[n |-> composed + 1, mine |-> TRUE]}
          BY <2>1 DEF ComposePressed
        <5>2. composed' \in 0..MaxComposed
          BY <3>1, <5>1
        <5>. QED
          BY <3>2, <5>1, <5>2
      <4>5. liveUrls' \subseteq 1..MaxComposed
        BY <2>1 DEF ComposePressed, Revoked
      <4>4. liveUrls' \ abandoned' \subseteq {} /\ urlRef' = 0 /\ pdfUrl' = 0 /\ reportShown' = 0
        BY <2>1 DEF ComposePressed, Revoked
      <4>. QED
        BY <4>1, <4>2, <4>3, <4>4, <4>5
  <2>2. CASE LeavesHandover
    <3>1. \A c \in composeOut : /\ [c EXCEPT !.mine = FALSE] \in [n : 1..MaxComposed, mine : BOOLEAN]
                               /\ ~[c EXCEPT !.mine = FALSE].mine /\ [c EXCEPT !.mine = FALSE].n = c.n
      OBVIOUS
    <3>. QED
      BY <2>2, <3>1 DEF LeavesHandover, Revoked
  <2>3. ASSUME NEW c \in composeOut, ComposeAnswered(c) PROVE HandoverFits'
    <3>1. c \in [n : 1..MaxComposed, mine : BOOLEAN] /\ c.n # 0
      OBVIOUS
    <3>. QED
      <4>1. CASE c.mine
        <5>1. composeOut' \subseteq composeOut /\ \A d \in composeOut' : ~d.mine
          BY <2>3, <4>1 DEF ComposeAnswered
        <5>2. liveUrls' \ abandoned' \subseteq {urlRef'}
          BY <2>3, <4>1 DEF ComposeAnswered
        <5>. QED
          BY <2>3, <3>1, <4>1, <5>1, <5>2 DEF ComposeAnswered
      <4>2. CASE ~c.mine
        BY <2>3, <3>1, <4>2 DEF ComposeAnswered
      <4>. QED
        BY <4>1, <4>2
  <2>4. ASSUME NEW c \in composeOut, ComposeFails(c) PROVE HandoverFits'
    BY <2>4 DEF ComposeFails
  <2>5. CASE ReturnsToHandover \/ UNCHANGED handoverVars
    BY <2>5 DEF ReturnsToHandover, handoverVars
  <2>. QED
    BY <1>2, <2>1, <2>2, <2>3, <2>4, <2>5 DEF HandoverNext
<1>3. HandoverFits => EveryUrlReleased /\ OneComposition
  BY DEF HandoverFits, EveryUrlReleased, OneComposition
<1>. QED
  BY <1>1, <1>2, <1>3, PTL DEF HandoverSpec

(* Without a loop nothing is offset; a loop that has left the page is none. *)
GraphFits ==
    /\ frame \in Frames /\ inView \in BOOLEAN
    /\ loop \in [frame : Frames, running : BOOLEAN, asked : BOOLEAN]
    /\ offset \in [Node -> {"none", "wide", "narrow"}]
    /\ NothingLeftOver
    /\ loop.frame = "left" => loop = NoLoop /\ \A n \in Node : offset[n] = "none"

(* Of every set of nodes: whatever is still offset when the effects of a change have *)
(* run is so by the frame on screen (memory-graph.tsx).                              *)
THEOREM GraphCleansUp == GraphSpec => []NothingLeftOver
<1>1. ASSUME GraphInit PROVE GraphFits
  <2>1. frame \in Frames /\ frame # "left" /\ inView \in BOOLEAN
        /\ offset = [n \in Node |-> "none"]
    BY <1>1 DEF GraphInit, Frames
  <2>2. /\ loop \in [frame : Frames, running : BOOLEAN, asked : BOOLEAN]
        /\ loop = NoLoop \/ loop.frame # "left"
    <3>1. loop = NoLoop \/ loop = Resting(frame)
      BY <1>1 DEF GraphInit
    <3>2. Resting(frame) = [frame |-> frame, running |-> FALSE, asked |-> FALSE]
          /\ NoLoop = [frame |-> "left", running |-> FALSE, asked |-> FALSE]
      BY DEF Resting, NoLoop
    <3>3. CASE loop = NoLoop
      BY <3>2, <3>3 DEF Frames
    <3>4. CASE loop = Resting(frame)
      BY <2>1, <3>2, <3>4
    <3>. QED
      BY <3>1, <3>3, <3>4
  <2>. QED
    BY <2>1, <2>2 DEF GraphFits, NothingLeftOver
<1>2. ASSUME GraphFits, [GraphNext]_graphVars PROVE GraphFits'
  <2> USE <1>2, GraphAssumption DEF GraphFits, NothingLeftOver, Frames, NodesOf
  <2>1. ASSUME NEW f \in Frames, FrameChanges(f) PROVE GraphFits'
    BY <2>1 DEF FrameChanges, NoLoop, Resting
  <2>2. CASE EffectsFlushed
    BY <2>2 DEF EffectsFlushed, NoLoop, Resting, Cleaned
  <2>3. CASE ObserverReports
    BY <2>3 DEF ObserverReports
  <2>4. CASE LoopTicks
    BY <2>4 DEF LoopTicks, NoLoop, Resting
  <2>5. ASSUME NEW n \in Node, PointedAt(n) \/ NodePressed(n) PROVE GraphFits'
    BY <2>5 DEF PointedAt, NodePressed
  <2>6. CASE Scrolled \/ PointedAway \/ UNCHANGED graphVars
    BY <2>6 DEF Scrolled, PointedAway, graphVars
  <2>. QED
    BY <1>2, <2>1, <2>2, <2>3, <2>4, <2>5, <2>6 DEF GraphNext
<1>. QED
  BY <1>1, <1>2, PTL DEF GraphSpec, GraphFits

(* A scene on the page has hidden its badge or will; one off the page has its late *)
(* unload waiting for the load it outlived.                                        *)
SceneType ==
    [at : {"unused", "inert", "loading", "loaded", "failed", "unloaded"}, connected : BOOLEAN,
     late : BOOLEAN, queued : BOOLEAN, badgeHidden : BOOLEAN, polls : BOOLEAN, shown : BOOLEAN]

(* What one scene has taken is what its own state accounts for. *)
SceneFits(s) ==
    /\ s.at = "loading" => s.connected \/ s.late
    /\ s.at = "loaded" => s.connected \/ s.queued
    /\ s.connected => s.badgeHidden \/ s.polls \/ upgradeLate

(* So it is of every scene of the page. *)
ScenesFit ==
    /\ scene \in [Scene -> SceneType] /\ script \in {"absent", "asked", "ran"} /\ upgradeLate \in BOOLEAN
    /\ \A n \in Scene : SceneFits(scene[n])

(* A step of one scene leaves the others as they are. *)
LEMMA OneSceneMoves ==
  ASSUME ScenesFit, NEW n \in Scene, NEW s \in SceneType, SceneFits(s),
         scene' = [scene EXCEPT ![n] = s], UNCHANGED <<script, upgradeLate>>
  PROVE  ScenesFit'
BY DEF ScenesFit, SceneFits

(* Of every set of scenes: one that leaves the page while it still loads is unloaded *)
(* all the same, and one that stays hides its viewer's badge (spline-scene.tsx).     *)
THEOREM ScenesDoStop == SceneSpec => []ScenesStop
<1>1. SceneInit => ScenesFit
  <2>1. NoScene \in SceneType /\ ~NoScene.connected /\ NoScene.at = "unused"
    BY DEF NoScene, SceneType
  <2>. QED
    BY <2>1 DEF SceneInit, ScenesFit, SceneFits
<1>2. ASSUME ScenesFit, [SceneNext]_sceneVars PROVE ScenesFit'
  <2>1. CASE ScriptRuns
    BY <1>2, <2>1 DEF ScriptRuns, ScenesFit, SceneFits, SceneType
  <2>2. CASE DeadlinePasses \/ UNCHANGED sceneVars
    BY <1>2, <2>2 DEF DeadlinePasses, sceneVars, ScenesFit, SceneFits
  <2>3. ASSUME NEW n \in Scene, SceneMounts(n) PROVE ScenesFit'
    <3> DEFINE s == [scene[n] EXCEPT !.at = IF script = "ran" THEN "loading" ELSE "inert",
                       !.connected = TRUE, !.badgeHidden = (script = "ran"), !.polls = (script # "ran")]
    <3>1. scene' = [scene EXCEPT ![n] = s] /\ upgradeLate' = FALSE /\ script' \in {script, "asked"}
          /\ \A k \in Scene : ~scene[k].connected
      BY <1>2, <2>3 DEF SceneMounts, ScenesFit
    <3>2. s \in SceneType /\ s.connected /\ (s.badgeHidden \/ s.polls) /\ s.at # "loaded"
      BY <1>2 DEF ScenesFit, SceneType
    <3>3. SceneFits(s)' /\ \A k \in Scene : SceneFits(scene[k])'
      <4>1. SceneFits(s)'
        BY <3>2 DEF SceneFits
      <4>2. ASSUME NEW k \in Scene, k # n PROVE SceneFits(scene[k])'
        BY <1>2, <3>1, <4>2 DEF SceneFits, ScenesFit
      <4>. QED
        BY <1>2, <3>1, <4>1, <4>2 DEF SceneFits, ScenesFit
    <3> HIDE DEF s
    <3>. QED
      BY <1>2, <3>1, <3>2, <3>3 DEF ScenesFit
  <2>4. ASSUME NEW n \in Scene, SceneUnmounts(n) PROVE ScenesFit'
    <3> DEFINE s == [scene[n] EXCEPT !.connected = FALSE, !.polls = FALSE, !.late = TRUE,
                       !.at = IF scene[n].at = "loaded" THEN "unloaded" ELSE scene[n].at]
    <3>1. s \in SceneType /\ SceneFits(s)
      BY <1>2 DEF ScenesFit, SceneType, SceneFits
    <3>. QED
      BY <1>2, <2>4, <3>1, OneSceneMoves DEF SceneUnmounts
  <2>5. ASSUME NEW n \in Scene, Polled(n) PROVE ScenesFit'
    <3> DEFINE s == [scene[n] EXCEPT !.badgeHidden = (scene[n].at # "inert"),
                       !.polls = (scene[n].at = "inert" /\ ~upgradeLate)]
    <3>1. s \in SceneType /\ SceneFits(s)
      BY <1>2 DEF ScenesFit, SceneType, SceneFits
    <3>. QED
      BY <1>2, <2>5, <3>1, OneSceneMoves DEF Polled
  <2>6. ASSUME NEW n \in Scene, SceneLoads(n) PROVE ScenesFit'
    <3> DEFINE s == [scene[n] EXCEPT !.at = "loaded", !.shown = scene[n].connected,
                       !.queued = scene[n].late, !.late = FALSE]
    <3>1. s \in SceneType /\ SceneFits(s)
      BY <1>2, <2>6 DEF ScenesFit, SceneType, SceneFits, SceneLoads
    <3>. QED
      BY <1>2, <2>6, <3>1, OneSceneMoves DEF SceneLoads
  <2>7. ASSUME NEW n \in Scene, SceneFails(n) \/ MicrotaskRuns(n) PROVE ScenesFit'
    <3>1. [scene[n] EXCEPT !.at = "failed"] \in SceneType /\ SceneFits([scene[n] EXCEPT !.at = "failed"])
      BY <1>2 DEF ScenesFit, SceneType, SceneFits
    <3> DEFINE s == [scene[n] EXCEPT !.queued = FALSE, !.at = "unloaded"]
    <3>2. s \in SceneType /\ SceneFits(s)
      BY <1>2 DEF ScenesFit, SceneType, SceneFits
    <3>. QED
      BY <1>2, <2>7, <3>1, <3>2, OneSceneMoves DEF SceneFails, MicrotaskRuns
  <2>. QED
    BY <1>2, <2>1, <2>2, <2>3, <2>4, <2>5, <2>6, <2>7 DEF SceneNext
<1>3. ScenesFit => ScenesStop
  BY DEF ScenesFit, SceneFits, ScenesStop
<1>. QED
  BY <1>1, <1>2, <1>3, PTL DEF SceneSpec

(* A mounted marker listens until the opening is remembered, and a scroll it has heard *)
(* has a check queued.                                                                 *)
MarkerFits ==
    /\ seenFlag \in BOOLEAN
    /\ marker \in [mounted : BOOLEAN, listening : BOOLEAN, handle : BOOLEAN, queued : BOOLEAN, done : BOOLEAN]
    /\ marker.handle => marker.queued
    /\ marker.done => seenFlag
    /\ marker.mounted => marker.listening \/ seenFlag
    /\ PassedIsSeen

(* By whatever jumps a reader came past the opening, it is remembered once the frame *)
(* has run (opening-seen-marker.tsx).                                                *)
THEOREM MarkerRemembers == MarkerSpec => []PassedIsSeen
<1>1. MarkerInit => MarkerFits
  BY DEF MarkerInit, MarkerFits, NoMarker, PassedIsSeen
<1>2. ASSUME MarkerFits, [MarkerNext]_markerVars PROVE MarkerFits'
  <2> USE <1>2 DEF MarkerFits, PassedIsSeen, IsPassed
  <2>1. CASE MarkerMounts
    BY <2>1 DEF MarkerMounts, NoMarker
  <2>5. CASE MarkerLeaves
    BY <2>5 DEF MarkerLeaves, NoMarker
  <2>2. CASE OpeningScrolled
    BY <2>2 DEF OpeningScrolled
  <2>3. CASE MarkerChecks
    BY <2>3 DEF MarkerChecks
  <2>4. CASE UNCHANGED markerVars
    BY <2>4 DEF markerVars
  <2>. QED
    BY <1>2, <2>1, <2>2, <2>3, <2>4, <2>5 DEF MarkerNext
<1>. QED
  BY <1>1, <1>2, PTL DEF MarkerSpec, MarkerFits

(* A refusal beside a session that holds is an earlier session's, and known as one. *)
ShellFits ==
    /\ me \in [loaded : BOOLEAN, failure : Kind,
               read : {"never", "asked", "ok", "refused", "fails", "idle"}]
    /\ session \in BOOLEAN /\ heldCookie \in BOOLEAN /\ staleRefusal \in BOOLEAN /\ servedBefore \in BOOLEAN
    /\ session => heldCookie
    /\ session /\ me.read = "refused" => servedBefore
    /\ session /\ me.failure = "auth" => staleRefusal
    /\ ValidSessionStays

(* In every order of the shell's reads, expiries and sign-ins: nobody whose session *)
(* holds is sent to sign in, but by the refusal of an earlier session that is still *)
(* cached (console-shell.tsx).                                                      *)
THEOREM SessionsStay == ShellSpec => []ValidSessionStays
<1>1. ShellInit => ShellFits
  BY DEF ShellInit, ShellFits, ValidSessionStays, Fetching, NothingLoaded, Kind
<1>2. ASSUME ShellFits, [ShellNext]_shellVars PROVE ShellFits'
  <2> USE <1>2 DEF ShellFits, ValidSessionStays, Kind
  <2>1. CASE MeServed \/ MeAnswered \/ MeAskedAgain
    <3>1. CASE MeServed
      BY <2>1, <3>1 DEF MeServed
    <3>2. CASE MeAnswered
      BY <2>1, <3>2 DEF MeAnswered
    <3>3. CASE MeAskedAgain
      BY <2>1, <3>3 DEF MeAskedAgain, Fetching
    <3>. QED
      BY <2>1, <3>1, <3>2, <3>3
  <2>2. CASE RedirectedToSignIn \/ GateTurnsAway
    BY <2>2 DEF RedirectedToSignIn, GateTurnsAway, Expired
  <2>3. CASE SignsIn \/ ConsoleOpened
    <3>1. ASSUME NEW q \in Mounted(me)
          PROVE  /\ q \in [loaded : BOOLEAN, failure : Kind,
                           read : {"never", "asked", "ok", "refused", "fails", "idle"}]
                 /\ q.failure = "auth" => me.failure = "auth"
                 /\ q.read = "refused" => me.read = "refused"
      BY DEF Mounted, Fetching
    <3>2. CASE SignsIn
      BY <2>3, <3>1, <3>2 DEF SignsIn
    <3>3. CASE ConsoleOpened
      BY <2>3, <3>1, <3>3 DEF ConsoleOpened
    <3>. QED
      BY <2>3, <3>2, <3>3
  <2>4. CASE SessionEnds \/ SignOutPressed \/ LogoutRuns
    <3>1. session' = FALSE \/ UNCHANGED session
      BY <2>4 DEF SessionEnds, SignOutPressed, LogoutRuns
    <3>2. UNCHANGED <<heldCookie, me, staleRefusal, servedBefore, sentAway>>
      BY <2>4 DEF SessionEnds, SignOutPressed, LogoutRuns
    <3>3. CASE session' = FALSE
      BY <3>2, <3>3
    <3>4. CASE UNCHANGED session
      BY <3>2, <3>4
    <3>. QED
      BY <3>1, <3>3, <3>4
  <2>7. CASE CacheDropped
    BY <2>7 DEF CacheDropped, NothingLoaded
  <2>5. CASE SignOutAnswered
    BY <2>5 DEF SignOutAnswered
  <2>6. CASE UNCHANGED shellVars
    BY <2>6 DEF shellVars
  <2>. QED
    BY <1>2, <2>1, <2>2, <2>3, <2>4, <2>5, <2>6, <2>7 DEF ShellNext
<1>. QED
  BY <1>1, <1>2, PTL DEF ShellSpec, ShellFits

(* Until pane one is edited beside it, a submission is what pane one collected, shows *)
(* when it is returned to, and shows beside the error.                                *)
RegistrationFits ==
    /\ pane \in {1, 2, 3} /\ editedSince \in BOOLEAN
    /\ typed \in Domain \cup {NoDomain} /\ details \in Domain \cup {NoDomain}
    /\ posted \in Domain \cup {NoDomain} /\ domainError \in Domain \cup {NoDomain}
    /\ ~editedSince =>
        /\ posted # NoDomain => posted = details /\ (pane = 1 => typed = details)
        /\ domainError # NoDomain /\ pane = 1 => typed = domainError
        /\ domainError # NoDomain /\ pane = 2 => details = domainError
        /\ pane = 3 /\ staged # NoDomain => staged = details

(* Of every set of typed details: an error stands only beside the domain refused, and *)
(* what the verify screen completes is what pane one holds (pilot/admin/page.tsx).    *)
THEOREM JudgedStands == RegSpec => []WhatWasJudgedStands
<1>1. RegInit => RegistrationFits
  BY DEF RegInit, RegistrationFits
<1>2. ASSUME RegistrationFits, [RegNext]_regVars PROVE RegistrationFits'
  <2> USE <1>2, DomainAssumption DEF RegistrationFits
  <2>1. ASSUME NEW d \in Domain, DomainTyped(d) PROVE RegistrationFits'
    <3>1. typed' \in Domain \cup {NoDomain} /\ domainError' = NoDomain
          /\ pane = 1 /\ UNCHANGED <<pane, details, posted, staged>>
      BY <2>1 DEF DomainTyped
    <3>2. editedSince' \in BOOLEAN /\ (~editedSince' => posted' = NoDomain)
      BY <2>1 DEF DomainTyped
    <3>. QED
      BY <3>1, <3>2
  <2>2. ASSUME NEW d \in Domain, RegisteredByAnother(d) PROVE RegistrationFits'
    BY <2>2 DEF RegisteredByAnother
  <2>3. CASE OrganisationSubmitted
    BY <2>3 DEF OrganisationSubmitted
  <2>4. CASE BackToOrganisation
    BY <2>4 DEF BackToOrganisation
  <2>5. CASE AdministratorSubmitted
    BY <2>5 DEF AdministratorSubmitted
  <2>6. CASE RegistrationStaged \/ RegistrationFails \/ RegistrationCompleted
    BY <2>6 DEF RegistrationStaged, RegistrationFails, RegistrationCompleted
  <2>7. CASE RegistrationAnswered
    BY <2>7 DEF RegistrationAnswered
  <2>8. CASE DomainRefused
    BY <2>8 DEF DomainRefused
  <2>9. CASE UNCHANGED regVars
    BY <2>9 DEF regVars
  <2>. QED
    BY <1>2, <2>1, <2>2, <2>3, <2>4, <2>5, <2>6, <2>7, <2>8, <2>9 DEF RegNext
<1>3. RegistrationFits => WhatWasJudgedStands
  BY DEF RegistrationFits, WhatWasJudgedStands
<1>. QED
  BY <1>1, <1>2, <1>3, PTL DEF RegSpec

-----------------------------------------------------------------------------
(* Lists read through one cached query, and searches with tickets. *)

(* What a query's data or the answer on its way is at rest. *)
ShowsNow(v, facts) ==
    /\ v.stage = "idle" => v.data = facts
    /\ v.stage = "answered" => v.got = facts

(* Whatever a query does, it stays one, and what it was answered last is what shows. *)
MovesFit(v, f, Facts) ==
    /\ Asked(v) \in ViewOf(Facts) /\ ShowsNow(Asked(v), f)
    /\ ReadAnswered(v, f) \in ViewOf(Facts) /\ ShowsNow(ReadAnswered(v, f), f)
    /\ Failed(v) \in ViewOf(Facts) /\ ShowsNow(Failed(v), f)
    /\ Invalidated(v, TRUE) \in ViewOf(Facts) /\ ShowsNow(Invalidated(v, TRUE), f)
    /\ Arrived(v) \in ViewOf(Facts)
    /\ v.stage = "answered" /\ ShowsNow(v, f) => ShowsNow(Arrived(v), f)

(* Each step of a query fits what it shows: an invalidation drops the read under way, *)
(* an answer served now is of now.                                                    *)
LEMMA ViewsMove ==
  ASSUME NEW Facts, NEW f \in Facts, NEW v \in ViewOf(Facts)
  PROVE  MovesFit(v, f, Facts)
BY DEF MovesFit, ViewOf, ShowsNow, Asked, ReadAnswered, Arrived, Failed, Invalidated

(* A query first asked shows nothing yet. *)
LEMMA FirstRead ==
  ASSUME NEW Facts, NEW f \in Facts, NEW g
  PROVE  Asked(Unread(f)) \in ViewOf(Facts) /\ ShowsNow(Asked(Unread(f)), g)
BY DEF ViewOf, ShowsNow, Unread, Asked

-----------------------------------------------------------------------------

(* A catalogue at rest, or answered, is the tool's status, unless the card cannot know *)
(* better; and what a return announced was announced once.                             *)
CardFits ==
    /\ toolStatus \in ToolStatus /\ catalogue \in ViewOf(ToolStatus) /\ unread \in BOOLEAN
    /\ announced \in [count : {0, 1}, named : BOOLEAN, of : {"none", "connected", "refused", "unmatched"}]
    /\ param \in {"none", "connected", "refused", "unmatched"}
    /\ cardCall \in [what : {"none", "connect", "sync", "disconnect"}, stage : {"none", "out", "done"}]
    /\ cardCall.stage # "none" => cardCall.what # "none"
    /\ param # "none" => announced.count = 0
    /\ announced.of = "refused" => announced.named
    /\ ~unread => ShowsNow(catalogue, toolStatus)

(* A return from a provider is announced at most once and a refusal by name, and a card *)
(* at rest shows what its own presses did, whatever was being read (integrations page). *)
THEOREM CardIsTold == CardSpec => [](ReturnAnnounced /\ CardCatchesUp)
<1>. NoToast \in [count : {0, 1}, named : BOOLEAN, of : {"none", "connected", "refused", "unmatched"}]
     /\ NoToast.count = 0 /\ NoToast.of = "none"
  BY DEF NoToast
<1>. NoCardCall \in [what : {"none", "connect", "sync", "disconnect"}, stage : {"none", "out", "done"}]
     /\ NoCardCall.stage = "none"
  BY DEF NoCardCall
<1>1. ASSUME CardInit PROVE CardFits
  <2>1. catalogue \in ViewOf(ToolStatus) /\ ShowsNow(catalogue, toolStatus) /\ toolStatus \in ToolStatus
    BY <1>1, FirstRead DEF CardInit
  <2>. QED
    BY <1>1, <2>1 DEF CardInit, CardFits
<1>2. ASSUME CardFits, [CardNext]_cardVars PROVE CardFits'
  <2>0. toolStatus \in ToolStatus /\ catalogue \in ViewOf(ToolStatus) /\ MovesFit(catalogue, toolStatus, ToolStatus)
    BY <1>2, ViewsMove DEF CardFits
  <2>1. CASE CatalogueServed
    BY <1>2, <2>0, <2>1 DEF MovesFit, CatalogueServed, CardFits
  <2>2. CASE CatalogueArrives
    BY <1>2, <2>0, <2>2 DEF MovesFit, CatalogueArrives, CardFits
  <2>3. CASE CatalogueFails \/ CatalogueRetried
    BY <1>2, <2>0, <2>3 DEF MovesFit, CatalogueFails, CatalogueRetried, CardFits
  <2>4. CASE Announce
    <3> DEFINE toast == [count |-> announced.count + 1, of |-> param,
                         named |-> param = "connected" \/ (param = "refused" /\ catalogue.here)]
    <3>1. announced.count = 0 /\ (param = "refused" => catalogue.here) /\ catalogue.here \in BOOLEAN
      BY <1>2, <2>0, <2>4 DEF Announce, CardFits, Loaded, ViewOf
    <3>2. toast.count = 1 /\ toast.of \in {"none", "connected", "refused", "unmatched"}
          /\ toast.named \in BOOLEAN /\ (toast.of = "refused" => toast.named)
      BY <1>2, <3>1 DEF CardFits
    <3>3. toast \in [count : {0, 1}, named : BOOLEAN, of : {"none", "connected", "refused", "unmatched"}]
      BY <3>2
    <3>4. announced' = toast
      BY <2>4 DEF Announce
    <3> HIDE DEF toast
    <3>. QED
      BY <1>2, <2>4, <3>2, <3>3, <3>4 DEF Announce, CardFits
  <2>5. CASE CardCallRuns
    BY <1>2, <2>0, <2>5 DEF CardCallRuns, CardFits, ToolStatus
  <2>6. CASE CardCallFails
    BY <1>2, <2>0, <2>6 DEF CardCallFails, CardFits
  <2>7. CASE CardCallHeard
    BY <1>2, <2>0, <2>7 DEF MovesFit, CardCallHeard, CardFits, RefreshCatalogue
  <2>8. CASE ComesBack
    <3>1. /\ catalogue' = Asked(Unread("none")) /\ announced' = NoToast /\ unread' = FALSE
          /\ toolStatus' \in ToolStatus /\ param' \in {"none", "connected", "refused", "unmatched"}
      BY <2>0, <2>8 DEF ComesBack, ToolStatus
    <3>2. catalogue' \in ViewOf(ToolStatus) /\ ShowsNow(catalogue', toolStatus')
      BY <3>1, FirstRead DEF ToolStatus
    <3>. QED
      BY <1>2, <2>8, <3>1, <3>2 DEF CardFits, ComesBack
  <2>9. ASSUME NEW w \in {"connect", "sync", "disconnect"}, CardPressed(w) PROVE CardFits'
    BY <1>2, <2>9 DEF CardPressed, CardFits
  <2>10. ASSUME NEW s \in ToolStatus, WorkerMoves(s) PROVE CardFits'
    BY <1>2, <2>10 DEF WorkerMoves, CardFits
  <2>11. CASE UNCHANGED cardVars
    BY <1>2, <2>11 DEF cardVars, CardFits
  <2>. QED
    BY <1>2, <2>1, <2>2, <2>3, <2>4, <2>5, <2>6, <2>7, <2>8, <2>9, <2>10, <2>11 DEF CardNext
<1>3. CardFits => ReturnAnnounced /\ CardCatchesUp
  BY DEF CardFits, ReturnAnnounced, CardCatchesUp, ShowsNow
<1>. QED
  BY <1>1, <1>2, <1>3, PTL DEF CardSpec

-----------------------------------------------------------------------------

(* The list of sources at rest shows which walk, unless the page cannot know better. *)
WatchFits ==
    /\ walking \in SUBSET Source /\ sourcesView \in ViewOf(SUBSET Source) /\ workerSeen \in BOOLEAN
    /\ resyncs \in [Source -> {"none", "out", "done"}]
    /\ workerSeen /\ (\A s \in Source : resyncs[s] # "done") => ShowsNow(sourcesView, walking)

(* Of every set of sources: the list at rest shows the walks its buttons queued, *)
(* whatever was being read at the time (sources page).                           *)
THEOREM SourcesCatchUp == WatchSpec => []WatchCatchesUp
<1>1. WatchInit => WatchFits
  BY FirstRead DEF WatchInit, WatchFits
<1>2. ASSUME WatchFits, [WatchNext]_watchVars PROVE WatchFits'
  <2>0. walking \in SUBSET Source /\ sourcesView \in ViewOf(SUBSET Source) /\ MovesFit(sourcesView, walking, SUBSET Source)
    BY <1>2, ViewsMove DEF WatchFits
  <2>1. CASE SourcesRead
    <3>1. CASE sourcesView' = ReadAnswered(sourcesView, walking) /\ workerSeen' = TRUE
      BY <1>2, <2>0, <2>1, <3>1 DEF MovesFit, SourcesRead, WatchFits
    <3>2. CASE UNCHANGED workerSeen
      BY <1>2, <2>0, <2>1, <3>2 DEF MovesFit, SourcesRead, WatchFits
    <3>. QED
      BY <2>1, <3>1, <3>2 DEF SourcesRead
  <2>2. ASSUME NEW f \in {"all", "syncing", "idle"}, FilterPicked(f) PROVE WatchFits'
    BY <1>2, <2>2 DEF FilterPicked, WatchFits
  <2>3. ASSUME NEW s \in Source, ResyncPressed(s) \/ ResyncRecorded(s) PROVE WatchFits'
    BY <1>2, <2>3 DEF ResyncPressed, ResyncRecorded, WatchFits
  <2>4. ASSUME NEW s \in Source, ResyncHeard(s) PROVE WatchFits'
    BY <1>2, <2>0, <2>4 DEF MovesFit, ResyncHeard, WatchFits
  <2>5. ASSUME NEW s \in Source, ResyncFails(s) PROVE WatchFits'
    BY <1>2, <2>5 DEF ResyncFails, WatchFits
  <2>6. ASSUME NEW s \in Source, WalkEnds(s) PROVE WatchFits'
    BY <1>2, <2>6 DEF WalkEnds, WatchFits
  <2>7. CASE UNCHANGED watchVars
    BY <1>2, <2>7 DEF watchVars, WatchFits
  <2>. QED
    BY <1>2, <2>1, <2>2, <2>3, <2>4, <2>5, <2>6, <2>7 DEF WatchNext
<1>3. WatchFits => WatchCatchesUp
  BY DEF WatchFits, WatchCatchesUp, ShowsNow
<1>. QED
  BY <1>1, <1>2, <1>3, PTL DEF WatchSpec

-----------------------------------------------------------------------------

(* The grants listed at rest are the ones there are, unless a revocation's answer was *)
(* lost.                                                                              *)
GrantsFit ==
    /\ granted \in SUBSET Connection /\ grantsView \in ViewOf(SUBSET Connection) /\ unheard \in BOOLEAN
    /\ revokes \in [Connection -> {"none", "out", "done", "heard"}]
    /\ ~unheard /\ (\A s \in Connection : revokes[s] # "done") => ShowsNow(grantsView, granted)

(* Of every set of connections: the list at rest has none whose revocation was      *)
(* answered, whatever was being read as it was recorded (employee-connections.tsx). *)
THEOREM GrantsDoCatchUp == GrantsSpec => []GrantsCatchUp
<1>1. GrantsInit => GrantsFit
  BY FirstRead DEF GrantsInit, GrantsFit
<1>2. ASSUME GrantsFit, [GrantsNext]_grantVars PROVE GrantsFit'
  <2>0. /\ granted \in SUBSET Connection /\ grantsView \in ViewOf(SUBSET Connection)
        /\ MovesFit(grantsView, granted, SUBSET Connection)
        /\ GrantsOver(revokes) \in [Connection -> {"none", "out", "done", "heard"}]
        /\ \A s \in Connection : (GrantsOver(revokes)[s] = "done") = (revokes[s] = "done")
    BY <1>2, ViewsMove DEF GrantsFit, GrantsOver
  <2>1. CASE GrantsRead
    BY <1>2, <2>0, <2>1 DEF MovesFit, GrantsRead, GrantsFit
  <2>2. ASSUME NEW s \in Connection, GrantRevokePressed(s) \/ RevokeRecorded(s) PROVE GrantsFit'
    BY <1>2, <2>2 DEF GrantRevokePressed, RevokeRecorded, GrantsFit
  <2>3. ASSUME NEW s \in Connection, RevokeHeard(s) PROVE GrantsFit'
    BY <1>2, <2>0, <2>3 DEF MovesFit, RevokeHeard, GrantsFit
  <2>4. ASSUME NEW s \in Connection, RevokeFails(s) PROVE GrantsFit'
    BY <1>2, <2>4 DEF RevokeFails, GrantsFit
  <2>5. CASE UNCHANGED grantVars
    BY <1>2, <2>5 DEF grantVars, GrantsFit
  <2>. QED
    BY <1>2, <2>1, <2>2, <2>3, <2>4, <2>5 DEF GrantsNext
<1>3. GrantsFit => GrantsCatchUp
  BY DEF GrantsFit, GrantsCatchUp, ShowsNow
<1>. QED
  BY <1>1, <1>2, <1>3, PTL DEF GrantsSpec

-----------------------------------------------------------------------------

(* The saved answers at rest are the server's, and those a page adds or removes are on *)
(* their way.                                                                          *)
SavedFits ==
    /\ kept \in SUBSET Ref /\ savedView \in ViewOf(SUBSET Ref)
    /\ missedOne \in BOOLEAN /\ elsewhere \in BOOLEAN
    /\ saving \in [ref : Ref \cup {NoRef}, stage : {"none", "out", "done", "heard"}]
    /\ saving.stage # "none" => saving.ref \in Ref
    /\ removal \in [Ref -> {"none", "out", "done", "heard"}]
    /\ ~missedOne /\ ~elsewhere /\ saving.stage # "done" /\ (\A r \in Ref : removal[r] # "done")
       => ShowsNow(savedView, kept)

(* Of every set of answers: the saved list at rest is what is saved, unless the answer *)
(* to a write was lost (kt-saved.tsx).                                                 *)
THEOREM SavedDoesCatchUp == SavedSpec => []SavedCatchUp
<1>. NoSave \in [ref : Ref \cup {NoRef}, stage : {"none", "out", "done", "heard"}]
     /\ NoSave.stage = "none"
  BY DEF NoSave
<1>1. ASSUME SavedInit PROVE SavedFits
  <2>1. savedView \in ViewOf(SUBSET Ref) /\ ShowsNow(savedView, kept)
    BY <1>1, FirstRead, {} \in SUBSET Ref DEF SavedInit
  <2>. QED
    BY <1>1, <2>1 DEF SavedInit, SavedFits
<1>2. ASSUME SavedFits, [SavedNext]_savedVars PROVE SavedFits'
  <2>0. kept \in SUBSET Ref /\ savedView \in ViewOf(SUBSET Ref) /\ MovesFit(savedView, kept, SUBSET Ref)
    BY <1>2, ViewsMove DEF SavedFits
  <2>1. CASE SavedServed \/ RetriesSaved
    BY <1>2, <2>0, <2>1 DEF MovesFit, SavedServed, RetriesSaved, SavedFits
  <2>2. CASE SavedArrives
    BY <1>2, <2>0, <2>2 DEF MovesFit, SavedArrives, SavedFits
  <2>3. CASE WritesDown \/ SaveRecorded \/ SaveFails
    BY <1>2, <2>3 DEF WritesDown, SaveRecorded, SaveFails, SavedFits
  <2>4. CASE SaveHeard
    BY <1>2, <2>0, <2>4 DEF MovesFit, SaveHeard, SavedFits, Refresh
  <2>5. CASE ElsewhereHeard
    BY <1>2, <2>0, <2>5 DEF MovesFit, ElsewhereHeard, SavedFits, Refresh
  <2>6. ASSUME NEW r \in Ref, SavedElsewhere(r) \/ SavePressed(r) \/ RemovePressed(r) PROVE SavedFits'
    <3>1. CASE SavedElsewhere(r)
      BY <1>2, <3>1 DEF SavedElsewhere, SavedFits
    <3>2. CASE SavePressed(r)
      BY <1>2, <3>2 DEF SavePressed, SavedFits
    <3>3. CASE RemovePressed(r)
      BY <1>2, <3>3 DEF RemovePressed, SavedFits
    <3>. QED
      BY <2>6, <3>1, <3>2, <3>3
  <2>7. ASSUME NEW r \in Ref, RemovalRecorded(r) \/ RemovalFails(r) PROVE SavedFits'
    BY <1>2, <2>7 DEF RemovalRecorded, RemovalFails, SavedFits
  <2>8. ASSUME NEW r \in Ref, RemovalHeard(r) PROVE SavedFits'
    BY <1>2, <2>0, <2>8 DEF MovesFit, RemovalHeard, SavedFits, Refresh
  <2>9. CASE UNCHANGED savedVars
    BY <1>2, <2>9 DEF savedVars, SavedFits
  <2>. QED
    BY <1>2, <2>1, <2>2, <2>3, <2>4, <2>5, <2>6, <2>7, <2>8, <2>9 DEF SavedNext
<1>3. SavedFits => SavedCatchUp
  BY DEF SavedFits, SavedCatchUp, ShowsNow
<1>. QED
  BY <1>1, <1>2, <1>3, PTL DEF SavedSpec

-----------------------------------------------------------------------------

(* A change of an identity on its way. *)
ChangeType == [id : Identity, ran : BOOLEAN] \cup {NoChangeOut}

(* The panel's ticket and what became of its reading agree. *)
ReadingsFit ==
    /\ active \in SUBSET Identity /\ linking \in ChangeType /\ unlinking \in ChangeType
    /\ readings \subseteq [n : 1..MaxReadings, got : SUBSET Identity, answered : BOOLEAN]
    /\ behind \in BOOLEAN /\ misordered \in BOOLEAN
    /\ ~misordered => \A r, s \in readings : r = s
    /\ ~behind /\ ~misordered =>
         /\ \A r \in readings : r.answered => r.got = active
         /\ panel = "list" /\ readings = {} => rows = active

(* Of every set of identities: the panel at rest lists the links that hold, unless *)
(* readings overlapped or a change's answer was lost (source-identities.tsx).      *)
THEOREM PanelShowsGrants == IdsSpec => []PanelIsTheGrants
<1>1. IdsInit => ReadingsFit
  <2>1. FirstReading \in [n : 1..MaxReadings, got : SUBSET Identity, answered : BOOLEAN]
        /\ ~FirstReading.answered
    BY IdentityAssumption DEF FirstReading
  <2>. QED
    BY <2>1 DEF IdsInit, ReadingsFit, ChangeType
<1>2. ASSUME ReadingsFit, [IdsNext]_idVars PROVE ReadingsFit'
  <2> USE <1>2 DEF ReadingsFit
  <2>1. ASSUME NEW r \in readings, IdsServed(r) PROVE ReadingsFit'
    <3>1. [r EXCEPT !.answered = TRUE, !.got = active] \in [n : 1..MaxReadings, got : SUBSET Identity, answered : BOOLEAN]
      OBVIOUS
    <3>2. [r EXCEPT !.answered = TRUE, !.got = active].got = active
      OBVIOUS
    <3>. QED
      BY <2>1, <3>1, <3>2 DEF IdsServed
  <2>2. ASSUME NEW r \in readings, IdsArrive(r) PROVE ReadingsFit'
    BY <2>2 DEF IdsArrive
  <2>3. ASSUME NEW r \in readings, IdsFail(r) PROVE ReadingsFit'
    BY <2>3 DEF IdsFail
  <2>4. ASSUME Loads, UNCHANGED <<active, rows, panel>>, linking' \in ChangeType, unlinking' \in ChangeType
        PROVE  ReadingsFit'
    <3>1. PICK n \in 1..MaxReadings : readings' = readings \cup {[n |-> n, got |-> {}, answered |-> FALSE]}
      BY <2>4 DEF Loads
    <3>2. misordered' = (readings # {}) /\ behind' = FALSE
      BY <2>4 DEF Loads
    <3> DEFINE one == [n |-> n, got |-> {}, answered |-> FALSE]
    <3>3. one \in [n : 1..MaxReadings, got : SUBSET Identity, answered : BOOLEAN] /\ ~one.answered
      OBVIOUS
    <3>4. misordered' \in BOOLEAN /\ (~misordered' => readings = {}) /\ readings' = readings \cup {one}
      BY <3>1, <3>2
    <3> HIDE DEF one
    <3>. QED
      BY <2>4, <3>2, <3>3, <3>4
  <2>5. CASE IdsRetried \/ LinkAnswered \/ RevocationAnswered
    BY <2>4, <2>5 DEF IdsRetried, LinkAnswered, RevocationAnswered, ChangeType
  <2>6. ASSUME NEW i \in Identity, LinkPressed(i) \/ RevokePressedOn(i) PROVE ReadingsFit'
    <3>1. [id |-> i, ran |-> FALSE] \in ChangeType
      BY DEF ChangeType
    <3>. QED
      BY <2>6, <3>1 DEF LinkPressed, RevokePressedOn
  <2>7. CASE ChangeFails \/ UNCHANGED idVars
    BY <2>7 DEF ChangeFails, idVars, ChangeType
  <2>8. CASE LinkRecorded \/ RevocationRecorded
    <3>1. ASSUME NEW c \in ChangeType, c # NoChangeOut
          PROVE  c.id \in Identity /\ [c EXCEPT !.ran = TRUE] \in ChangeType
      BY <3>1 DEF ChangeType
    <3>2. active' \in SUBSET Identity /\ linking' \in ChangeType /\ unlinking' \in ChangeType
      BY <2>8, <3>1 DEF LinkRecorded, RevocationRecorded
    <3>. QED
      BY <2>8, <3>2 DEF LinkRecorded, RevocationRecorded
  <2>. QED
    BY <1>2, <2>1, <2>2, <2>3, <2>5, <2>6, <2>7, <2>8 DEF IdsNext
<1>3. ReadingsFit => PanelIsTheGrants
  BY DEF ReadingsFit, PanelIsTheGrants
<1>. QED
  BY <1>1, <1>2, <1>3, PTL DEF IdsSpec

(* A search of people that is out was asked for by the box as it was at its ticket. *)
SearchesFit ==
    /\ searchTicket \in Nat
    /\ \A s \in searchesOut : s.ticket <= searchTicket /\ s.ticket \in Nat
    /\ \A s \in searchesOut : s.ticket = searchTicket => s.q = searchBox
    /\ PeopleFollowTheBox

(* Of every set of texts: at rest the people offered are those the box asks for, in *)
(* whatever order answers came (source-identities.tsx).                             *)
THEOREM PickerFollowsTheBox == PeopleSpec => []PeopleFollowTheBox
<1>1. PeopleInit => SearchesFit
  BY DEF PeopleInit, SearchesFit, PeopleFollowTheBox
<1>2. ASSUME SearchesFit, [PeopleNext]_peopleVars PROVE SearchesFit'
  <2> USE <1>2 DEF SearchesFit, PeopleFollowTheBox
  <2>1. ASSUME NEW q \in Typed, SearchTyped(q) PROVE SearchesFit'
    <3>1. searchTicket' = searchTicket + 1 /\ searchBox' = q
          /\ searchesOut' = searchesOut \cup {[ticket |-> searchTicket', q |-> q]}
      BY <2>1 DEF SearchTyped, SearchFor
    <3>2. \A s \in searchesOut' : \/ s \in searchesOut /\ s.ticket < searchTicket'
                                  \/ s.ticket = searchTicket' /\ s.q = q
      BY <3>1
    <3>3. searchTicket' \in Nat /\ \A s \in searchesOut' : s.ticket <= searchTicket' /\ s.ticket \in Nat
      BY <3>1, <3>2
    <3>4. [ticket |-> searchTicket', q |-> q] \in searchesOut'
      BY <3>1
    <3>5. PeopleFollowTheBox'
      BY <3>4
    <3>. QED
      BY <3>1, <3>2, <3>3, <3>5
  <2>2. CASE PeopleRetried
    BY <2>2 DEF PeopleRetried, SearchFor
  <2>3. ASSUME NEW s \in searchesOut, SearchAnswered(s) PROVE SearchesFit'
    BY <2>3 DEF SearchAnswered, LatestTicket
  <2>4. ASSUME NEW s \in searchesOut, SearchFailed(s) PROVE SearchesFit'
    BY <2>4 DEF SearchFailed, LatestTicket
  <2>5. ASSUME NEW p \in Someone, PersonPicked(p) PROVE SearchesFit'
    BY <2>5 DEF PersonPicked
  <2>6. CASE UNCHANGED peopleVars
    BY <2>6 DEF peopleVars
  <2>. QED
    BY <1>2, <2>1, <2>2, <2>3, <2>4, <2>5, <2>6 DEF PeopleNext
<1>. QED
  BY <1>1, <1>2, PTL DEF PeopleSpec, SearchesFit

-----------------------------------------------------------------------------
(* The marks of a package: several queries told of one write. *)

(* A call that sets or clears marks. *)
Writing ==
    [via : {"set", "clear", "understood", "card"}, item : Item, value : Mark,
     stage : {"out", "done", "heard", "over"}, ran : BOOLEAN]

(* No call is recorded and unheard. *)
NothingDone == \A n \in 1..Len(calls) : calls[n].stage # "done"

(* A query that heard of every write shows the marks, or will be read again when shown. *)
MarksShow(v) ==
    /\ v.stage = "idle" /\ ~v.invalid => v.data = mark
    /\ v.stage = "answered" => v.got = mark

(* The queries of the marks are views, their calls are writes, and at rest they show *)
(* the marks.                                                                        *)
MarksFit ==
    /\ mark \in [Item -> Mark] /\ tab \in MarksTab /\ calls \in Seq(Writing)
    /\ view \in [MarkQuery -> ViewOf([Item -> Mark])]
    /\ \A n \in 1..Len(calls) : calls[n].stage = "done" => calls[n].ran
    /\ \A q \in MarkQuery : NothingDone /\ q \notin unseen => MarksShow(view[q])
    /\ view[Shows(tab)].stage = "idle" => ~view[Shows(tab)].invalid

(* Whatever becomes of a call, it stays one. *)
LEMMA OverIsAWrite ==
  ASSUME NEW c \in Writing
  PROVE  Over(c) \in Writing /\ Over(c).stage = "over"
BY DEF Writing, Over, Mark

(* What becomes of a query, and what it shows then. *)
QueryMoves(v) ==
    LET Marked == ViewOf([Item -> Mark])
        Goes(w, stage) == w \in Marked /\ w.stage = stage
    IN /\ Goes(Asked(v), "asked") /\ Goes(Failed(v), "failed") /\ Goes(Arrived(v), "idle")
       /\ Arrived(v).data = v.got /\ Arrived(v).invalid = FALSE
       /\ Goes(ReadAnswered(v, mark), "answered") /\ ReadAnswered(v, mark).got = mark
       /\ Goes(Invalidated(v, TRUE), "asked")
       /\ Goes(Invalidated(v, FALSE), v.stage) /\ Invalidated(v, FALSE).invalid = TRUE

(* The steps of QueryView's one query are such moves. *)
LEMMA QueryDoesMove ==
  ASSUME mark \in [Item -> Mark], NEW v \in ViewOf([Item -> Mark])
  PROVE  QueryMoves(v)
BY DEF QueryMoves, ViewOf, Asked, Failed, Arrived, ReadAnswered, Invalidated

(* A call appended or moved on leaves those that wait as they were. *)
LEMMA WaitersStay ==
  ASSUME MarksFit, NEW q \in MarkQuery
  PROVE  /\ WaitersOver(q) \in Seq(Writing) /\ Len(WaitersOver(q)) = Len(calls)
         /\ \A n \in 1..Len(calls) : \/ WaitersOver(q)[n] = calls[n]
                                     \/ WaitersOver(q)[n].stage = "over"
         /\ \A n \in 1..Len(calls) : calls[n].stage = "done" => WaitersOver(q)[n] = calls[n]
<1>1. Len(calls) \in Nat /\ DOMAIN calls = 1..Len(calls) /\ \A n \in 1..Len(calls) : calls[n] \in Writing
  BY DEF MarksFit
<1>2. \A n \in 1..Len(calls) :
        /\ WaitersOver(q)[n] \in Writing
        /\ WaitersOver(q)[n] = calls[n] \/ WaitersOver(q)[n].stage = "over"
        /\ calls[n].stage = "done" => WaitersOver(q)[n] = calls[n]
  BY <1>1, OverIsAWrite DEF WaitersOver
<1>3. WaitersOver(q) \in [1..Len(calls) -> Writing]
  BY <1>1, <1>2 DEF WaitersOver
<1>4. WaitersOver(q) \in Seq(Writing) /\ Len(WaitersOver(q)) = Len(calls)
  BY <1>1, <1>3
<1>. QED
  BY <1>2, <1>4

(* Of every set of items and every number of writes: what a page shows at rest is what *)
(* the server holds, with the exceptions its statement names (kt-workspace.tsx, kt-    *)
(* insights.tsx).                                                                      *)
THEOREM MarksDoCatchUp == MarksSpec => []MarksCatchUp
<1>a. \A t \in MarksTab : Shows(t) \in MarkQuery
  BY DEF Shows, MarkQuery, MarksTab
<1>1. MarksInit => MarksFit
  <2>. SUFFICES ASSUME MarksInit PROVE MarksFit
    OBVIOUS
  <2>1. mark \in [Item -> Mark]
    BY DEF MarksInit, Mark
  <2>2. \A q \in MarkQuery : /\ view[q] \in ViewOf([Item -> Mark])
                             /\ view[q].stage \in {"asked", "never"}
    BY <2>1 DEF MarksInit, ViewOf, Unread, Asked
  <2>3. view \in [MarkQuery -> ViewOf([Item -> Mark])]
    BY <2>2 DEF MarksInit
  <2>4. calls \in Seq(Writing) /\ Len(calls) = 0 /\ tab \in MarksTab
    BY DEF MarksInit, MarksTab
  <2>5. \A q \in MarkQuery : MarksShow(view[q]) /\ view[q].stage # "idle"
    BY <2>2 DEF MarksShow
  <2>6. view[Shows(tab)].stage # "idle"
    BY <1>a, <2>4, <2>5
  <2>7. \A n \in 1..Len(calls) : calls[n].stage = "done" => calls[n].ran
    BY <2>4
  <2>. QED
    BY <2>1, <2>3, <2>4, <2>5, <2>6, <2>7 DEF MarksFit
<1>2. ASSUME MarksFit, [MarksNext]_marksVars PROVE MarksFit'
  <2>b. calls \in Seq(Writing) /\ view \in [MarkQuery -> ViewOf([Item -> Mark])]
    BY <1>2 DEF MarksFit
  <2>c. \A n \in 1..Len(calls) : calls[n] \in Writing
    BY <2>b
  <2>d. DOMAIN calls = 1..Len(calls) /\ Len(calls) \in Nat
    BY <2>b
  <2>e. \A q \in MarkQuery : view[q] \in ViewOf([Item -> Mark])
    BY <2>b
  <2>0. /\ \A n \in 1..Len(calls) : calls[n] \in Writing
        /\ DOMAIN calls = 1..Len(calls) /\ Len(calls) \in Nat
        /\ \A q \in MarkQuery : view[q] \in ViewOf([Item -> Mark])
    BY <2>c, <2>d, <2>e
  <2>a. \A q \in MarkQuery : QueryMoves(view[q])
    BY <1>2, <2>0, QueryDoesMove DEF MarksFit
  <2>1. ASSUME NEW t \in MarksTab, OpensTab(t) PROVE MarksFit'
    <3>1. PICK v \in OnMount(view[Shows(t)]) : view' = [view EXCEPT ![Shows(t)] = v]
      BY <2>1 DEF OpensTab
    <3>2. v = Asked(view[Shows(t)]) \/ (v = view[Shows(t)] /\ (v.stage = "idle" => ~v.invalid))
      BY <3>1 DEF OnMount, Reading
    <3>3. v \in ViewOf([Item -> Mark]) /\ (v.stage = "idle" => ~v.invalid)
          /\ (MarksShow(view[Shows(t)]) => MarksShow(v))
      <4>1. QueryMoves(view[Shows(t)]) /\ view[Shows(t)] \in ViewOf([Item -> Mark])
        BY <1>a, <2>0, <2>a
      <4>. QED
        BY <3>2, <4>1 DEF MarksShow, QueryMoves
    <3>. QED
      BY <1>2, <1>a, <2>1, <3>1, <3>3 DEF OpensTab, MarksFit, MarksShow, NothingDone
  <2>2. ASSUME NEW q \in MarkQuery, MarksServed(q) PROVE MarksFit'
    <3> DEFINE v == ReadAnswered(view[q], mark)
    <3>1. v \in ViewOf([Item -> Mark]) /\ v.stage = "answered" /\ v.got = mark
      BY <2>a DEF QueryMoves
    <3>2. view' = [view EXCEPT ![q] = v] /\ UNCHANGED <<mark, tab, calls>> /\ unseen' = unseen \ {q}
      BY <2>2 DEF MarksServed
    <3> HIDE DEF v
    <3>3. \A p \in MarkQuery : view'[p] = IF p = q THEN v ELSE view[p]
      BY <2>b, <3>2
    <3>4. NothingDone' = NothingDone
      BY <3>2 DEF NothingDone
    <3>5. \A p \in MarkQuery : NothingDone' /\ p \notin unseen' => MarksShow(view[p])' 
      BY <1>2, <3>1, <3>2, <3>3, <3>4 DEF MarksFit, MarksShow
    <3>. QED
      BY <1>2, <1>a, <3>1, <3>2, <3>3, <3>5 DEF MarksFit
  <2>3. ASSUME NEW q \in MarkQuery, MarksArrive(q) PROVE MarksFit'
    <3>1. /\ calls' \in Seq(Writing) /\ Len(calls') = Len(calls)
          /\ \A n \in 1..Len(calls) : calls'[n] = calls[n] \/ calls'[n].stage = "over"
          /\ \A n \in 1..Len(calls) : calls[n].stage = "done" => calls'[n] = calls[n]
      BY <1>2, <2>3, WaitersStay DEF MarksArrive
    <3>2. NothingDone' => NothingDone
      BY <3>1 DEF NothingDone
    <3>3. PICK v : /\ view' = [view EXCEPT ![q] = v]
                   /\ v = Failed(view[q]) \/ (view[q].stage = "answered" /\ v = Arrived(view[q]))
      BY <2>3 DEF MarksArrive
    <3>4. v \in ViewOf([Item -> Mark]) /\ (v.stage = "idle" => ~v.invalid)
          /\ (MarksShow(view[q]) => MarksShow(v))
      BY <2>a, <3>3 DEF MarksShow, QueryMoves
    <3>5. UNCHANGED <<mark, tab, unseen>>
      BY <2>3 DEF MarksArrive
    <3>. QED
      BY <1>2, <1>a, <3>1, <3>2, <3>3, <3>4, <3>5 DEF MarksFit, MarksShow
  <2>4. CASE RetriesMarks
    <3> DEFINE on == Shows(tab)
    <3>1. on \in MarkQuery /\ view' = [view EXCEPT ![on] = Asked(view[on])]
          /\ UNCHANGED <<mark, tab, calls, unseen>>
      BY <1>2, <1>a, <2>4 DEF RetriesMarks, MarksFit
    <3>2. Asked(view[on]) \in ViewOf([Item -> Mark]) /\ Asked(view[on]).stage = "asked"
      BY <2>a, <3>1 DEF QueryMoves
    <3> HIDE DEF on
    <3>. QED
      BY <1>2, <3>1, <3>2 DEF MarksFit, MarksShow, NothingDone, on
  <2>5. ASSUME NEW i \in Item, NEW via \in {"set", "clear", "understood", "card"}, NEW m \in Mark,
               Marks(via, i, m)
        PROVE  MarksFit'
    <3> DEFINE one == [via |-> via, item |-> i, value |-> m, stage |-> "out", ran |-> FALSE]
    <3>1. one \in Writing /\ one.stage = "out"
      BY DEF Writing
    <3>2. calls' = Append(calls, one) /\ UNCHANGED <<mark, tab, view, unseen>>
      BY <2>5 DEF Marks
    <3> HIDE DEF one
    <3>3. calls' \in Seq(Writing) /\ Len(calls') = Len(calls) + 1
          /\ \A n \in 1..Len(calls') : calls'[n] = IF n = Len(calls) + 1 THEN one ELSE calls[n]
      BY <1>2, <3>1, <3>2 DEF MarksFit
    <3>4. NothingDone' => NothingDone
      BY <2>0, <3>1, <3>3 DEF NothingDone
    <3>5. \A n \in 1..Len(calls') : calls'[n].stage = "done" => calls'[n].ran
      BY <1>2, <2>0, <3>1, <3>3 DEF MarksFit
    <3>6. \A q \in MarkQuery : NothingDone' /\ q \notin unseen' => MarksShow(view[q])'
      BY <1>2, <3>2, <3>4 DEF MarksFit, MarksShow
    <3>. QED
      BY <1>2, <3>2, <3>3, <3>5, <3>6 DEF MarksFit
  <2>6. ASSUME NEW n \in 1..Len(calls), MarkRecorded(n) PROVE MarksFit'
    <3>1. [calls[n] EXCEPT !.stage = "done", !.ran = TRUE] \in Writing
          /\ [calls[n] EXCEPT !.stage = "done", !.ran = TRUE].stage = "done"
          /\ [calls[n] EXCEPT !.stage = "done", !.ran = TRUE].ran
      BY <2>0 DEF Writing
    <3> DEFINE one == [calls[n] EXCEPT !.stage = "done", !.ran = TRUE]
    <3>2. calls' = [calls EXCEPT ![n] = one]
      BY <2>6 DEF MarkRecorded
    <3> HIDE DEF one
    <3>3. calls' \in Seq(Writing) /\ Len(calls') = Len(calls)
          /\ \A m \in 1..Len(calls) : calls'[m] = IF m = n THEN one ELSE calls[m]
      BY <1>2, <3>1, <3>2, ExceptSeq DEF MarksFit, one
    <3>4. ~NothingDone'
      BY <3>1, <3>3 DEF NothingDone, one
    <3>5. mark' \in [Item -> Mark]
      BY <1>2, <2>0, <2>6 DEF MarkRecorded, MarksFit, Writing
    <3>6. \A m \in 1..Len(calls') : calls'[m].stage = "done" => calls'[m].ran
      BY <1>2, <3>1, <3>3 DEF MarksFit, one
    <3>. QED
      BY <1>2, <2>6, <3>3, <3>4, <3>5, <3>6 DEF MarkRecorded, MarksFit
  <2>7. ASSUME NEW n \in 1..Len(calls), MarkFails(n) PROVE MarksFit'
    <3>1. calls' = [calls EXCEPT ![n] = Over(calls[n])] /\ UNCHANGED <<mark, tab, view>>
      BY <2>7 DEF MarkFails
    <3>2. calls' \in Seq(Writing) /\ Len(calls') = Len(calls)
          /\ \A m \in 1..Len(calls) : calls'[m] = IF m = n THEN Over(calls[n]) ELSE calls[m]
      BY <1>2, <2>0, <3>1, ExceptSeq, OverIsAWrite DEF MarksFit
    <3>3. Over(calls[n]).stage = "over"
      BY <2>0, OverIsAWrite
    <3>4. CASE calls[n].stage = "done"
      <4>1. unseen' = MarkQuery
        BY <1>2, <2>7, <3>4 DEF MarkFails, MarksFit
      <4>. QED
        BY <1>2, <3>1, <3>2, <3>3, <4>1 DEF MarksFit
    <3>5. CASE calls[n].stage # "done"
      <4>1. NothingDone' => NothingDone
        BY <3>2, <3>3, <3>5 DEF NothingDone
      <4>2. unseen' = unseen \/ unseen' = MarkQuery
        BY <2>7 DEF MarkFails
      <4>. QED
        BY <1>2, <3>1, <3>2, <3>3, <4>1, <4>2 DEF MarksFit, MarksShow
    <3>. QED
      BY <3>4, <3>5
  <2>8. ASSUME NEW n \in 1..Len(calls), MarkHeard(n) PROVE MarksFit'
    <3> DEFINE qs == Invalidates(calls[n].via)
               on == Shows(tab)
               ws == WaitersOver(on)
    <3>1. /\ view' = [q \in MarkQuery |-> IF q \in qs THEN Invalidated(view[q], q = on) ELSE view[q]]
          /\ unseen' = unseen \cup {q \in MarkQuery : q \notin qs \/ Outrun(view[q], q = on)}
          /\ calls' = [ws EXCEPT ![n] = IF on \in qs THEN [@ EXCEPT !.stage = "heard"] ELSE Over(@)]
          /\ UNCHANGED <<mark, tab>>
      BY <2>8 DEF MarkHeard
    <3>2. on \in MarkQuery
      BY <1>2, <1>a DEF MarksFit
    <3>3. /\ ws \in Seq(Writing) /\ Len(ws) = Len(calls)
          /\ \A m \in 1..Len(calls) : ws[m] = calls[m] \/ ws[m].stage = "over"
      BY <1>2, <3>2, WaitersStay
    <3> HIDE DEF ws, qs, on
    <3>4. ws[n] \in Writing
      BY <3>3
    <3> DEFINE one == IF on \in qs THEN [ws[n] EXCEPT !.stage = "heard"] ELSE Over(ws[n])
    <3>5. one \in Writing /\ one.stage # "done"
      <4>1. ASSUME NEW c \in Writing
            PROVE  [c EXCEPT !.stage = "heard"] \in Writing /\ [c EXCEPT !.stage = "heard"].stage = "heard"
        BY DEF Writing
      <4>. QED
        BY <3>4, <4>1, OverIsAWrite
    <3>6. calls' = [ws EXCEPT ![n] = one]
      BY <3>1
    <3> HIDE DEF one
    <3>7. calls' \in Seq(Writing) /\ Len(calls') = Len(calls)
          /\ \A m \in 1..Len(calls) : calls'[m] = IF m = n THEN one ELSE ws[m]
      BY <3>3, <3>5, <3>6, ExceptSeq
    <3>8. \A m \in 1..Len(calls') : calls'[m].stage = "done" => calls'[m].ran
      BY <1>2, <3>3, <3>5, <3>7 DEF MarksFit
    <3>9. \A q \in MarkQuery : Invalidated(view[q], q = on) \in ViewOf([Item -> Mark])
      BY <2>a DEF Invalidated, QueryMoves
    <3>10. view' \in [MarkQuery -> ViewOf([Item -> Mark])]
      BY <2>0, <3>1, <3>9
    <3>11. ASSUME NEW q \in MarkQuery, q \notin unseen' PROVE MarksShow(view'[q])
      <4>1. q \in qs /\ view'[q] = Invalidated(view[q], q = on) /\ (q = on \/ view[q].stage # "answered")
        BY <3>1, <3>11 DEF Outrun
      <4>. QED
        BY <2>a, <4>1 DEF MarksShow, QueryMoves, Invalidated
    <3>12. view'[on].stage = "idle" => ~view'[on].invalid
      BY <1>2, <2>a, <3>1, <3>2 DEF MarksFit, on, QueryMoves, Invalidated
    <3>. QED
      BY <1>2, <3>1, <3>7, <3>8, <3>10, <3>11, <3>12 DEF MarksFit, MarksShow, on
  <2>9. CASE UNCHANGED marksVars
    BY <1>2, <2>9 DEF marksVars, MarksFit, MarksShow, NothingDone
  <2>. QED
    BY <1>2, <2>0, <2>1, <2>2, <2>3, <2>4, <2>5, <2>6, <2>7, <2>8, <2>9 DEF MarksNext
<1>3. MarksFit => MarksCatchUp
  BY <1>a DEF MarksFit, MarksCatchUp, MarksShow, NothingDone
<1>. QED
  BY <1>1, <1>2, <1>3, PTL DEF MarksSpec

-----------------------------------------------------------------------------
(* The orb, and the controls that answer a press. *)

(* A microphone effect stands only while the orb is on a page, listens and moves; a *)
(* picture draws only where one was made.                                           *)
OrbFits ==
    /\ orbShown \in BOOLEAN /\ reduced \in BOOLEAN /\ listens \in BOOLEAN
    /\ mic \in [Mic -> MicStates] /\ micNow \in {0} \cup Mic /\ analyser \in {0} \cup Mic
    /\ picture \in {"none", "still", "fallback", "ready", "live"}
    /\ micNow # 0 => orbShown /\ listens /\ ~reduced
    /\ ~orbShown => picture = "none"
    /\ reduced => picture \in {"none", "still"}
    /\ \A n \in Mic : Holds(mic[n]) => n = micNow
    /\ picture \in {"ready", "live"} => contexts = 1
    /\ picture \notin {"ready", "live"} => contexts = 0
    /\ frameAsked => picture \in {"ready", "live"}
    /\ analyser # 0 => mic[analyser] = "open"

(* What a microphone effect leaves behind when it is run anew. *)
MicFits ==
    /\ mic \in [Mic -> MicStates] /\ micNow \in {0} \cup Mic /\ analyser \in {0} \cup Mic
    /\ \A n \in Mic : Holds(mic[n]) => n = micNow
    /\ analyser # 0 => mic[analyser] = "open"

(* An effect of the microphone is started only once the one before it was cleaned up. *)
LEMMA MicRunsAnew ==
  ASSUME OrbFits, NEW on \in BOOLEAN, MicEffect(on), on => micNow = 0
  PROVE  MicFits' /\ (~on => micNow' = 0) /\ (on => micNow' \in Mic)
<1>0. \A n \in Mic : n # 0
  BY OrbAssumption DEF Mic
<1>1. CASE on
  <2>1. PICK n \in Mic : mic[n] = "unused" /\ mic' = [mic EXCEPT ![n] = "asking"] /\ micNow' = n
    BY <1>1 DEF MicEffect, Opened
  <2>2. analyser' = analyser
    BY <1>1 DEF MicEffect
  <2>. QED
    BY <1>0, <1>1, <2>1, <2>2 DEF OrbFits, MicFits, Holds, MicStates
<1>2. CASE ~on
  BY <1>0, <1>2 DEF MicEffect, TornDown, OrbFits, MicFits, Holds, MicStates
<1>. QED
  BY <1>1, <1>2

(* Of every number of effects: every microphone and context the orb took is given back, *)
(* across permissions that arrive after the press of stop (voice-powered-orb.tsx).      *)
THEOREM OrbGivesBack == OrbSpec => []OrbHoldsNothingElse
<1>0. \A n \in Mic : n # 0
  BY OrbAssumption DEF Mic
<1>1. OrbInit => OrbFits
  BY DEF OrbInit, OrbFits, MicStates, Holds
<1>2. ASSUME OrbFits, [OrbNext]_orbVars PROVE OrbFits'
  <2>1. CASE OrbMounts
    <3>1. micNow = 0 /\ picture = "none" /\ contexts = 0 /\ ~frameAsked /\ orbShown' = TRUE
          /\ UNCHANGED <<reduced, listens>>
      BY <1>2, <2>1 DEF OrbMounts, OrbFits
    <3>2. MicFits' /\ (micNow' # 0 => listens /\ ~reduced)
      BY <1>2, <2>1, <3>1, MicRunsAnew DEF OrbMounts, OrbFits, MicFits
    <3>. QED
      BY <1>2, <2>1, <3>1, <3>2 DEF OrbMounts, OrbFits, MicFits, PictureMade
  <2>2. CASE OrbLeaves
    <3>1. MicFits' /\ micNow' = 0
      BY <1>2, <2>2, MicRunsAnew DEF OrbLeaves
    <3>2. /\ orbShown' = FALSE /\ picture' = "none" /\ contexts' = 0 /\ frameAsked' = FALSE
          /\ UNCHANGED <<reduced, listens>>
      BY <1>2, <2>2 DEF OrbLeaves, OrbFits, PictureGone
    <3>. QED
      BY <1>2, <3>1, <3>2 DEF OrbFits, MicFits
  <2>3. CASE ListensOrNot
    <3>1. listens' = ~listens /\ listens' \in BOOLEAN /\ UNCHANGED <<orbShown, reduced, drawnVars>> /\ orbShown
      BY <1>2, <2>3 DEF ListensOrNot, OrbFits
    <3>2. MicFits' /\ (micNow' # 0 => listens' /\ ~reduced)
      BY <1>2, <2>3, <3>1, MicRunsAnew DEF ListensOrNot, OrbFits, MicFits
    <3>. QED
      BY <1>2, <3>1, <3>2 DEF OrbFits, MicFits, drawnVars
  <2>4. ASSUME NEW on \in BOOLEAN, MotionPreferred(on) PROVE OrbFits'
    <3>1. reduced' = on /\ orbShown /\ UNCHANGED <<orbShown, listens>> /\ (~on => reduced)
      BY <1>2, <2>4 DEF MotionPreferred, OrbFits
    <3>2. ~on => micNow = 0 /\ contexts = 0 /\ ~frameAsked
      BY <1>2, <3>1 DEF OrbFits
    <3>3. MicFits' /\ (micNow' # 0 => listens /\ ~on)
      BY <1>2, <2>4, <3>1, <3>2, MicRunsAnew DEF MotionPreferred, OrbFits, MicFits
    <3>4. CASE on
      BY <1>2, <2>4, <3>1, <3>3, <3>4 DEF MotionPreferred, OrbFits, MicFits, PictureGone
    <3>5. CASE ~on
      BY <1>2, <2>4, <3>1, <3>2, <3>3, <3>5 DEF MotionPreferred, OrbFits, MicFits, PictureMade
    <3>. QED
      BY <3>4, <3>5
  <2>5. ASSUME NEW on \in BOOLEAN, OrbSeen(on) PROVE OrbFits'
    BY <1>2, <2>5 DEF OrbSeen, OrbFits, micVars
  <2>6. CASE Draws
    BY <1>2, <2>6 DEF Draws, OrbFits, micVars
  <2>7. ASSUME NEW n \in Mic, StreamAnswered(n) PROVE OrbFits'
    BY <1>2, <2>7 DEF StreamAnswered, OrbFits, drawnVars, Holds, MicStates
  <2>8. ASSUME NEW n \in Mic, Resumed(n) PROVE OrbFits'
    BY <1>2, <2>8 DEF Resumed, OrbFits, drawnVars, Holds, MicStates
  <2>9. CASE UNCHANGED orbVars
    BY <1>2, <2>9 DEF orbVars, OrbFits
  <2>. QED
    BY <1>2, <2>1, <2>2, <2>3, <2>4, <2>5, <2>6, <2>7, <2>8, <2>9 DEF OrbNext
<1>3. OrbFits => OrbHoldsNothingElse
  BY DEF OrbFits, OrbHoldsNothingElse
<1>. QED
  BY <1>1, <1>2, <1>3, PTL DEF OrbSpec

-----------------------------------------------------------------------------

(* What is shown is the last outcome's, and its timer runs for a success only. *)
CopyFits ==
    /\ copyTimer \in BOOLEAN /\ copyMounted \in BOOLEAN
    /\ FailureStands
    /\ copyMounted /\ lastOutcome = "failed" => ~copyTimer

(* Whatever the order the clipboard answers in: a failure stays until a copy succeeds, *)
(* and Copied is shown of a copy only (copy-button.tsx).                               *)
THEOREM FailureStandsOut == CopySpec => []FailureStands
<1>1. CopyInit => CopyFits
  BY DEF CopyInit, CopyFits, FailureStands
<1>2. ASSUME CopyFits, [CopyNext]_copyVars PROVE CopyFits'
  <2> USE <1>2 DEF CopyFits, FailureStands
  <2>1. CASE CopyPressed \/ UNCHANGED copyVars
    BY <2>1 DEF CopyPressed, copyVars
  <2>2. CASE Copied
    BY <2>2 DEF Copied
  <2>3. CASE CopyRefused
    BY <2>3 DEF CopyRefused
  <2>4. CASE CopyTimerFires
    BY <2>4 DEF CopyTimerFires
  <2>5. CASE CopyLeaves
    BY <2>5 DEF CopyLeaves
  <2>. QED
    BY <2>1, <2>2, <2>3, <2>4, <2>5 DEF CopyNext
<1>. QED
  BY <1>1, <1>2, PTL DEF CopySpec, CopyFits

-----------------------------------------------------------------------------

(* A press and what was heard of it. *)
Press == [control : Control, kind : {"mouse", "touch", "key"}, at : Nat, due : BOOLEAN, ticks : Nat]

(* Another control was pointed at after the n-th press. *)
PointedElsewhere(n, ps) ==
    \E m \in DOMAIN ps : m > n /\ ps[m].kind # "key" /\ ps[m].control # ps[n].control

(* A press still owed a click is a recent touch that ticked once at most, and the last *)
(* pointer is its own unless another control was pointed at.                           *)
PressFits(n, ps, at, pointer) ==
    /\ ps[n].due => ps[n].kind = "touch" /\ at <= ps[n].at + ClickGap /\ ps[n].ticks <= 1
    /\ ps[n].kind # "key" => /\ ps[n].at <= pointer.at
                             /\ ps[n].control = pointer.control \/ PointedElsewhere(n, ps)
    /\ ps[n].ticks <= 1 \/ PointedElsewhere(n, ps)

(* Sound is on only once it was asked for. *)
SoundFits == sound \in BOOLEAN /\ heard \in BOOLEAN /\ (sound => heard) /\ SilentUntilAsked

(* Each press was answered by as many ticks as it was counted. *)
PressesFit ==
    /\ presses \in Seq(Press) /\ now \in Nat /\ lastFired \in Nat /\ lastPointer.at \in Nat
    /\ lastPointer.at <= now
    /\ \A n \in 1..Len(presses) : PressFits(n, presses, now, lastPointer)

(* A tick changes nothing of a press but its ticks. *)
LEMMA TicksOnly ==
  ASSUME NEW ps \in Seq(Press), NEW n \in 1..Len(ps), Fires(ps, n), now \in Nat, lastFired \in Nat
  PROVE  /\ presses' \in Seq(Press) /\ Len(presses') = Len(ps) /\ lastFired' \in Nat
         /\ \A m \in 1..Len(ps) :
              /\ presses'[m].control = ps[m].control /\ presses'[m].kind = ps[m].kind
              /\ presses'[m].at = ps[m].at /\ presses'[m].due = ps[m].due
              /\ m # n => presses'[m].ticks = ps[m].ticks
              /\ presses'[m].ticks \in {ps[m].ticks, ps[m].ticks + 1}
<1>1. CASE Throttled
  BY <1>1 DEF Fires
<1>2. CASE ~Throttled
  <2>1. presses' = [ps EXCEPT ![n].ticks = @ + 1] /\ lastFired' = now
    BY <1>2 DEF Fires
  <2>2. \A m \in 1..Len(ps) : ps[m] \in Press
    OBVIOUS
  <2> DEFINE one == [ps[n] EXCEPT !.ticks = @ + 1]
  <2>a. ASSUME NEW p \in Press
        PROVE  LET q == [p EXCEPT !.ticks = @ + 1] IN
               /\ q \in Press /\ q.control = p.control /\ q.kind = p.kind
               /\ q.at = p.at /\ q.due = p.due /\ q.ticks = p.ticks + 1
    <3>1. p.ticks \in Nat
      BY DEF Press
    <3>2. ASSUME NEW t \in Nat
          PROVE  LET q == [p EXCEPT !.ticks = t] IN
                 /\ q \in Press /\ q.control = p.control /\ q.kind = p.kind
                 /\ q.at = p.at /\ q.due = p.due /\ q.ticks = t
      BY DEF Press
    <3>3. p.ticks + 1 \in Nat
      BY <3>1
    <3>. QED
      BY <3>2, <3>3
  <2>3. one \in Press /\ one.control = ps[n].control /\ one.kind = ps[n].kind
        /\ one.at = ps[n].at /\ one.due = ps[n].due /\ one.ticks = ps[n].ticks + 1
    BY <2>2, <2>a
  <2>4. presses' = [ps EXCEPT ![n] = one]
    BY <2>1
  <2> HIDE DEF one
  <2>5. presses' \in Seq(Press) /\ Len(presses') = Len(ps)
        /\ \A m \in 1..Len(ps) : presses'[m] = IF m = n THEN one ELSE ps[m]
    BY <2>3, <2>4, ExceptSeq
  <2>. QED
    BY <2>1, <2>3, <2>5
<1>. QED
  BY <1>1, <1>2

(* Of every set of controls and every sequence of pointer, mouse and click events: a *)
(* press ticks once at most, unless another control was pointed at before its click  *)
(* came (lib/feedback.ts).                                                           *)
THEOREM PressAnsweredOnce == FeedbackSpec => []PressesAnsweredOnce
<1>0. EchoAssumption
  BY EchoAssumption
<1>1. FeedbackInit => PressesFit
  BY <1>0 DEF FeedbackInit, PressesFit, NeverPointed, EchoAssumption
<1>2. ASSUME PressesFit, [FeedbackNext]_feedbackVars PROVE PressesFit'
  <2>0. \A n \in 1..Len(presses) : presses[n] \in Press
    BY <1>2 DEF PressesFit
  (* A press that is new, and one event of it. *)
  <2>1. ASSUME NEW c \in Control, NEW kind \in {"mouse", "touch", "key"},
               \/ Fires(Pressed(c, kind), Len(presses) + 1)
               \/ presses' = Pressed(c, kind) /\ UNCHANGED lastFired,
               UNCHANGED now,
               IF kind = "key" THEN UNCHANGED lastPointer ELSE lastPointer' = [control |-> c, at |-> now]
        PROVE  PressesFit'
    <3> DEFINE one == [control |-> c, kind |-> kind, at |-> now, due |-> kind = "touch", ticks |-> 0]
               ps == Append(presses, one)
    <3>1. one \in Press
      BY <1>2 DEF Press, PressesFit
    <3>2. ps = Pressed(c, kind)
      BY DEF Pressed
    <3>3. /\ one.control = c /\ one.kind = kind /\ one.at = now /\ one.ticks = 0
          /\ (one.due => kind = "touch")
      OBVIOUS
    <3> HIDE DEF one
    <3>4. ps \in Seq(Press) /\ Len(ps) = Len(presses) + 1 /\ ps[Len(presses) + 1] = one
          /\ \A m \in 1..Len(presses) : ps[m] = presses[m]
      BY <1>2, <3>1 DEF PressesFit
    <3> HIDE DEF ps
    <3>5. Len(presses) \in Nat /\ Len(presses) + 1 \in 1..Len(ps)
      BY <1>2, <3>4 DEF PressesFit
    <3>6. /\ presses' \in Seq(Press) /\ Len(presses') = Len(ps) /\ lastFired' \in Nat
          /\ \A m \in 1..Len(ps) :
               /\ presses'[m].control = ps[m].control /\ presses'[m].kind = ps[m].kind
               /\ presses'[m].at = ps[m].at /\ presses'[m].due = ps[m].due
               /\ m # Len(presses) + 1 => presses'[m].ticks = ps[m].ticks
               /\ presses'[m].ticks \in {ps[m].ticks, ps[m].ticks + 1}
      BY <1>2, <2>1, <3>2, <3>4, <3>5, TicksOnly DEF PressesFit
    <3>7. PressFits(Len(presses) + 1, presses', now', lastPointer')
      BY <1>0, <1>2, <2>1, <3>3, <3>4, <3>5, <3>6 DEF PressFits, PressesFit, EchoAssumption
    <3>8. ASSUME NEW n \in 1..Len(presses) PROVE PressFits(n, presses', now', lastPointer')
      <4>1. PressFits(n, presses, now, lastPointer) /\ presses[n].at \in Nat
        BY <1>2, <2>0 DEF PressesFit, Press
      <4>2. /\ presses'[n].control = presses[n].control /\ presses'[n].kind = presses[n].kind
            /\ presses'[n].at = presses[n].at /\ presses'[n].due = presses[n].due
            /\ presses'[n].ticks = presses[n].ticks
        BY <3>4, <3>5, <3>6
      <4>3. PointedElsewhere(n, presses) => PointedElsewhere(n, presses')
        BY <3>4, <3>5, <3>6, <4>2, <1>2 DEF PointedElsewhere, PressesFit
      <4>4. kind # "key" /\ c # presses[n].control => PointedElsewhere(n, presses')
        <5>1. Len(presses) + 1 \in DOMAIN presses' /\ Len(presses) + 1 > n
          BY <3>5, <3>6
        <5>2. presses'[Len(presses) + 1].kind = kind /\ presses'[Len(presses) + 1].control = c
          BY <3>3, <3>4, <3>5, <3>6
        <5>. QED
          BY <4>2, <5>1, <5>2 DEF PointedElsewhere
      <4>5. presses[n].kind # "key" => presses[n].at <= now
        BY <1>2, <4>1 DEF PressFits, PressesFit
      <4>. QED
        BY <1>2, <2>1, <4>1, <4>2, <4>3, <4>4, <4>5 DEF PressFits, PressesFit
    <3>9. lastPointer'.at \in Nat /\ lastPointer'.at <= now /\ now \in Nat
      BY <1>2, <2>1 DEF PressesFit
    <3>. QED
      BY <2>1, <3>4, <3>5, <3>6, <3>7, <3>8, <3>9 DEF PressesFit
  <2>2. ASSUME NEW c \in Control, NEW kind \in {"mouse", "touch"}, PointerDown(c, kind) PROVE PressesFit'
    BY <2>1, <2>2 DEF PointerDown
  <2>3. ASSUME NEW c \in Control, KeyOnButton(c) \/ KeyOnDrawn(c) PROVE PressesFit'
    BY <2>1, <2>3 DEF KeyOnButton, KeyOnDrawn, Clicked
  (* The click of a touch. *)
  <2>4. ASSUME NEW n \in 1..Len(presses), TouchClicks(n) \/ TouchClickPasses(n) PROVE PressesFit'
    <3> DEFINE one == [presses[n] EXCEPT !.due = FALSE]
               ps == [presses EXCEPT ![n] = one]
    <3>1. one \in Press /\ one.control = presses[n].control /\ one.kind = presses[n].kind
          /\ one.at = presses[n].at /\ ~one.due /\ one.ticks = presses[n].ticks
      BY <2>0 DEF Press
    <3>2. ps = [presses EXCEPT ![n].due = FALSE] /\ presses[n].due
      BY <2>4 DEF TouchClicks, TouchClickPasses
    <3> HIDE DEF one
    <3>3. ps \in Seq(Press) /\ Len(ps) = Len(presses)
          /\ \A m \in 1..Len(presses) : ps[m] = IF m = n THEN one ELSE presses[m]
      BY <1>2, <3>1, ExceptSeq DEF PressesFit
    <3> HIDE DEF ps
    <3>4. PressFits(n, presses, now, lastPointer) /\ presses[n].at \in Nat
      BY <1>2, <2>0 DEF PressesFit, Press
    <3>5. /\ UNCHANGED <<now, lastPointer>>
          /\ \/ presses' = ps /\ UNCHANGED lastFired
             \/ ~IsEcho(presses[n].control) /\ Fires(ps, n)
      BY <2>4, <3>2 DEF TouchClicks, TouchClickPasses, Clicked
    <3>6. ~IsEcho(presses[n].control) => PointedElsewhere(n, presses)
      BY <1>0, <1>2, <3>2, <3>4 DEF PressFits, PressesFit, IsEcho, EchoAssumption
    <3>7. /\ presses' \in Seq(Press) /\ Len(presses') = Len(presses) /\ lastFired' \in Nat
          /\ \A m \in 1..Len(presses) :
               /\ presses'[m].control = ps[m].control /\ presses'[m].kind = ps[m].kind
               /\ presses'[m].at = ps[m].at /\ presses'[m].due = ps[m].due
               /\ m # n => presses'[m].ticks = ps[m].ticks
               /\ ~PointedElsewhere(n, presses) => presses'[m].ticks = ps[m].ticks
      BY <1>2, <3>3, <3>5, <3>6, TicksOnly DEF PressesFit
    <3>8. ASSUME NEW m \in 1..Len(presses) PROVE PressFits(m, presses', now', lastPointer')
      <4>1. PressFits(m, presses, now, lastPointer)
        BY <1>2 DEF PressesFit
      <4>2. /\ presses'[m].control = presses[m].control /\ presses'[m].kind = presses[m].kind
            /\ presses'[m].at = presses[m].at /\ (presses'[m].due => presses[m].due /\ m # n)
            /\ m # n => presses'[m].ticks = presses[m].ticks
            /\ ~PointedElsewhere(n, presses) => presses'[m].ticks = presses[m].ticks
        BY <3>1, <3>3, <3>7
      <4>3. PointedElsewhere(m, presses) => PointedElsewhere(m, presses')
        BY <1>2, <3>1, <3>3, <3>7, <4>2 DEF PointedElsewhere, PressesFit
      <4>. QED
        BY <3>5, <4>1, <4>2, <4>3 DEF PressFits
    <3>. QED
      BY <1>2, <3>5, <3>7, <3>8 DEF PressesFit
  <2>5. CASE ClockMoves
    <3>1. now' = now + 1 /\ UNCHANGED <<presses, lastFired, lastPointer>>
          /\ \A n \in DOMAIN presses : presses[n].due => now < presses[n].at + ClickGap
      BY <2>5 DEF ClockMoves
    <3>2. ASSUME NEW n \in 1..Len(presses) PROVE PressFits(n, presses, now', lastPointer)
      <4>1. PressFits(n, presses, now, lastPointer) /\ presses[n].at \in Nat /\ n \in DOMAIN presses
        BY <1>2, <2>0 DEF PressesFit, Press
      <4>. QED
        BY <1>0, <1>2, <3>1, <4>1 DEF PressFits, PressesFit, EchoAssumption
    <3>. QED
      BY <1>2, <3>1, <3>2 DEF PressesFit
  <2>6. CASE FeedbackRestarted \/ SoundToggled \/ SoundSetElsewhere \/ UNCHANGED feedbackVars
    BY <1>2, <2>6 DEF FeedbackRestarted, SoundToggled, SoundSetElsewhere, feedbackVars, PressesFit
  <2>7. DOMAIN presses = 1..Len(presses)
    BY <1>2 DEF PressesFit
  <2>. QED
    BY <1>2, <2>2, <2>3, <2>4, <2>5, <2>6, <2>7 DEF FeedbackNext
<1>3. PressesFit => PressesAnsweredOnce
  BY DEF PressesFit, PressFits, PointedElsewhere, PressesAnsweredOnce
<1>. QED
  BY <1>1, <1>2, <1>3, PTL DEF FeedbackSpec

(* The tab opens no audio before a reader asked for sound (lib/feedback.ts). *)
THEOREM SilenceUntilAsked == FeedbackSpec => []SilentUntilAsked
<1>1. FeedbackInit => SoundFits
  BY DEF FeedbackInit, SoundFits, SilentUntilAsked
<1>2. ASSUME SoundFits, [FeedbackNext]_feedbackVars PROVE SoundFits'
  <2>1. CASE SoundToggled \/ SoundSetElsewhere
    <3>1. sound' = ~sound /\ heard' = (heard \/ sound')
      BY <2>1 DEF SoundToggled, SoundSetElsewhere, StoredAs
    <3>2. sound' \in BOOLEAN /\ heard' \in BOOLEAN /\ (sound' => heard') /\ (heard => heard')
      BY <1>2, <3>1 DEF SoundFits
    <3>. QED
      BY <1>2, <2>1, <3>2 DEF SoundFits, SilentUntilAsked, SoundToggled, SoundSetElsewhere, Previewed
  <2>2. CASE FeedbackRestarted
    BY <1>2, <2>2 DEF FeedbackRestarted, SoundFits, SilentUntilAsked
  <2>3. ASSUME UNCHANGED <<sound, heard>>, audio' \in {audio, IF sound THEN "open" ELSE audio}
        PROVE  SoundFits'
    BY <1>2, <2>3 DEF SoundFits, SilentUntilAsked
  <2>4. ASSUME NEW c \in Control, NEW kind \in {"mouse", "touch"},
               PointerDown(c, kind) \/ KeyOnButton(c) \/ KeyOnDrawn(c)
        PROVE  SoundFits'
    BY <2>3, <2>4 DEF PointerDown, KeyOnButton, KeyOnDrawn, Clicked, Fires, Tone
  <2>5. ASSUME NEW n \in DOMAIN presses, TouchClicks(n) \/ TouchClickPasses(n) PROVE SoundFits'
    BY <2>3, <2>5 DEF TouchClicks, TouchClickPasses, Clicked, Fires, Tone
  <2>6. CASE ClockMoves \/ UNCHANGED feedbackVars
    BY <2>3, <2>6 DEF ClockMoves, feedbackVars
  <2>. QED
    BY <1>2, <2>1, <2>2, <2>4, <2>5, <2>6 DEF FeedbackNext
<1>. QED
  BY <1>1, <1>2, PTL DEF FeedbackSpec, SoundFits

-----------------------------------------------------------------------------
(* The navigation and the header. *)

(* Whatever the list was scrolled to, the section revealed is wholly in sight. *)
LEMMA RevealedIsSeen ==
  ASSUME NEW n \in Nat, NEW k \in 1..n, NEW y \in Nat, NEW h \in Heights
  PROVE  LET t == Clamped(Revealed(k, y, h), n, h) IN
         t \in Nat /\ t <= Start(k) /\ Bottom(k) <= t + h
<1> DEFINE I == ItemHeight
           M == RevealMargin
           B == k * ItemHeight
           N == n * ItemHeight
<1>1. I \in Nat /\ M \in Nat /\ h \in Nat /\ h >= I + M
  BY NavAssumption
<1>2. I * k <= I * n
  BY <1>1
<1>3. B \in Nat /\ N \in Nat /\ B <= N /\ I <= B
  BY <1>1, <1>2
<1>4. Bottom(k) = B /\ Start(k) = B - I
  BY DEF Bottom, Start
<1>5. MaxTop(n, h) = IF N > h THEN N - h ELSE 0
  BY <1>1, <1>3 DEF MaxTop, Larger
<1> HIDE DEF B, N, I, M
<1>6. Revealed(k, y, h) = IF B > y + h THEN B - h + M
                          ELSE IF B - I < y THEN (IF B - I > M THEN B - I - M ELSE 0)
                          ELSE y
  <2>1. Revealed(k, y, h) = IF B > y + h THEN B - h + M
                            ELSE IF B - I < y THEN (IF B - I > M THEN B - I ELSE M) - M
                            ELSE y
    BY <1>4 DEF Revealed, Larger, M
  <2>. QED
    BY <1>1, <1>3, <2>1
<1>7. Clamped(Revealed(k, y, h), n, h) =
        IF Revealed(k, y, h) < MaxTop(n, h) THEN Revealed(k, y, h) ELSE MaxTop(n, h)
  BY DEF Clamped, Lesser
<1>. QED
  BY <1>1, <1>3, <1>4, <1>5, <1>6, <1>7

(* The list's place is one it can have, and the fades are measured or about to be. *)
NavFits ==
    /\ itemsListed \in 1..Items /\ path \in 0..itemsListed /\ height \in Heights
    /\ top \in Nat /\ toMeasure \in BOOLEAN
    /\ CurrentIsInView

(* A scroll held within the list is one of its offsets. *)
LEMMA ClampedStays ==
  ASSUME NEW y \in Nat, NEW n \in Nat, NEW h \in Heights
  PROVE  Clamped(y, n, h) \in Nat
<1>1. n * ItemHeight \in Nat /\ h \in Nat
  BY NavAssumption
<1>. QED
  BY <1>1 DEF Clamped, Lesser, MaxTop, Larger

(* Of every number of items and every height: the section whose page is open is wholly *)
(* in sight after a navigation, from wherever the list was scrolled to (console-       *)
(* nav.tsx).                                                                           *)
THEOREM CurrentStaysInView == NavSpec => []CurrentIsInView
<1>0. Items \in Nat /\ ItemHeight \in Nat /\ Heights \subseteq Nat
  BY NavAssumption
<1>1. ASSUME NavInit PROVE NavFits
  <2>1. itemsListed \in 1..Items /\ path \in 0..itemsListed /\ height \in Heights /\ itemsListed \in Nat
    BY <1>0, <1>1 DEF NavInit
  <2>2. path # 0 => path \in 1..itemsListed
    BY <2>1
  <2>3. top \in Nat /\ (path # 0 => top <= Start(path) /\ Bottom(path) <= top + height)
    BY <1>1, <2>1, <2>2, RevealedIsSeen, 0 \in Nat DEF NavInit
  <2>4. toMeasure \in BOOLEAN /\ (~toMeasure => ends = Ends(itemsListed, top, height))
    BY <1>1 DEF NavInit
  <2>. QED
    BY <2>1, <2>3, <2>4 DEF NavFits, CurrentIsInView
<1>2. ASSUME NavFits, [NavNext]_navVars PROVE NavFits'
  <2>0. itemsListed \in Nat /\ top \in Nat /\ height \in Heights /\ height \in Nat
    BY <1>0, <1>2 DEF NavFits
  <2>1. ASSUME NEW k \in 0..Items, Navigates(k) PROVE NavFits'
    <3>1. path' = k /\ k \in 0..itemsListed /\ UNCHANGED <<itemsListed, height, ends>>
      BY <2>0, <2>1 DEF Navigates
    <3>2. CASE k = 0
      BY <1>2, <2>1, <3>1, <3>2 DEF Navigates, NavFits, CurrentIsInView
    <3>3. CASE k # 0
      <4>1. top' = Clamped(Revealed(k, top, height), itemsListed, height) /\ k \in 1..itemsListed
        BY <2>1, <3>1, <3>3 DEF Navigates
      <4>2. top' \in Nat /\ top' <= Start(k) /\ Bottom(k) <= top' + height
        BY <2>0, <4>1, RevealedIsSeen
      <4>3. toMeasure' \in BOOLEAN /\ (~toMeasure' => ~toMeasure /\ top' = top)
        BY <2>1, <1>2 DEF Navigates, NavFits
      <4>. QED
        BY <1>2, <3>1, <4>2, <4>3 DEF NavFits, CurrentIsInView
    <3>. QED
      BY <3>2, <3>3
  <2>2. ASSUME NEW y \in 0..(Items * ItemHeight), ListScrolled(y) PROVE NavFits'
    BY <1>0, <1>2, <2>2 DEF ListScrolled, NavFits, CurrentIsInView
  <2>3. ASSUME NEW h \in Heights, ListResized(h) PROVE NavFits'
    BY <1>2, <2>0, <2>3, ClampedStays DEF ListResized, NavFits, CurrentIsInView
  <2>4. ASSUME NEW n \in 1..Items, ListChanges(n) PROVE NavFits'
    <3>1. n \in Nat
      BY <1>0
    <3>2. top' \in Nat
      BY <2>0, <2>4, <3>1, ClampedStays DEF ListChanges
    <3>3. path' \in 0..n
      BY <1>2, <2>0, <2>4, <3>1 DEF ListChanges, NavFits
    <3>. QED
      BY <1>2, <2>4, <3>2, <3>3 DEF ListChanges, NavFits, CurrentIsInView
  <2>5. CASE Measures
    BY <1>2, <2>5 DEF Measures, NavFits, CurrentIsInView
  <2>6. CASE UNCHANGED navVars
    BY <1>2, <2>6 DEF navVars, NavFits, CurrentIsInView
  <2>. QED
    BY <1>2, <2>1, <2>2, <2>3, <2>4, <2>5, <2>6 DEF NavNext
<1>. QED
  BY <1>1, <1>2, PTL DEF NavSpec, NavFits

-----------------------------------------------------------------------------

(* Every set of naturals that has a member has a least one. *)
LEMMA LeastNatural ==
  ASSUME NEW T, T \subseteq Nat, T # {}
  PROVE  \E x \in T : \A y \in T : x <= y
<1>1. PICK x \in T : \A y \in T : ~(<<y, x>> \in OpToRel(<, Nat))
  BY WFMin, NatLessThanWellFounded
<1>2. \A y \in T : <<y, x>> \in OpToRel(<, Nat) <=> y < x
  BY DEF OpToRel
<1>3. \A y \in T : ~(y < x)
  BY <1>1, <1>2
<1>4. \A y \in T : x \in Nat /\ y \in Nat
  OBVIOUS
<1>. QED
  BY <1>3, <1>4

(* A section that has entered the band has a place above nothing that left it. *)
UnderlineFits ==
    /\ scrolledTo \in Nat /\ crossedTops \in [Section -> Int]
    /\ \A k \in Entered(crossedTops) : crossedTops[k] + SectionHeight > 0
    /\ underlined = 0 => Entered(crossedTops) = {}
    /\ underlined # 0 => underlined \in Entered(crossedTops)
    /\ menuOpen \in BOOLEAN
    /\ ~menuOpen => overflow = "auto"

(* The section found by the observer has entered the band. *)
LEMMA TopmostHasEntered ==
  ASSUME NEW m \in [Section -> Int], Entered(m) # {}, \A k \in Entered(m) : m[k] + SectionHeight > 0
  PROVE  Topmost(m) \in Entered(m)
<1>0. SectionHeight \in Nat /\ Sections \in Nat
  BY HeaderAssumption
<1>1. Entered(m) \subseteq Section /\ Section \subseteq Nat /\ \A k \in Entered(m) : m[k] \in Int
  BY <1>0 DEF Entered, Section
<1> DEFINE Places == {m[k] + SectionHeight : k \in Entered(m)}
<1>2. Places \subseteq Nat /\ Places # {}
  BY <1>0, <1>1
<1>3. PICK p \in Places : \A q \in Places : p <= q
  BY <1>2, LeastNatural
<1> DEFINE First == {k \in Entered(m) : m[k] + SectionHeight = p}
<1>4. First \subseteq Nat /\ First # {}
  BY <1>1, <1>3
<1>5. PICK k \in First : \A j \in First : k <= j
  BY <1>4, LeastNatural
<1>6. ASSUME NEW j \in Entered(m) PROVE m[k] < m[j] \/ (m[k] = m[j] /\ k <= j)
  <2>1. m[k] + SectionHeight <= m[j] + SectionHeight /\ m[k] \in Int /\ m[j] \in Int
    BY <1>1, <1>3, <1>5, <1>6
  <2>2. m[k] = m[j] => j \in First
    BY <1>5
  <2>. QED
    BY <1>0, <1>5, <2>1, <2>2
<1>7. k \in Entered(m)
  BY <1>5
<1>. QED
  BY <1>6, <1>7 DEF Topmost

(* Of every number of sections: once the observer has reported, the section underlined *)
(* stands in the band, however far the page jumped (site-header.tsx).                  *)
THEOREM UnderlineStaysInBand == HeaderSpec => []UnderlineIsInBand
<1>0. SectionHeight \in Nat /\ Sections \in Nat /\ SectionHeight > 0
  BY HeaderAssumption
<1>1. ASSUME HeaderInit PROVE UnderlineFits
  <2>1. Left \in Int
    BY <1>0 DEF Left
  <2>2. crossedTops \in [Section -> Int] /\ Entered(crossedTops) = {}
    BY <1>1, <2>1 DEF HeaderInit, Entered
  <2>. QED
    BY <1>1, <2>2 DEF HeaderInit, UnderlineFits
<1>2. ASSUME UnderlineFits, [HeaderNext]_headerVars PROVE UnderlineFits'
  <2>1. CASE CrossingsReported
    <3>1. \A k \in Section : TopOf(k, scrolledTo) \in Int /\ Left \in Int
      BY <1>0, <1>2 DEF TopOf, Left, Section, UnderlineFits
    <3>2. crossedTops' \in [Section -> Int]
      BY <1>2, <2>1, <3>1 DEF CrossingsReported, UnderlineFits
    <3>3. ASSUME NEW k \in Entered(crossedTops') PROVE crossedTops'[k] + SectionHeight > 0
      <4>1. k \in Section /\ crossedTops'[k] # Left
        BY <3>3 DEF Entered
      <4>2. CASE ~Crossing(k)
        BY <1>2, <2>1, <4>1, <4>2 DEF CrossingsReported, UnderlineFits, Entered
      <4>3. CASE Crossing(k)
        <5>1. InBand(k, scrolledTo) /\ crossedTops'[k] = TopOf(k, scrolledTo)
          BY <2>1, <4>1, <4>3 DEF CrossingsReported
        <5>. QED
          BY <5>1 DEF InBand
      <4>. QED
        BY <4>2, <4>3
    <3>4. Entered(crossedTops') # {} => Topmost(crossedTops') \in Entered(crossedTops')
      BY <3>2, <3>3, TopmostHasEntered
    <3>5. ASSUME NEW k \in Section PROVE k # 0
      BY <1>0 DEF Section
    <3>6. Entered(crossedTops') \subseteq Section
      BY DEF Entered
    <3>7. IF Entered(crossedTops') = {} THEN underlined' = 0 ELSE underlined' = Topmost(crossedTops')
      BY <2>1 DEF CrossingsReported
    <3>8. /\ underlined' = 0 => Entered(crossedTops') = {}
          /\ underlined' # 0 => underlined' \in Entered(crossedTops')
      BY <3>4, <3>5, <3>6, <3>7
    <3>9. Entered(crossedTops)' = Entered(crossedTops')
      BY DEF Entered
    <3>10. UNCHANGED <<scrolledTo, menuOpen, overflow>>
      BY <2>1 DEF CrossingsReported
    <3>. QED
      BY <1>2, <3>2, <3>3, <3>8, <3>9, <3>10 DEF UnderlineFits
  <2>2. CASE MenuToggled \/ MenuClosed \/ WindowResized \/ UNCHANGED headerVars
    <3>1. UNCHANGED <<scrolledTo, crossedTops, underlined>>
      BY <2>2 DEF MenuToggled, MenuClosed, WindowResized, headerVars
    <3>2. menuOpen' \in BOOLEAN /\ (~menuOpen' => overflow' = "auto")
      BY <1>2, <2>2 DEF MenuToggled, MenuClosed, WindowResized, headerVars, UnderlineFits
    <3>. QED
      BY <1>2, <3>1, <3>2 DEF UnderlineFits, Entered
  <2>3. ASSUME NEW y \in Screen, PageScrolled(y) PROVE UnderlineFits'
    <3>1. y \in Nat
      BY <1>0 DEF Screen
    <3>. QED
      BY <1>2, <2>3, <3>1 DEF PageScrolled, UnderlineFits, Entered
  <2>. QED
    BY <1>2, <2>1, <2>2, <2>3 DEF HeaderNext
<1>3. ASSUME UnderlineFits PROVE UnderlineIsInBand
  <2>1. ASSUME \A k \in Section : ~Crossing(k), NEW k \in Section
        PROVE  InBand(k, scrolledTo) <=> k \in Entered(crossedTops)
    <3>1. InBand(k, scrolledTo) \in BOOLEAN
      BY DEF InBand
    <3>. QED
      BY <2>1, <3>1 DEF Crossing, Entered
  <2>2. Entered(crossedTops) \subseteq Section
    BY DEF Entered
  <2>. QED
    BY <1>3, <2>1, <2>2 DEF UnderlineFits, UnderlineIsInBand
<1>. QED
  BY <1>1, <1>2, <1>3, PTL DEF HeaderSpec

-----------------------------------------------------------------------------
(* The bulk invitation. *)

(* A mail is sent once, and only to the invited. *)
MailsFit ==
    /\ mails \in [Address -> Nat]
    /\ \A a \in Address : mails[a] <= 1 /\ (a \notin invited => mails[a] = 0)

(* Of every set of addresses: nobody receives two invitations that stand, by retries, *)
(* lost answers or another administrator (bulk-onboarding.tsx).                       *)
THEOREM NobodyIsMailedTwice == RosterSpec => []OneInvitationEach
<1>1. RosterInit => MailsFit
  BY DEF RosterInit, MailsFit
<1>2. ASSUME MailsFit, [RosterNext]_rosterVars PROVE MailsFit'
  <2>1. CASE Delivers
    <3> DEFINE inserted == {i \in sendOut.passed : Insertable(i)}
    <3>1. PICK failed \in SUBSET inserted :
            LET mailed == {sendOut.rows[i].address : i \in inserted \ failed}
            IN /\ invited' = invited \cup mailed
               /\ mails' = [a \in Address |-> mails[a] + IF a \in mailed THEN 1 ELSE 0]
      BY <2>1 DEF Delivers
    <3> DEFINE mailed == {sendOut.rows[i].address : i \in inserted \ failed}
    <3>2. \A a \in mailed : a \notin invited
      BY DEF Insertable
    <3> HIDE DEF mailed
    <3>3. invited' = invited \cup mailed /\ mails' = [a \in Address |-> mails[a] + IF a \in mailed THEN 1 ELSE 0]
      BY <3>1 DEF mailed
    <3>. QED
      BY <1>2, <3>2, <3>3 DEF MailsFit
  <2>2. ASSUME NEW a \in Address, InvitedElsewhere(a) PROVE MailsFit'
    BY <1>2, <2>2 DEF InvitedElsewhere, MailsFit
  <2>3. ASSUME UNCHANGED <<mails, invited>> PROVE MailsFit'
    BY <1>2, <2>3 DEF MailsFit
  <2>. QED
    BY <1>2, <2>1, <2>2, <2>3
    DEF RosterNext, rosterVars, Edited, CheckPressed, CheckAnswered, SendPressed, Classifies,
        SendAnswered, SendFails, Unticked, Ticked
<1>3. MailsFit => OneInvitationEach
  BY DEF MailsFit, OneInvitationEach
<1>. QED
  BY <1>1, <1>2, <1>3, PTL DEF RosterSpec

-----------------------------------------------------------------------------

(* A row of the preview. *)
RosterRow == [address : Address, outcome : RowOutcome]

(* An import on its way: the rows it sends. *)
Sending == [stage : {"none", "out", "classified", "done"}, rows : Seq(RosterRow),
            on : SUBSET Nat, passed : SUBSET Nat]

(* Two lists of rows name the same addresses, place by place. *)
SameAddresses(rows1, rows2) ==
    Len(rows1) = Len(rows2) /\ \A i \in 1..Len(rows1) : rows1[i].address = rows2[i].address

(* As long as no preview was dropped under a send: each address has one row, the    *)
(* rows a send is about are the preview's, a list being checked has no preview yet, *)
(* and the rows of whom the reader has unticked are unticked.                       *)
RosterFits ==
    /\ box \in Lists \cup {<<>>} /\ checkOut \in Lists \cup {<<>>}
    /\ preview \in Seq(RosterRow) /\ sendOut \in Sending /\ dropped \in BOOLEAN
    /\ sendOut.stage = "none" => sendOut = NoSend
    /\ ~dropped =>
         /\ \A i, j \in 1..Len(preview) : preview[i].address = preview[j].address => i = j
         /\ sendOut # NoSend => SameAddresses(preview, sendOut.rows)
         /\ checkOut # <<>> => preview = <<>> /\ declined = {} /\ sendOut = NoSend
         /\ \A i \in 1..Len(preview) : preview[i].address \in declined => i \in excluded

(* Of every set of addresses: one that was unticked is left out of a retry, as long as *)
(* the preview is not dropped under a send (bulk-onboarding.tsx).                      *)
THEOREM UntickedIsLeftOut == RosterSpec => []UntickedStaysOutOfARetry
<1>0. <<>> \in Seq(RosterRow) /\ Len(<<>>) = 0
  OBVIOUS
<1>00. NoSend \in Sending /\ NoSend.stage = "none"
  BY <1>0 DEF NoSend, Sending
<1>1. ASSUME RosterInit PROVE RosterFits
  <2>1. preview = <<>> /\ Len(preview) = 0 /\ preview \in Seq(RosterRow) /\ sendOut \in Sending
    BY <1>0, <1>00, <1>1 DEF RosterInit
  <2>2. box = <<>> /\ checkOut = <<>> /\ sendOut = NoSend /\ dropped = FALSE
    BY <1>1 DEF RosterInit
  <2>3. \A i \in 1..Len(preview) : FALSE
    BY <2>1
  <2>4. <<>> \in Lists \cup {<<>>}
    OBVIOUS
  <2>. QED
    BY <2>1, <2>2, <2>3, <2>4 DEF RosterFits
<1>2. ASSUME RosterFits, [RosterNext]_rosterVars PROVE RosterFits'
  <2>0. Len(preview) \in Nat /\ DOMAIN preview = 1..Len(preview)
        /\ \A i \in 1..Len(preview) : preview[i] \in RosterRow
    BY <1>2 DEF RosterFits
  <2>00. sendOut.rows \in Seq(RosterRow) /\ sendOut.on \in SUBSET Nat /\ sendOut.passed \in SUBSET Nat
         /\ Len(sendOut.rows) \in Nat
    BY <1>2 DEF RosterFits, Sending
  <2>1. ASSUME NEW list \in Lists \cup {<<>>}, Edited(list) PROVE RosterFits'
    <3>1. preview' = <<>> /\ box' = list /\ UNCHANGED <<checkOut, sendOut, declined>>
      BY <2>1 DEF Edited, PreviewDropped
    <3>2. dropped' \in BOOLEAN /\ (~dropped' => ~dropped /\ sendOut = NoSend)
      BY <1>2, <2>1 DEF Edited, RosterFits
    <3>. QED
      BY <1>0, <1>2, <3>1, <3>2 DEF RosterFits
  <2>2. CASE CheckPressed
    <3>1. preview' = <<>> /\ checkOut' = box /\ declined' = {} /\ UNCHANGED <<box, sendOut>>
      BY <2>2 DEF CheckPressed, PreviewDropped
    <3>2. dropped' \in BOOLEAN /\ (~dropped' => sendOut = NoSend)
      BY <2>2 DEF CheckPressed
    <3>. QED
      BY <1>0, <1>2, <3>1, <3>2 DEF RosterFits
  <2>3. CASE CheckAnswered
    <3> DEFINE read == [i \in DOMAIN checkOut |->
                           [address |-> checkOut[i],
                            outcome |-> IF checkOut[i] \in invited THEN "already" ELSE "ready"]]
    <3>1. checkOut \in Seq(Address) /\ IsInjective(checkOut)
      BY <1>2, <2>3, RosterAssumption DEF RosterFits, CheckAnswered
    <3>2. /\ read \in Seq(RosterRow) /\ Len(read) = Len(checkOut) /\ Len(checkOut) \in Nat
          /\ \A i \in 1..Len(read) : read[i].address = checkOut[i]
      <4>1. DOMAIN checkOut = 1..Len(checkOut) /\ Len(checkOut) \in Nat
            /\ \A i \in 1..Len(checkOut) : checkOut[i] \in Address
        BY <3>1
      <4>2. \A i \in 1..Len(checkOut) : read[i] \in RosterRow /\ read[i].address = checkOut[i]
        BY <4>1 DEF RosterRow, RowOutcome
      <4>3. read \in [1..Len(checkOut) -> RosterRow]
        BY <4>1, <4>2
      <4>. QED
        BY <4>1, <4>2, <4>3
    <3>3. checkOut' = <<>> /\ preview' \in {preview, read}
          /\ UNCHANGED <<box, excluded, sendOut, declined, dropped>>
      BY <2>3 DEF CheckAnswered
    <3>4. checkOut # <<>>
      BY <2>3 DEF CheckAnswered
    <3>5. \A i, j \in 1..Len(read) : read[i].address = read[j].address => i = j
      BY <3>1, <3>2 DEF IsInjective
    <3> HIDE DEF read
    <3>6. CASE preview' = preview
      BY <1>2, <3>3, <3>6 DEF RosterFits
    <3>7. CASE preview' = read
      BY <1>2, <3>2, <3>3, <3>4, <3>5, <3>7 DEF RosterFits
    <3>. QED
      BY <3>3, <3>6, <3>7
  <2>4. ASSUME NEW i \in DOMAIN preview, Unticked(i) PROVE RosterFits'
    <3>1. excluded' = excluded \cup {i} /\ declined' = declined \cup {preview[i].address}
          /\ UNCHANGED <<box, checkOut, preview, sendOut, dropped>> /\ i \in 1..Len(preview)
      BY <2>0, <2>4 DEF Unticked
    <3>2. checkOut # <<>> /\ ~dropped => FALSE
      BY <1>0, <1>2, <3>1 DEF RosterFits
    <3>. QED
      BY <1>2, <3>1, <3>2 DEF RosterFits
  <2>5. ASSUME NEW i \in DOMAIN preview, Ticked(i) PROVE RosterFits'
    <3>1. excluded' = excluded \ {i} /\ declined' = declined \ {preview[i].address}
          /\ UNCHANGED <<box, checkOut, preview, sendOut, dropped>> /\ i \in 1..Len(preview)
      BY <2>0, <2>5 DEF Ticked
    <3>. QED
      BY <1>2, <3>1 DEF RosterFits
  <2>6. CASE SendPressed
    <3> DEFINE one == [stage |-> "out", rows |-> preview, on |-> SelectedRows, passed |-> {}]
    <3>1. SelectedRows \in SUBSET Nat /\ one.rows = preview /\ one.stage = "out"
      BY <2>0 DEF SelectedRows
    <3>2. one \in Sending
      BY <1>2, <3>1 DEF RosterFits, Sending
    <3>3. sendOut' = one /\ UNCHANGED <<box, checkOut, preview, excluded, declined, dropped>>
      BY <2>6 DEF SendPressed
    <3>4. SameAddresses(preview, one.rows)
      BY <3>1 DEF SameAddresses
    <3>5. preview # <<>>
      BY <1>0, <2>0, <2>6 DEF SendPressed, SelectedRows
    <3> HIDE DEF one
    <3>. QED
      BY <1>2, <3>1, <3>2, <3>3, <3>4, <3>5 DEF RosterFits
  <2>7. ASSUME NEW lines \in Seq(RosterRow), NEW stage \in {"classified", "done"}, NEW passed \in SUBSET Nat,
               SameAddresses(sendOut.rows, lines), sendOut.stage # "none",
               sendOut' = [sendOut EXCEPT !.stage = stage, !.rows = lines, !.passed = passed],
               UNCHANGED <<box, checkOut, preview, excluded, declined, dropped>>
        PROVE  RosterFits'
    <3>1. sendOut' \in Sending /\ sendOut'.rows = lines /\ sendOut'.stage # "none"
      BY <1>2, <2>7 DEF RosterFits, Sending
    <3>2. SameAddresses(preview, sendOut.rows) => SameAddresses(preview, lines)
      BY <2>7 DEF SameAddresses
    <3>3. sendOut # NoSend
      BY <1>00, <2>7
    <3>. QED
      BY <1>2, <2>7, <3>1, <3>2, <3>3 DEF RosterFits
  <2>8. CASE Classifies
    <3> DEFINE passed == {i \in sendOut.on : sendOut.rows[i].address \notin invited}
    <3>1. passed \in SUBSET Nat
      BY <2>00
    <3>2. sendOut' = [sendOut EXCEPT !.stage = "classified", !.passed = passed] /\ sendOut.stage # "none"
      BY <2>8 DEF Classifies
    <3>3. UNCHANGED <<box, checkOut, preview, excluded, declined, dropped>>
      BY <2>8 DEF Classifies
    <3> HIDE DEF passed
    <3>4. sendOut' = [sendOut EXCEPT !.stage = "classified", !.rows = sendOut.rows, !.passed = passed]
      BY <1>2, <3>2 DEF RosterFits, Sending
    <3>5. SameAddresses(sendOut.rows, sendOut.rows)
      BY DEF SameAddresses
    <3>. QED
      BY <2>00, <2>7, <3>1, <3>2, <3>3, <3>4, <3>5
  <2>9. CASE Delivers
    <3> DEFINE inserted == {i \in sendOut.passed : Insertable(i)}
               lines(failed) == [i \in DOMAIN sendOut.rows |->
                    IF i \notin sendOut.on THEN sendOut.rows[i]
                    ELSE [sendOut.rows[i] EXCEPT !.outcome =
                             IF i \in failed THEN "failed"
                             ELSE IF i \in inserted THEN "sent" ELSE "already"]]
    <3>1. PICK failed \in SUBSET inserted :
            sendOut' = [sendOut EXCEPT !.stage = "done", !.rows = lines(failed)]
      BY <2>9 DEF Delivers
    <3>2. UNCHANGED <<box, checkOut, preview, excluded, declined, dropped>> /\ sendOut.stage # "none"
      BY <2>9 DEF Delivers
    <3>3. DOMAIN sendOut.rows = 1..Len(sendOut.rows)
          /\ \A i \in 1..Len(sendOut.rows) : sendOut.rows[i] \in RosterRow
      BY <2>00
    <3>4. ASSUME NEW r \in RosterRow, NEW outcome \in RowOutcome
          PROVE  [r EXCEPT !.outcome = outcome] \in RosterRow
                 /\ [r EXCEPT !.outcome = outcome].address = r.address
      BY DEF RosterRow
    <3>5. {"failed", "sent", "already"} \subseteq RowOutcome
      BY DEF RowOutcome
    <3> HIDE DEF inserted
    <3>6. \A i \in 1..Len(sendOut.rows) :
            lines(failed)[i] \in RosterRow /\ lines(failed)[i].address = sendOut.rows[i].address
      BY <3>3, <3>4, <3>5
    <3> DEFINE after == lines(failed)
    <3>7. after \in [1..Len(sendOut.rows) -> RosterRow]
      BY <3>3, <3>6
    <3>8. \A i \in 1..Len(sendOut.rows) : after[i].address = sendOut.rows[i].address
      BY <3>6
    <3>9. sendOut' = [sendOut EXCEPT !.stage = "done", !.rows = after]
      BY <3>1
    <3> HIDE DEF after, lines
    <3>10. after \in Seq(RosterRow) /\ Len(after) = Len(sendOut.rows)
      BY <2>00, <3>7
    <3>11. SameAddresses(sendOut.rows, after)
      BY <3>8, <3>10 DEF SameAddresses
    <3>12. sendOut' = [sendOut EXCEPT !.stage = "done", !.rows = after, !.passed = sendOut.passed]
      BY <1>2, <3>9 DEF RosterFits, Sending
    <3>. QED
      BY <2>00, <2>7, <3>2, <3>10, <3>11, <3>12
  <2>10. CASE SendAnswered
    <3>1. preview' = sendOut.rows /\ sendOut' = NoSend /\ sendOut # NoSend
          /\ UNCHANGED <<box, checkOut, excluded, declined, dropped>>
      BY <1>00, <2>10 DEF SendAnswered
    <3>2. ~dropped => /\ Len(preview') = Len(preview)
                      /\ \A i \in 1..Len(preview) : preview'[i].address = preview[i].address
      BY <1>2, <3>1 DEF RosterFits, SameAddresses
    <3>3. ~dropped => checkOut = <<>>
      BY <1>2, <3>1 DEF RosterFits
    <3>4. ~dropped => /\ \A i, j \in 1..Len(preview') : preview'[i].address = preview'[j].address => i = j
                      /\ \A i \in 1..Len(preview') : preview'[i].address \in declined => i \in excluded
      BY <1>2, <3>2 DEF RosterFits
    <3>5. preview' \in Seq(RosterRow)
      BY <2>00, <3>1
    <3>. QED
      BY <1>00, <1>2, <3>1, <3>3, <3>4, <3>5 DEF RosterFits
  <2>11. CASE SendFails
    BY <1>00, <1>2, <2>11 DEF SendFails, RosterFits
  <2>12. ASSUME UNCHANGED <<box, checkOut, preview, excluded, sendOut, declined, dropped>>
         PROVE  RosterFits'
    BY <1>2, <2>12 DEF RosterFits
  <2>13. ASSUME NEW a \in Address, InvitedElsewhere(a) PROVE RosterFits'
    BY <2>12, <2>13 DEF InvitedElsewhere
  <2>14. CASE UNCHANGED rosterVars
    BY <2>12, <2>14 DEF rosterVars
  <2>. QED
    BY <1>2, <2>1, <2>2, <2>3, <2>4, <2>5, <2>6, <2>8, <2>9, <2>10, <2>11, <2>13, <2>14 DEF RosterNext
<1>3. ASSUME RosterFits PROVE UntickedStaysOutOfARetry
  <2>1. DOMAIN preview = 1..Len(preview)
    BY <1>3 DEF RosterFits
  <2>. QED
    BY <1>3, <2>1 DEF RosterFits, UntickedStaysOutOfARetry, UntickedStaysOut, SelectedRows
<1>. QED
  BY <1>1, <1>2, <1>3, PTL DEF RosterSpec

-----------------------------------------------------------------------------
(* Pages of rows, newest first, and the walk down them. *)

(* A bounded set of naturals that has a member has a greatest one, which Max is. *)
LEMMA MaxOfNaturals ==
  ASSUME NEW T, T \subseteq Nat, T # {}, NEW b \in Nat, \A n \in T : n <= b
  PROVE  Max(T) \in T /\ \A n \in T : n <= Max(T)
<1> DEFINE below == {b - n : n \in T}
<1>1. below \subseteq Nat /\ below # {}
  <2>1. \A n \in T : n \in Nat /\ b - n \in Nat
    OBVIOUS
  <2>. QED
    BY <2>1
<1>2. PICK d \in below : \A e \in below : d <= e
  BY <1>1, LeastNatural
<1>3. PICK m \in T : d = b - m
  OBVIOUS
<1>4. ASSUME NEW n \in T PROVE m >= n
  <2>1. b - n \in below /\ b - n \in Nat /\ n \in Nat /\ m \in Nat
    BY <1>1
  <2>. QED
    BY <1>2, <1>3, <2>1
<1>5. \E x \in T : \A y \in T : x >= y
  BY <1>4
<1>6. Max(T) \in T /\ \A y \in T : Max(T) >= y
  BY <1>5 DEF Max
<1>. QED
  BY <1>6

(* A page is the newest row below its cursor, and its own cursor says whether any is left. *)
LEMMA PageIs ==
  ASSUME NEW f, NEW below, NEW seq \in Nat
  PROVE  LET found == {n \in Matches(f, seq) : n < below}
             p == PageOf(f, below, seq)
         IN /\ found = {} => p.items = <<>> /\ p.next = 0
            /\ found # {} => \E m \in found : /\ p.items = <<m>> /\ \A n \in found : n <= m
                                              /\ p.next = 0 => found = {m}
                                              /\ p.next # 0 => p.next = m /\ found # {m}
            /\ p.filter = f
<1> DEFINE found == {n \in Matches(f, seq) : n < below}
           p == PageOf(f, below, seq)
<1>1. found \subseteq 1..seq /\ IsFiniteSet(1..seq)
  BY FS_Interval DEF Matches
<1>2. IsFiniteSet(found) /\ Cardinality(found) \in Nat
  BY <1>1, FS_Subset, FS_CardinalityType
<1>3. /\ p.filter = f
      /\ p.items = IF found = {} THEN <<>> ELSE <<Max(found)>>
      /\ p.next = IF Cardinality(found) > 1 THEN Max(found) ELSE 0
  BY DEF PageOf
<1>4. found \subseteq Nat /\ \A n \in found : n <= seq /\ n # 0
  BY <1>1
<1> HIDE DEF found, p
<1>5. CASE found = {}
  <2>1. Cardinality(found) = 0
    BY <1>5, FS_EmptySet
  <2>. QED
    BY <1>3, <1>5, <2>1 DEF found, p
<1>6. CASE found # {}
  <2>1. Max(found) \in found /\ \A n \in found : n <= Max(found)
    BY <1>4, <1>6, MaxOfNaturals
  <2>2. Cardinality(found) # 0
    BY <1>2, <1>6, FS_EmptySet
  <2>3. Cardinality(found) = 1 <=> \E x : found = {x}
    BY <1>2, FS_Singleton
  <2>4. Cardinality(found) > 1 <=> ~\E x : found = {x}
    BY <1>2, <2>2, <2>3
  <2>5. Max(found) # 0
    BY <1>4, <2>1
  <2> DEFINE m == Max(found)
  <2>6. p.items = <<m>> /\ p.next = IF \E x : found = {x} THEN 0 ELSE m
    BY <1>2, <1>3, <1>6, <2>4
  <2>7. m \in found /\ m # 0 /\ \A n \in found : n <= m
    BY <2>1, <2>5
  <2> HIDE DEF m
  <2>8. (p.next = 0 => found = {m}) /\ (p.next # 0 => p.next = m /\ found # {m})
    BY <2>6, <2>7
  <2>. QED
    BY <1>3, <1>6, <2>6, <2>7, <2>8 DEF found, p
<1>. QED
  BY <1>5, <1>6 DEF found, p

(* The rows are S from its greatest down to a cursor, each once; all of S for a cursor of 0. *)
WholeTo(seq, c, S) ==
    /\ seq \in Seq(S) /\ c \in Nat
    /\ \A i, j \in 1..Len(seq) : i < j => seq[i] > seq[j]
    /\ c # 0 => Len(seq) > 0 /\ c = seq[Len(seq)]
    /\ \A n \in S : n >= c => \E i \in 1..Len(seq) : seq[i] = n

(* The first page is the beginning of a walk, and the page below a cursor its next step. *)
LEMMA FirstIsWhole ==
  ASSUME NEW f, NEW seq \in Nat, seq <= MaxRows
  PROVE  WholeTo(FirstPage(f, seq).items, FirstPage(f, seq).next, Matches(f, seq))
<1> DEFINE found == {n \in Matches(f, seq) : n < MaxRows + 1}
           p == FirstPage(f, seq)
<1>1. Matches(f, seq) \subseteq 1..seq /\ MaxRows \in Nat
  BY PagingAssumption DEF Matches
<1>2. found = Matches(f, seq)
  BY <1>1
<1>3. /\ found = {} => p.items = <<>> /\ p.next = 0
      /\ found # {} => \E m \in found : /\ p.items = <<m>> /\ \A n \in found : n <= m
                                        /\ p.next = 0 => found = {m}
                                        /\ p.next # 0 => p.next = m /\ found # {m}
  BY PageIs DEF FirstPage
<1> HIDE DEF found, p
<1>4. CASE found = {}
  <2>1. p.items = <<>> /\ p.next = 0 /\ Matches(f, seq) = {}
    BY <1>2, <1>3, <1>4
  <2>2. p.items \in Seq(Matches(f, seq)) /\ Len(p.items) = 0
    BY <2>1, EmptySeq
  <2>. QED
    BY <2>1, <2>2 DEF WholeTo, p
<1>5. CASE found # {}
  <2>1. PICK m \in found : /\ p.items = <<m>> /\ \A n \in found : n <= m
                           /\ p.next = 0 => found = {m}
                           /\ p.next # 0 => p.next = m /\ found # {m}
    BY <1>3, <1>5
  <2>2. p.items \in Seq(found) /\ Len(p.items) = 1 /\ p.items[1] = m
    BY <2>1
  <2>3. p.next \in Nat
    BY <1>1, <1>2, <2>1
  <2>4. ASSUME NEW n \in found, n >= p.next PROVE n = m
    BY <1>1, <1>2, <2>1, <2>4
  <2>. QED
    BY <1>2, <2>1, <2>2, <2>3, <2>4 DEF WholeTo, p
<1>. QED
  BY <1>4, <1>5

(* The page below a walk's cursor is its next step, of a list that has not changed *)
(* below it.                                                                       *)
LEMMA NextIsWhole ==
  ASSUME NEW f, NEW have \in Nat, NEW S, S \subseteq Nat, NEW seq, NEW c, WholeTo(seq, c, S), c # 0,
         {n \in S : n < c} = {n \in Matches(f, have) : n < c}
  PROVE  WholeTo(seq \o PageOf(f, c, have).items, PageOf(f, c, have).next, S)
<1> DEFINE found == {n \in Matches(f, have) : n < c}
           p == PageOf(f, c, have)
<1>1. /\ found = {} => p.items = <<>> /\ p.next = 0
      /\ found # {} => \E m \in found : /\ p.items = <<m>> /\ \A n \in found : n <= m
                                        /\ p.next = 0 => found = {m}
                                        /\ p.next # 0 => p.next = m /\ found # {m}
  BY PageIs
<1>2. found = {n \in S : n < c}
  OBVIOUS
<1> HIDE DEF found, p
<1>3. /\ seq \in Seq(S) /\ c \in Nat /\ Len(seq) \in Nat /\ Len(seq) > 0 /\ c = seq[Len(seq)]
      /\ \A i \in 1..Len(seq) : seq[i] \in S /\ seq[i] \in Nat
      /\ \A i, j \in 1..Len(seq) : i < j => seq[i] > seq[j]
      /\ \A n \in S : n >= c => \E i \in 1..Len(seq) : seq[i] = n
  <2>1. seq \in Seq(S)
    BY DEF WholeTo
  <2>2. Len(seq) \in Nat /\ \A i \in 1..Len(seq) : seq[i] \in S
    BY <2>1, LenProperties, ElementOfSeq
  <2>. QED
    BY <2>1, <2>2 DEF WholeTo
<1>4. CASE found = {}
  <2>1. p.items = <<>> /\ p.next = 0
    BY <1>1, <1>4
  <2>2. seq \o p.items = seq
    BY <1>3, <2>1, ConcatEmptySeq
  <2>3. \A n \in S : n \in Nat /\ n >= c
    BY <1>2, <1>3, <1>4
  <2>. QED
    BY <1>3, <2>1, <2>2, <2>3 DEF WholeTo, p
<1>5. CASE found # {}
  <2>1. PICK m \in found : /\ p.items = <<m>> /\ \A n \in found : n <= m
                           /\ p.next = 0 => found = {m}
                           /\ p.next # 0 => p.next = m /\ found # {m}
    BY <1>1, <1>5
  <2> DEFINE more == seq \o p.items
  <2>2. m \in S /\ m < c /\ m \in Nat
    BY <1>2
  <2>3. more \in Seq(S) /\ Len(more) = Len(seq) + 1
        /\ \A i \in 1..Len(more) : more[i] = IF i <= Len(seq) THEN seq[i] ELSE m
    <3>1. p.items \in Seq(S) /\ Len(p.items) = 1 /\ p.items[1] = m
      BY <2>1, <2>2
    <3> HIDE DEF more
    <3>2. /\ more \in Seq(S) /\ Len(more) = Len(seq) + 1
          /\ \A i \in 1..Len(seq) + 1 : more[i] = IF i <= Len(seq) THEN seq[i] ELSE p.items[i - Len(seq)]
      <4>1. seq \in Seq(S)
        BY <1>3
      <4>2. ASSUME NEW t \in Seq(S)
            PROVE  /\ seq \o t \in Seq(S) /\ Len(seq \o t) = Len(seq) + Len(t)
                   /\ \A i \in 1..Len(seq) + Len(t) : (seq \o t)[i] = IF i <= Len(seq) THEN seq[i] ELSE t[i - Len(seq)]
        BY <4>1, ConcatProperties
      <4>. QED
        BY <3>1, <4>2 DEF more
    <3>. QED
      BY <1>3, <3>1, <3>2
  <2> HIDE DEF more
  <2>4. \A i \in 1..Len(seq) : seq[i] >= c
    BY <1>3
  <2>5. \A i, j \in 1..Len(more) : i < j => more[i] > more[j]
    BY <1>3, <2>2, <2>3, <2>4
  <2>6. p.next \in Nat /\ (p.next # 0 => p.next = more[Len(more)])
    BY <1>3, <2>1, <2>2, <2>3
  <2>7. ASSUME NEW n \in S, n >= p.next PROVE \E i \in 1..Len(more) : more[i] = n
    <3>1. CASE n >= c
      <4>1. PICK i \in 1..Len(seq) : seq[i] = n
        BY <1>3, <3>1
      <4>2. i \in 1..Len(more) /\ i <= Len(seq)
        BY <1>3, <2>3
      <4>. QED
        BY <2>3, <4>1, <4>2
    <3>2. CASE ~(n >= c)
      <4>1. n \in found
        BY <1>2, <1>3, <3>2
      <4>2. n \in Nat /\ m \in Nat /\ n <= m
        BY <2>1, <2>2, <4>1
      <4>3. n = m
        <5>1. p.next = 0 => n = m
          BY <2>1, <4>1
        <5>2. p.next # 0 => n >= m
          BY <2>1, <2>7
        <5>. QED
          BY <4>2, <5>1, <5>2
      <4>4. Len(more) \in 1..Len(more) /\ more[Len(more)] = m
        BY <1>3, <2>3
      <4>. QED
        BY <4>3, <4>4
    <3>. QED
      BY <3>1, <3>2
  <2>8. Len(more) > 0
    BY <1>3, <2>3
  <2>. QED
    BY <2>3, <2>5, <2>6, <2>7, <2>8 DEF WholeTo, p, more
<1>. QED
  BY <1>4, <1>5

(* A walk has no row twice and none of another search; ended, it has them all. *)
LEMMA WholeIsInjective ==
  ASSUME NEW S, S \subseteq Nat, NEW seq, NEW c, WholeTo(seq, c, S)
  PROVE  IsInjective(seq) /\ Range(seq) \subseteq S /\ (c = 0 => Range(seq) = S)
<1>1. seq \in Seq(S) /\ DOMAIN seq = 1..Len(seq) /\ Len(seq) \in Nat
      /\ \A i \in 1..Len(seq) : seq[i] \in S /\ seq[i] \in Nat
  <2>1. seq \in Seq(S)
    BY DEF WholeTo
  <2>. QED
    BY <2>1, LenProperties, ElementOfSeq
<1>2. IsInjective(seq)
  BY <1>1 DEF WholeTo, IsInjective
<1>3. Range(seq) \subseteq S
  BY <1>1 DEF Range
<1>4. c = 0 => \A n \in S : \E i \in 1..Len(seq) : seq[i] = n
  BY DEF WholeTo
<1>5. c = 0 => S \subseteq Range(seq)
  BY <1>1, <1>4 DEF Range
<1>. QED
  BY <1>2, <1>3, <1>5

-----------------------------------------------------------------------------
(* The list of people. *)

(* The last ticket is the last search's, unless a change reloaded another one; answered, *)
(* its page is on screen.                                                                *)
TicketsFit ==
    /\ latest \in Ticket /\ heads \in [Ticket -> [state : {"unused", "out", "over"}, search : Filter]]
    /\ query \in Filter /\ changing \in [out : BOOLEAN, search : Filter]
    /\ listFailed \in BOOLEAN
    /\ heads[latest].state # "unused"
    /\ ~astray => heads[latest].search = query
    /\ heads[latest].state = "over" /\ ~listFailed => people.page.filter = heads[latest].search

(* Of every number of rows, searches and loads: people listed at rest are those the box *)
(* asks for, in whatever order first pages come back (employees page).                  *)
THEOREM ListDoesFollow == DirectorySpec => []ListFollowsTheBox
<1>0. MaxLoads \in Nat /\ 1 \in Ticket /\ 0 \in Filter /\ Ticket \subseteq Nat
  BY DirectoryAssumption DEF Ticket
<1>1. ASSUME DirectoryInit PROVE TicketsFit
  <2>1. heads = [t \in Ticket |-> [state |-> IF t = 1 THEN "out" ELSE "unused", search |-> 0]]
        /\ query = 0 /\ latest = 1 /\ changing = [out |-> FALSE, search |-> 0] /\ listFailed = FALSE
    BY <1>1 DEF DirectoryInit, NoChange
  <2>2. \A t \in Ticket : [state |-> IF t = 1 THEN "out" ELSE "unused", search |-> 0]
                          \in [state : {"unused", "out", "over"}, search : Filter]
    BY <1>0
  <2>3. heads \in [Ticket -> [state : {"unused", "out", "over"}, search : Filter]]
    BY <2>1, <2>2
  <2>4. heads[latest].state = "out" /\ heads[latest].search = 0
    BY <1>0, <2>1
  <2>5. changing \in [out : BOOLEAN, search : Filter]
    BY <1>0, <2>1
  <2>. QED
    BY <1>0, <2>1, <2>3, <2>4, <2>5 DEF TicketsFit
<1>2. ASSUME TicketsFit, [DirectoryNext]_dirVars PROVE TicketsFit'
  <2>a. ASSUME NEW q \in Filter, Load(q), query' \in Filter, changing' \in [out : BOOLEAN, search : Filter],
               UNCHANGED listFailed, ~astray' => q = query'
        PROVE  TicketsFit'
    <3>1. latest' = latest + 1 /\ latest' \in Ticket /\ latest < MaxLoads
      BY <1>0, <1>2, <2>a DEF Load, TicketsFit, Ticket
    <3>2. heads' = [heads EXCEPT ![latest'] = [state |-> "out", search |-> q]]
      BY <2>a, <3>1 DEF Load
    <3>3. [state |-> "out", search |-> q] \in [state : {"unused", "out", "over"}, search : Filter]
      OBVIOUS
    <3>. QED
      BY <1>2, <2>a, <3>1, <3>2, <3>3 DEF TicketsFit
  <2>b. ASSUME NEW t \in Ticket
        PROVE  /\ [heads[t] EXCEPT !.state = "over"] \in [state : {"unused", "out", "over"}, search : Filter]
               /\ [heads[t] EXCEPT !.state = "over"].state = "over"
               /\ [heads[t] EXCEPT !.state = "over"].search = heads[t].search
    BY <1>2 DEF TicketsFit
  <2>1. ASSUME NEW q \in Filter, Searches(q) PROVE TicketsFit'
    BY <1>2, <2>1, <2>a DEF Searches, TicketsFit
  <2>2. CASE TriesAgain
    BY <1>2, <2>2, <2>a DEF TriesAgain, TicketsFit
  <2>3. ASSUME NEW t \in Ticket, HeadArrives(t) PROVE TicketsFit'
    <3>1. heads' = [heads EXCEPT ![t] = [heads[t] EXCEPT !.state = "over"]]
          /\ UNCHANGED <<query, latest, changing, astray>>
      BY <2>3 DEF HeadArrives
    <3>2. FirstPage(heads[t].search, MaxRows).filter = heads[t].search
      BY DEF FirstPage, PageOf
    <3>3. CASE IsLatest(t)
      <4>1. people'.page.filter = heads[t].search /\ listFailed' = FALSE
        BY <2>3, <3>2, <3>3 DEF HeadArrives
      <4>. QED
        BY <1>2, <2>b, <3>1, <3>3, <4>1 DEF TicketsFit, IsLatest
    <3>4. CASE ~IsLatest(t)
      BY <1>2, <2>3, <2>b, <3>1, <3>4 DEF TicketsFit, IsLatest, HeadArrives
    <3>. QED
      BY <3>3, <3>4
  <2>4. ASSUME NEW t \in Ticket, HeadFails(t) PROVE TicketsFit'
    <3>1. heads' = [heads EXCEPT ![t] = [heads[t] EXCEPT !.state = "over"]]
          /\ UNCHANGED <<query, latest, changing, astray, people>>
      BY <2>4 DEF HeadFails
    <3>2. listFailed' \in BOOLEAN /\ (~listFailed' => ~listFailed /\ t # latest)
      BY <1>2, <2>4 DEF HeadFails, IsLatest, TicketsFit
    <3>. QED
      BY <1>2, <2>b, <3>1, <3>2 DEF TicketsFit
  <2>5. CASE OlderPressed \/ OlderAnswered
    BY <1>2, <2>5 DEF OlderPressed, OlderAnswered, TicketsFit
  <2>6. CASE ChangesRole
    BY <1>2, <2>6 DEF ChangesRole, TicketsFit
  <2>7. CASE ChangeAnswered
    <3>1. changing' \in [out : BOOLEAN, search : Filter] /\ UNCHANGED <<query, people, listFailed>>
      BY <1>0, <2>7 DEF ChangeAnswered, NoChange
    <3>2. CASE UNCHANGED <<heads, latest, astray>>
      BY <1>2, <3>1, <3>2 DEF TicketsFit
    <3>3. CASE Load(changing.search) /\ astray' = (changing.search # query)
      BY <1>2, <2>a, <3>1, <3>3 DEF TicketsFit
    <3>. QED
      BY <2>7, <3>2, <3>3 DEF ChangeAnswered
  <2>8. CASE UNCHANGED dirVars
    BY <1>2, <2>8 DEF dirVars, TicketsFit
  <2>. QED
    BY <1>2, <2>1, <2>2, <2>3, <2>4, <2>5, <2>6, <2>7, <2>8 DEF DirectoryNext
<1>3. TicketsFit => ListFollowsTheBox
  BY DEF TicketsFit, ListFollowsTheBox, Settled, HeadsOut
<1>. QED
  BY <1>1, <1>2, <1>3, PTL DEF DirectorySpec

-----------------------------------------------------------------------------
(* Where a walk stands, and that an older page on its way continues it. *)
Stands(walked, page) == IF walked.exhausted THEN 0 ELSE CursorOf(walked, page)

(* An older page out is the one below where the walk stands. *)
Continues(out, walked, page, f, have) ==
    out # <<>> => /\ Stands(walked, page) # 0
                  /\ out = <<PageOf(f, Stands(walked, page), have)>>

(* With no older page yet, a walk is its first page. *)
LEMMA NewWalkIsWhole ==
  ASSUME NEW page, NEW S, WholeTo(page.items, page.next, S)
  PROVE  WholeTo(RowsOf(NewWalk, page), Stands(NewWalk, page), S)
<1>1. NewWalk.older = <<>> /\ NewWalk.cursor = 0 /\ NewWalk.exhausted = FALSE
  BY DEF NewWalk
<1>2. RowsOf(NewWalk, page) = page.items
  BY <1>1, ConcatEmptySeq DEF RowsOf, WholeTo
<1>. QED
  BY <1>1, <1>2 DEF Stands, CursorOf

(* A page that continues a walk is its next step. *)
LEMMA WalkGoesOn ==
  ASSUME NEW walked \in Walk, NEW page, page.items \in Seq(Nat), NEW f, NEW have \in Nat,
         NEW S, S \subseteq Nat, WholeTo(RowsOf(walked, page), Stands(walked, page), S),
         NEW out, out # <<>>, Continues(out, walked, page, f, have), have <= MaxRows,
         \A n \in Nat : n < Stands(walked, page) => (n \in S <=> n \in Matches(f, have))
  PROVE  /\ Walked(walked, out[1]) \in Walk
         /\ WholeTo(RowsOf(Walked(walked, out[1]), page), Stands(Walked(walked, out[1]), page), S)
<1> DEFINE c == Stands(walked, page)
           p == PageOf(f, c, have)
<1>1. out[1] = p /\ c # 0 /\ c \in Nat
  BY DEF Continues, WholeTo
<1>2. Matches(f, have) \subseteq Nat /\ Matches(f, have) \subseteq 1..MaxRows
  BY PagingAssumption DEF Matches
<1>3. {n \in S : n < c} = {n \in Matches(f, have) : n < c}
  BY <1>2
<1>4. WholeTo(RowsOf(walked, page) \o p.items, p.next, S)
  BY <1>1, <1>3, NextIsWhole
<1>5. /\ p.items \in Seq(1..MaxRows) /\ p.next \in 0..MaxRows
  <2> DEFINE found == {n \in Matches(f, have) : n < c}
  <2>1. /\ found = {} => p.items = <<>> /\ p.next = 0
        /\ found # {} => \E m \in found : p.items = <<m>> /\ (p.next # 0 => p.next = m)
    BY PageIs
  <2>2. found \subseteq 1..MaxRows /\ 0 \in 0..MaxRows /\ 1..MaxRows \subseteq 0..MaxRows
    BY <1>2, PagingAssumption
  <2> HIDE DEF found, p
  <2>3. CASE found = {}
    BY <2>1, <2>2, <2>3, EmptySeq
  <2>4. CASE found # {}
    <3>1. PICK m \in found : p.items = <<m>> /\ (p.next # 0 => p.next = m)
      BY <2>1, <2>4
    <3>2. <<m>> \in Seq(1..MaxRows)
      BY <2>2
    <3>3. m \in 0..MaxRows
      BY <2>2
    <3>. QED
      BY <2>2, <3>1, <3>2, <3>3
  <2>. QED
    BY <2>3, <2>4
<1> HIDE DEF p
<1>6. walked.older \in Seq(1..MaxRows) /\ walked.exhausted = FALSE
  BY <1>1 DEF Walk, Stands
<1>7. Walked(walked, p) = [older |-> walked.older \o p.items, cursor |-> p.next, exhausted |-> p.next = 0]
  BY <1>6 DEF Walked
<1>8. walked.older \o p.items \in Seq(1..MaxRows)
  BY <1>5, <1>6, ConcatProperties
<1>9. RowsOf(Walked(walked, p), page) = RowsOf(walked, page) \o p.items
  <2>1. walked.older \in Seq(Nat) /\ p.items \in Seq(Nat)
    BY <1>5, <1>6, PagingAssumption, SeqMonotonic
  <2>2. ASSUME NEW r \in Seq(Nat), NEW s \in Seq(Nat), NEW t \in Seq(Nat)
        PROVE  (r \o s) \o t = r \o (s \o t)
    BY ConcatAssociative
  <2>3. page.items \o (walked.older \o p.items) = (page.items \o walked.older) \o p.items
    BY <2>1, <2>2
  <2> DEFINE l == walked.older \o p.items
  <2> HIDE DEF l
  <2>4. Walked(walked, p).older = l
    BY DEF l, Walked
  <2>. QED
    BY <2>3, <2>4 DEF RowsOf, l
<1>10. Stands(Walked(walked, p), page) = p.next
  <2>1. Walked(walked, p).exhausted = (p.next = 0) /\ Walked(walked, p).cursor = p.next
    BY <1>7
  <2> DEFINE w == Walked(walked, p)
  <2>2. w.exhausted = (p.next = 0) /\ w.cursor = p.next
    BY <2>1
  <2> HIDE DEF w
  <2>3. CASE p.next = 0
    <3>1. w.exhausted
      BY <2>2, <2>3
    <3>. QED
      BY <2>3, <3>1 DEF Stands, w
  <2>4. CASE p.next # 0
    <3>1. ~w.exhausted /\ w.cursor # 0
      BY <2>2, <2>4
    <3>. QED
      BY <2>2, <3>1 DEF Stands, CursorOf, w
  <2>. QED
    BY <2>3, <2>4
<1>11. Walked(walked, p) \in Walk
  <2>1. (p.next = 0) \in BOOLEAN
    OBVIOUS
  <2>. QED
    BY <1>5, <1>7, <1>8, <2>1 DEF Walk
<1>. QED
  BY <1>1, <1>4, <1>9, <1>10, <1>11

(* The rows of a walk are numbers. *)
LEMMA WholeOfMatches ==
  ASSUME NEW f, NEW have, NEW seq, NEW c, WholeTo(seq, c, Matches(f, have))
  PROVE  seq \in Seq(Nat)
<1>1. Matches(f, have) \subseteq Nat
  BY DEF Matches
<1>. QED
  BY <1>1, SeqMonotonic DEF WholeTo

(* The walk before any older page is one. *)
LEMMA NewWalkIsAWalk == NewWalk \in Walk
BY PagingAssumption, EmptySeq DEF NewWalk, Walk

(* Unless pages were mixed, the seq are one walk, and the older page out its next step. *)
RowsFit ==
    people.here /\ ~mixed =>
        LET all == Matches(people.page.filter, MaxRows)
        IN /\ walk \in Walk
           /\ WholeTo(people.page.items, people.page.next, all)
           /\ WholeTo(RowsOf(walk, people.page), Stands(walk, people.page), all)
           /\ Continues(olderOut, walk, people.page, people.page.filter, MaxRows)

(* Of every number of rows and searches: the rows listed are one walk of one search, *)
(* complete once Load more is gone, unless pages of two were mixed (employees page). *)
THEOREM RowsAreOneWalk == DirectorySpec => []OneWalk
<1>0. MaxRows \in Nat /\ MaxRows <= MaxRows
  BY PagingAssumption
<1>1. DirectoryInit => RowsFit
  BY DEF DirectoryInit, RowsFit
<1>2. ASSUME RowsFit, [DirectoryNext]_dirVars PROVE RowsFit'
  <2>1. ASSUME UNCHANGED <<people, walk, olderOut, mixed>> PROVE RowsFit'
    BY <1>2, <2>1 DEF RowsFit
  <2>2. ASSUME NEW t \in Ticket, HeadArrives(t), IsLatest(t) PROVE RowsFit'
    <3> DEFINE page == FirstPage(heads[t].search, MaxRows)
    <3>1. people' = [here |-> TRUE, page |-> page] /\ walk' = NewWalk /\ UNCHANGED olderOut
          /\ mixed' = (olderOut # <<>>)
      BY <2>2 DEF HeadArrives
    <3>2. page.filter = heads[t].search
      BY DEF FirstPage, PageOf
    <3>3. WholeTo(page.items, page.next, Matches(page.filter, MaxRows))
      BY <1>0, <3>2, FirstIsWhole
    <3>4. WholeTo(RowsOf(NewWalk, page), Stands(NewWalk, page), Matches(page.filter, MaxRows))
      BY <3>3, NewWalkIsWhole
    <3> HIDE DEF page
    <3>. QED
      BY <3>1, <3>3, <3>4, NewWalkIsAWalk DEF RowsFit, Continues
  <2>3. CASE OlderPressed
    <3>1. /\ UNCHANGED <<people, walk, query>> /\ mixed' = (mixed \/ query # people.page.filter)
          /\ olderOut' = <<PageOf(query, CursorOf(walk, people.page), MaxRows)>>
          /\ people.here /\ ~walk.exhausted /\ CursorOf(walk, people.page) # 0
      BY <2>3 DEF OlderPressed, MoreOf
    <3>2. CASE mixed'
      BY <3>1, <3>2 DEF RowsFit
    <3>3. CASE ~mixed'
      <4>1. ~mixed /\ query = people.page.filter
        BY <3>1, <3>3
      <4>2. Stands(walk, people.page) = CursorOf(walk, people.page)
        BY <3>1 DEF Stands
      <4>3. Continues(olderOut', walk, people.page, people.page.filter, MaxRows)
        BY <3>1, <4>1, <4>2 DEF Continues
      <4>. QED
        BY <1>2, <3>1, <4>1, <4>3 DEF RowsFit
    <3>. QED
      BY <3>2, <3>3
  <2>4. CASE OlderAnswered
    <3>1. /\ olderOut # <<>> /\ olderOut' = <<>> /\ UNCHANGED <<people, mixed>>
          /\ walk' = Walked(walk, olderOut[1]) \/ walk' = walk
      BY <2>4 DEF OlderAnswered
    <3>2. CASE people.here /\ ~mixed
      <4> DEFINE all == Matches(people.page.filter, MaxRows)
      <4>1. /\ walk \in Walk /\ WholeTo(people.page.items, people.page.next, all)
            /\ WholeTo(RowsOf(walk, people.page), Stands(walk, people.page), all)
            /\ Continues(olderOut, walk, people.page, people.page.filter, MaxRows)
        BY <1>2, <3>2 DEF RowsFit
      <4>2. people.page.items \in Seq(Nat) /\ all \subseteq Nat
        <5>1. people.page.items \in Seq(Nat)
          BY <4>1, WholeOfMatches
        <5>. QED
          BY <5>1 DEF Matches
      <4>3. /\ Walked(walk, olderOut[1]) \in Walk
            /\ WholeTo(RowsOf(Walked(walk, olderOut[1]), people.page), Stands(Walked(walk, olderOut[1]), people.page), all)
        BY <1>0, <3>1, <4>1, <4>2, WalkGoesOn
      <4>4. /\ walk' \in Walk
            /\ WholeTo(RowsOf(walk', people.page), Stands(walk', people.page), all)
        BY <3>1, <4>1, <4>3
      <4>. QED
        BY <3>1, <4>1, <4>4 DEF RowsFit, Continues
    <3>. QED
      BY <3>1, <3>2 DEF RowsFit
  <2>5. ASSUME NEW t \in Ticket, HeadArrives(t), ~IsLatest(t) PROVE RowsFit'
    BY <2>1, <2>5 DEF HeadArrives
  <2>6. ASSUME NEW t \in Ticket, HeadFails(t) PROVE RowsFit'
    BY <2>1, <2>6 DEF HeadFails
  <2>7. ASSUME NEW q \in Filter, Searches(q) PROVE RowsFit'
    BY <2>1, <2>7 DEF Searches
  <2>8. CASE TriesAgain \/ ChangesRole \/ ChangeAnswered \/ UNCHANGED dirVars
    BY <2>1, <2>8 DEF TriesAgain, ChangesRole, ChangeAnswered, dirVars
  <2>. QED
    BY <1>2, <2>2, <2>3, <2>4, <2>5, <2>6, <2>7, <2>8 DEF DirectoryNext
<1>3. ASSUME RowsFit PROVE OneWalk
  <2>1. SUFFICES ASSUME people.here, ~mixed
                 PROVE  LET seq == RowsOf(walk, people.page)
                            found == Matches(people.page.filter, MaxRows)
                        IN /\ IsInjective(seq) /\ Range(seq) \subseteq found
                           /\ ~MoreOf(walk, people.page) => Range(seq) = found
    BY DEF OneWalk
  <2>2. WholeTo(RowsOf(walk, people.page), Stands(walk, people.page), Matches(people.page.filter, MaxRows))
    BY <1>3, <2>1 DEF RowsFit
  <2>3. Matches(people.page.filter, MaxRows) \subseteq Nat
    BY DEF Matches
  <2>4. ~MoreOf(walk, people.page) => Stands(walk, people.page) = 0
    BY DEF MoreOf, Stands
  <2>. QED
    BY <2>2, <2>3, <2>4, WholeIsInjective
<1>. QED
  BY <1>1, <1>2, <1>3, PTL DEF DirectorySpec

-----------------------------------------------------------------------------
(* The evidence search. *)

(* What is found is a walk of the last search's evidence. *)
FoundIsAWalk ==
    foundRows # <<>> \/ foundNext # 0 =>
        submitted = lastSearch /\ WholeTo(foundRows, foundNext, Matches(submitted, MaxRows))

(* Unless a search was overtaken, one request is in flight at most: the last search's *)
(* first page, or the next step of what is found.                                     *)
EvidenceFits ==
    ~overtaken =>
        /\ \A r, s \in runs : r = s
        /\ \A r \in runs : ~r.appends => r.page = FirstPage(lastSearch, MaxRows)
        /\ \A r \in runs : r.appends => foundNext # 0 /\ r.page = PageOf(submitted, foundNext, MaxRows)
        /\ (\A r \in runs : r.appends) => FoundIsAWalk
        /\ runs = {} /\ ~searchFailed => submitted = lastSearch

(* Of every number of rows, searches and requests: with nothing in flight, the evidence *)
(* on screen is the last search's, each passage once, unless a search was pressed       *)
(* beside another request (evidence-search.tsx).                                        *)
THEOREM EvidenceIsTheSearch == SearchSpec => []LastSearchShown
<1>0. MaxRows \in Nat /\ MaxRows <= MaxRows /\ \A f : Matches(f, MaxRows) \subseteq Nat
  BY PagingAssumption DEF Matches
<1>1. SearchInit => EvidenceFits
  BY DEF SearchInit, EvidenceFits, FoundIsAWalk
<1>2. ASSUME EvidenceFits, [SearchNext]_searchVars PROVE EvidenceFits'
  <2>a. ASSUME NEW q, StartRun(FirstPage(q, MaxRows), FALSE), overtaken' = (runs # {}), lastSearch' = q
        PROVE  EvidenceFits'
    <3>1. SUFFICES ASSUME ~overtaken' PROVE EvidenceFits'
      BY DEF EvidenceFits
    <3>2. PICK r : runs' = {r} /\ r.page = FirstPage(q, MaxRows) /\ ~r.appends
      <4>1. runs' = {[n |-> runsStarted, page |-> FirstPage(q, MaxRows), appends |-> FALSE]}
        BY <2>a, <3>1 DEF StartRun
      <4> DEFINE r == [n |-> runsStarted, page |-> FirstPage(q, MaxRows), appends |-> FALSE]
      <4>2. r.page = FirstPage(q, MaxRows) /\ ~r.appends
        OBVIOUS
      <4>. QED
        BY <4>1, <4>2
    <3>. QED
      BY <2>a, <3>2 DEF EvidenceFits
  <2>1. ASSUME NEW q \in Filter, SearchPressed(q) PROVE EvidenceFits'
    BY <2>1, <2>a DEF SearchPressed
  <2>2. CASE SearchRetried
    BY <2>2, <2>a DEF SearchRetried
  <2>3. CASE MorePressed
    <3>1. SUFFICES ASSUME ~overtaken' PROVE EvidenceFits'
      BY DEF EvidenceFits
    <3>2. ~overtaken /\ runs = {} /\ foundNext # 0
          /\ UNCHANGED <<lastSearch, submitted, foundRows, foundNext>>
      BY <2>3, <3>1 DEF MorePressed
    <3>3. PICK r : runs' = {r} /\ r.page = PageOf(submitted, foundNext, MaxRows) /\ r.appends
      <4>1. runs' = {[n |-> runsStarted, page |-> PageOf(submitted, foundNext, MaxRows), appends |-> TRUE]}
        BY <2>3, <3>2 DEF MorePressed, StartRun
      <4> DEFINE r == [n |-> runsStarted, page |-> PageOf(submitted, foundNext, MaxRows), appends |-> TRUE]
      <4>2. r.page = PageOf(submitted, foundNext, MaxRows) /\ r.appends
        OBVIOUS
      <4>. QED
        BY <4>1, <4>2
    <3>4. FoundIsAWalk
      BY <1>2, <3>2 DEF EvidenceFits
    <3>. QED
      BY <3>2, <3>3, <3>4 DEF EvidenceFits, FoundIsAWalk
  <2>4. ASSUME NEW r \in runs, RunAnswered(r), r.appends PROVE EvidenceFits'
    <3>1. SUFFICES ASSUME ~overtaken' PROVE EvidenceFits'
      BY DEF EvidenceFits
    <3>2. /\ foundRows' = foundRows \o r.page.items /\ foundNext' = r.page.next
          /\ submitted' = r.page.filter /\ runs' = runs \ {r} /\ UNCHANGED <<lastSearch, overtaken>>
      BY <2>4 DEF RunAnswered, RunEnds
    <3>3. runs = {r} /\ foundNext # 0 /\ r.page = PageOf(submitted, foundNext, MaxRows)
      BY <1>2, <2>4, <3>1, <3>2 DEF EvidenceFits
    <3>4. FoundIsAWalk
      BY <1>2, <2>4, <3>1, <3>2, <3>3 DEF EvidenceFits
    <3>5. submitted = lastSearch /\ WholeTo(foundRows, foundNext, Matches(submitted, MaxRows))
      BY <3>3, <3>4 DEF FoundIsAWalk
    <3>6. WholeTo(foundRows \o r.page.items, r.page.next, Matches(submitted, MaxRows))
      BY <1>0, <3>3, <3>5, NextIsWhole
    <3>7. r.page.filter = submitted
      BY <3>3 DEF PageOf
    <3>8. runs' = {}
      BY <3>2, <3>3
    <3>. QED
      BY <3>2, <3>5, <3>6, <3>7, <3>8 DEF EvidenceFits, FoundIsAWalk
  <2>5. ASSUME NEW r \in runs, RunAnswered(r), ~r.appends PROVE EvidenceFits'
    <3>1. SUFFICES ASSUME ~overtaken' PROVE EvidenceFits'
      BY DEF EvidenceFits
    <3>2. /\ foundRows' = r.page.items /\ foundNext' = r.page.next
          /\ submitted' = r.page.filter /\ runs' = runs \ {r} /\ UNCHANGED <<lastSearch, overtaken>>
      BY <2>5 DEF RunAnswered, RunEnds
    <3>3. runs = {r} /\ r.page = FirstPage(lastSearch, MaxRows)
      BY <1>2, <2>5, <3>1, <3>2 DEF EvidenceFits
    <3>4. WholeTo(r.page.items, r.page.next, Matches(lastSearch, MaxRows))
      BY <1>0, <3>3, FirstIsWhole
    <3>5. r.page.filter = lastSearch
      BY <3>3 DEF FirstPage, PageOf
    <3>6. runs' = {}
      BY <3>2, <3>3
    <3>. QED
      BY <3>2, <3>4, <3>5, <3>6 DEF EvidenceFits, FoundIsAWalk
  <2>6. ASSUME NEW r \in runs, RunFails(r) PROVE EvidenceFits'
    <3>1. SUFFICES ASSUME ~overtaken' PROVE EvidenceFits'
      BY DEF EvidenceFits
    <3>2. runs' = {} /\ searchFailed' = TRUE /\ UNCHANGED <<submitted, lastSearch, overtaken>>
      BY <1>2, <2>6, <3>1 DEF RunFails, RunEnds, EvidenceFits
    <3>3. CASE r.appends
      <4>1. FoundIsAWalk
        BY <1>2, <2>6, <3>1, <3>2, <3>3 DEF EvidenceFits
      <4>2. UNCHANGED <<foundRows, foundNext>>
        BY <2>6, <3>3 DEF RunFails
      <4>. QED
        BY <3>2, <4>1, <4>2 DEF EvidenceFits, FoundIsAWalk
    <3>4. CASE ~r.appends
      <4>1. foundRows' = <<>> /\ foundNext' = 0
        BY <2>6, <3>4 DEF RunFails
      <4>. QED
        BY <3>2, <4>1 DEF EvidenceFits, FoundIsAWalk
    <3>. QED
      BY <3>3, <3>4
  <2>7. CASE UNCHANGED searchVars
    BY <1>2, <2>7 DEF searchVars, EvidenceFits, FoundIsAWalk
  <2>. QED
    BY <1>2, <2>1, <2>2, <2>3, <2>4, <2>5, <2>6, <2>7 DEF SearchNext
<1>3. ASSUME EvidenceFits PROVE LastSearchShown
  <2>1. SUFFICES ASSUME ~overtaken, runs = {}
                 PROVE  /\ ~searchFailed => submitted = lastSearch
                        /\ foundRows # <<>> => /\ submitted = lastSearch /\ IsInjective(foundRows)
                                               /\ Range(foundRows) \subseteq Matches(submitted, MaxRows)
                                               /\ foundNext = 0 => Range(foundRows) = Matches(submitted, MaxRows)
    BY DEF LastSearchShown
  <2>2. FoundIsAWalk /\ (~searchFailed => submitted = lastSearch)
    BY <1>3, <2>1 DEF EvidenceFits
  <2>. QED
    BY <1>0, <2>2, WholeIsInjective DEF FoundIsAWalk
<1>. QED
  BY <1>1, <1>2, <1>3, PTL DEF SearchSpec

-----------------------------------------------------------------------------
(* The lists with a cached first page. *)

(* The seq of a walk are counted from its first one on. *)
LEMMA RowsAreCounted ==
  ASSUME NEW S, S \subseteq Nat, NEW seq, NEW c, WholeTo(seq, c, S), NEW i \in 1..Len(seq)
  PROVE  Cardinality({n \in S : n >= seq[i]}) = i
<1> DEFINE above == {n \in S : n >= seq[i]}
           nth == [j \in 1..i |-> seq[j]]
<1>1. /\ Len(seq) \in Nat /\ i \in Nat /\ i <= Len(seq)
      /\ \A j \in 1..Len(seq) : seq[j] \in S /\ seq[j] \in Nat
      /\ \A j, k \in 1..Len(seq) : j < k => seq[j] > seq[k]
      /\ c \in Nat /\ (c # 0 => c = seq[Len(seq)])
      /\ \A n \in S : n >= c => \E j \in 1..Len(seq) : seq[j] = n
  <2>1. seq \in Seq(S)
    BY DEF WholeTo
  <2>2. Len(seq) \in Nat /\ \A j \in 1..Len(seq) : seq[j] \in S
    BY <2>1, LenProperties, ElementOfSeq
  <2>3. \A j \in 1..Len(seq) : seq[j] \in Nat
    BY <2>2
  <2>4. i \in Nat /\ i <= Len(seq)
    BY <2>2
  <2>. QED
    BY <2>2, <2>3, <2>4 DEF WholeTo
<1>2. \A j \in 1..i : seq[j] \in above
  BY <1>1
<1>3. \A j, k \in 1..i : seq[j] = seq[k] => j = k
  BY <1>1
<1>4. ASSUME NEW n \in above PROVE \E j \in 1..i : seq[j] = n
  <2>1. n >= c /\ n \in Nat
    <3>1. c <= seq[i]
      BY <1>1
    <3>. QED
      BY <1>1, <3>1
  <2>2. PICK j \in 1..Len(seq) : seq[j] = n
    BY <1>1, <2>1
  <2>3. j <= i
    BY <1>1, <2>2
  <2>. QED
    BY <2>2, <2>3
<1> HIDE DEF above
<1>5. nth \in [1..i -> above]
  BY <1>2
<1>6. nth \in Surjection(1..i, above) /\ nth \in Injection(1..i, above)
  BY <1>3, <1>4, <1>5 DEF Surjection, Injection, IsInjective
<1>7. IsFiniteSet(1..i) /\ Cardinality(1..i) = i
  BY <1>1, FS_Interval
<1>. QED
  BY <1>6, <1>7, FS_Surjection DEF above

(* The page of a filter, once cached, is the first one of some earlier list, and what *)
(* is below it on screen, unless torn, continues it.                                  *)
TrailIsWhole(f, page, walked, out, h) ==
    /\ page = FirstPage(f, h) /\ walked \in Walk
    /\ WholeTo(RowsOf(walked, page), Stands(walked, page), Matches(f, h))
    /\ out # <<>> => \E have \in h..logRows : Continues(out, walked, page, f, have)

(* So it is of the filter on show; without its page, no older one is there or out. *)
TrailFits ==
    /\ logRows \in Nat /\ logRows <= MaxRows /\ logFilter \in Filter /\ DOMAIN cache = Filter
    /\ \A f \in Filter : cache[f].here => \E h \in 0..logRows : cache[f].page = FirstPage(f, h)
    /\ cache[logFilter].here => onScreen = cache[logFilter].page
    /\ ~torn /\ ~cache[logFilter].here => logWalk = NewWalk /\ logOlderOut = <<>>
    /\ ~torn /\ cache[logFilter].here =>
         \E h \in 0..logRows : TrailIsWhole(logFilter, onScreen, logWalk, logOlderOut, h)

(* A first page with nothing below it is whole. *)
LEMMA TrailBegins ==
  ASSUME NEW f, NEW h \in Nat, h <= MaxRows
  PROVE  TrailIsWhole(f, FirstPage(f, h), NewWalk, <<>>, h)
<1> DEFINE page == FirstPage(f, h)
<1>1. WholeTo(page.items, page.next, Matches(f, h))
  BY FirstIsWhole
<1>2. WholeTo(RowsOf(NewWalk, page), Stands(NewWalk, page), Matches(f, h))
  BY <1>1, NewWalkIsWhole
<1> HIDE DEF page
<1>. QED
  BY <1>2, NewWalkIsAWalk DEF TrailIsWhole, page

(* An older page that arrives leaves it whole, whatever rows came meanwhile. *)
LEMMA TrailGoesOn ==
  ASSUME NEW f, NEW page, NEW walked, NEW out, NEW h \in Nat, logRows \in Nat, logRows <= MaxRows,
         h <= logRows, TrailIsWhole(f, page, walked, out, h), out # <<>>
  PROVE  TrailIsWhole(f, page, Walked(walked, out[1]), <<>>, h)
<1> DEFINE c == Stands(walked, page)
<1>1. PICK have \in h..logRows : Continues(out, walked, page, f, have)
  BY DEF TrailIsWhole
<1>2. have \in Nat /\ have <= MaxRows
  BY <1>1, PagingAssumption
<1>3. WholeTo(RowsOf(walked, page), c, Matches(f, h)) /\ c # 0 /\ walked \in Walk
  BY <1>1 DEF TrailIsWhole, Continues
<1>4. Matches(f, h) \subseteq Nat /\ \A n \in Matches(f, h) : n <= h
  BY DEF Matches
<1>5. WholeTo(page.items, page.next, Matches(f, h))
  BY FirstIsWhole, PagingAssumption DEF TrailIsWhole
<1>6. page.items \in Seq(Nat)
  BY <1>5, WholeOfMatches
<1>7. c \in Nat /\ c <= h
  <2> DEFINE seq == RowsOf(walked, page)
  <2>1. seq \in Seq(Matches(f, h)) /\ Len(seq) > 0 /\ c = seq[Len(seq)] /\ c \in Nat
    BY <1>3 DEF WholeTo
  <2>2. Len(seq) \in 1..Len(seq)
    BY <2>1, LenProperties
  <2>3. seq[Len(seq)] \in Matches(f, h)
    BY <2>1, <2>2, ElementOfSeq
  <2>. QED
    BY <1>4, <2>1, <2>3
<1> HIDE DEF c
<1>8. \A n \in Nat : n < c => (n \in Matches(f, h) <=> n \in Matches(f, have))
  BY <1>1, <1>2, <1>7 DEF Matches
<1>9. /\ Walked(walked, out[1]) \in Walk
      /\ WholeTo(RowsOf(Walked(walked, out[1]), page), Stands(Walked(walked, out[1]), page), Matches(f, h))
  BY <1>1, <1>2, <1>3, <1>4, <1>6, <1>8, WalkGoesOn DEF c
<1>. QED
  BY <1>9 DEF TrailIsWhole

(* Of every number of rows and filters: the audit trail on screen has no hole and no  *)
(* row twice, however many rows arrive while it is walked, unless it was torn (audit, *)
(* jobs and invitations pages).                                                       *)
THEOREM TrailHasNoHole == LogPagesSpec => []NoHoleInTheTrail
<1>0. MaxRows \in Nat /\ 1 \in Nat /\ 1 <= MaxRows /\ 0 \in Filter
  BY PagingAssumption, DirectoryAssumption
<1>1. ASSUME LogPagesInit PROVE TrailFits
  <2> DEFINE first == FirstPage(0, 1)
             filled == [here |-> TRUE, page |-> first]
  <2>1. /\ logRows = 1 /\ logFilter = 0 /\ onScreen = first /\ logWalk = NewWalk /\ logOlderOut = <<>>
        /\ cache = [f \in Filter |-> IF f = 0 THEN filled ELSE NotCached]
    BY <1>1 DEF LogPagesInit
  <2>2. filled.page = first /\ filled.here /\ ~NotCached.here
    BY DEF NotCached
  <2>3. TrailIsWhole(0, first, NewWalk, <<>>, 1)
    BY <1>0, TrailBegins
  <2> HIDE DEF first, filled
  <2>4. cache[0].page = first /\ \A f \in Filter : cache[f].here => f = 0
    BY <1>0, <2>1, <2>2
  <2>5. 1 \in 0..logRows
    BY <2>1
  <2>6. DOMAIN cache = Filter
    BY <2>1
  <2>7. \A f \in Filter : cache[f].here => \E h \in 0..logRows : cache[f].page = FirstPage(f, h)
    BY <2>4, <2>5 DEF first
  <2>8. TrailIsWhole(logFilter, onScreen, logWalk, logOlderOut, 1)
    BY <2>1, <2>3
  <2>. QED
    BY <1>0, <2>1, <2>4, <2>5, <2>6, <2>7, <2>8 DEF TrailFits
<1>2. ASSUME TrailFits, [LogPagesNext]_logPagesVars PROVE TrailFits'
  <2>0. logRows \in Nat /\ logRows <= MaxRows
    BY <1>2 DEF TrailFits
  <2>a. ASSUME logRows' \in logRows..MaxRows, UNCHANGED <<logFilter, cache, onScreen, logWalk, logOlderOut, torn>>
        PROVE  TrailFits'
    <3>1. logRows' \in Nat /\ logRows' <= MaxRows /\ 0..logRows \subseteq 0..logRows'
      BY <1>0, <2>0, <2>a
    <3>2. \A h \in 0..logRows : h..logRows \subseteq h..logRows'
      BY <1>0, <2>0, <2>a
    <3>3. ASSUME NEW h \in 0..logRows, TrailIsWhole(logFilter, onScreen, logWalk, logOlderOut, h)
          PROVE  TrailIsWhole(logFilter, onScreen, logWalk, logOlderOut, h)'
      BY <2>a, <3>2, <3>3 DEF TrailIsWhole
    <3>4. \A f \in Filter : cache[f].here => \E h \in 0..logRows' : cache[f].page = FirstPage(f, h)
      BY <1>2, <3>1 DEF TrailFits
    <3>5. ~torn /\ cache[logFilter].here =>
            \E h \in 0..logRows : TrailIsWhole(logFilter, onScreen, logWalk, logOlderOut, h)
      BY <1>2 DEF TrailFits
    <3>6. ~torn /\ cache[logFilter].here =>
            \E h \in 0..logRows' : TrailIsWhole(logFilter, onScreen, logWalk, logOlderOut, h)'
      BY <3>1, <3>3, <3>5
    <3>. QED
      BY <1>2, <2>a, <3>1, <3>4, <3>6 DEF TrailFits
  <2>b. ASSUME logFilter' \in Filter, UNCHANGED <<cache, logOlderOut>>, logRows' \in logRows..MaxRows,
               cache[logFilter'].here => onScreen' = cache[logFilter'].page,
               logWalk' = NewWalk, torn' = (logOlderOut # <<>>)
        PROVE  TrailFits'
    <3>1. logRows' \in Nat /\ logRows' <= MaxRows /\ 0..logRows \subseteq 0..logRows'
      BY <1>0, <2>0, <2>b
    <3>2. \A f \in Filter : cache[f].here => \E h \in 0..logRows' : cache[f].page = FirstPage(f, h)
      BY <1>2, <3>1 DEF TrailFits
    <3>3. ASSUME ~torn', cache[logFilter'].here
          PROVE  \E h \in 0..logRows' : TrailIsWhole(logFilter, onScreen, logWalk, logOlderOut, h)'
      <4>1. logOlderOut' = <<>> /\ onScreen' = cache[logFilter'].page
        BY <2>b, <3>3
      <4>2. PICK h \in 0..logRows' : cache[logFilter'].page = FirstPage(logFilter', h)
        BY <2>b, <3>2, <3>3
      <4>3. h \in Nat /\ h <= MaxRows
        BY <1>0, <3>1
      <4>4. TrailIsWhole(logFilter', FirstPage(logFilter', h), NewWalk, <<>>, h)
        BY <4>3, TrailBegins
      <4>5. WholeTo(RowsOf(NewWalk, FirstPage(logFilter', h)), Stands(NewWalk, FirstPage(logFilter', h)), Matches(logFilter', h))
        BY <4>4 DEF TrailIsWhole
      <4>. QED
        BY <2>b, <4>1, <4>2, <4>5, NewWalkIsAWalk DEF TrailIsWhole
    <3>4. ~torn' => logWalk' = NewWalk /\ logOlderOut' = <<>>
      BY <2>b
    <3>. QED
      BY <1>2, <2>b, <3>1, <3>2, <3>3, <3>4 DEF TrailFits
  <2>1. CASE RowAdded
    <3>1. logRows' \in logRows..MaxRows
      BY <1>0, <2>0, <2>1 DEF RowAdded
    <3>. QED
      BY <2>1, <2>a, <3>1 DEF RowAdded
  <2>2. ASSUME NEW f \in Filter, Chooses(f) PROVE TrailFits'
    <3>1. logRows' \in logRows..MaxRows
      BY <1>0, <2>0, <2>2 DEF Chooses
    <3>. QED
      BY <2>2, <2>b, <3>1 DEF Chooses
  <2>3. CASE InvitationActed
    <3>1. logRows' \in logRows..MaxRows
      BY <1>0, <2>0, <2>3 DEF InvitationActed
    <3>2. cache[logFilter].here => onScreen = cache[logFilter].page
      BY <1>2 DEF TrailFits
    <3>3. logFilter \in Filter
      BY <1>2 DEF TrailFits
    <3>. QED
      BY <2>3, <2>b, <3>1, <3>2, <3>3 DEF InvitationActed
  <2>4. CASE LogOlderPressed
    <3>1. /\ UNCHANGED <<logRows, logFilter, cache, onScreen, logWalk>> /\ logOlderOut = <<>>
          /\ torn' = (torn \/ ~cache[logFilter].here)
          /\ logOlderOut' = <<PageOf(logFilter, CursorOf(logWalk, onScreen), logRows)>>
          /\ ~logWalk.exhausted /\ CursorOf(logWalk, onScreen) # 0
      BY <2>4 DEF LogOlderPressed, MoreOf
    <3>2. ASSUME ~torn', NEW h \in 0..logRows, TrailIsWhole(logFilter, onScreen, logWalk, logOlderOut, h)
          PROVE  TrailIsWhole(logFilter, onScreen, logWalk, logOlderOut, h)'
      <4>1. Continues(logOlderOut', logWalk, onScreen, logFilter, logRows)
        BY <3>1 DEF Continues, Stands
      <4>2. logRows \in h..logRows
        BY <2>0
      <4>. QED
        BY <3>1, <3>2, <4>1, <4>2 DEF TrailIsWhole
    <3>3. ~torn' => \E h \in 0..logRows : TrailIsWhole(logFilter, onScreen, logWalk, logOlderOut, h)
      BY <1>2, <3>1 DEF TrailFits
    <3>4. ~torn' => \E h \in 0..logRows : TrailIsWhole(logFilter, onScreen, logWalk, logOlderOut, h)'
      BY <3>2, <3>3
    <3>. QED
      BY <1>2, <3>1, <3>4 DEF TrailFits
  <2>5. CASE LogOlderAnswered
    <3>1. /\ UNCHANGED <<logRows, logFilter, cache, onScreen, torn>> /\ logOlderOut # <<>> /\ logOlderOut' = <<>>
          /\ logWalk' = Walked(logWalk, logOlderOut[1]) \/ logWalk' = logWalk
      BY <2>5 DEF LogOlderAnswered
    <3>2. ASSUME NEW h \in 0..logRows, TrailIsWhole(logFilter, onScreen, logWalk, logOlderOut, h)
          PROVE  TrailIsWhole(logFilter, onScreen, logWalk, logOlderOut, h)'
      <4>1. h \in Nat /\ h <= logRows
        BY <2>0
      <4>2. TrailIsWhole(logFilter, onScreen, Walked(logWalk, logOlderOut[1]), <<>>, h)
        BY <2>0, <3>1, <3>2, <4>1, TrailGoesOn
      <4>3. TrailIsWhole(logFilter, onScreen, logWalk, <<>>, h)
        BY <3>2 DEF TrailIsWhole
      <4>4. TrailIsWhole(logFilter, onScreen, logWalk', <<>>, h)
        BY <3>1, <4>2, <4>3
      <4>. QED
        BY <3>1, <4>4 DEF TrailIsWhole
    <3>3. ~torn /\ ~cache[logFilter].here => FALSE
      BY <1>2, <3>1 DEF TrailFits
    <3>4. ~torn => \E h \in 0..logRows : TrailIsWhole(logFilter, onScreen, logWalk, logOlderOut, h)
      BY <1>2, <3>3 DEF TrailFits
    <3>5. ~torn => \E h \in 0..logRows : TrailIsWhole(logFilter, onScreen, logWalk, logOlderOut, h)'
      BY <3>2, <3>4
    <3>. QED
      BY <1>2, <3>1, <3>3, <3>5 DEF TrailFits
  <2>6. CASE FirstPageArrives
    <3> DEFINE page == FirstPage(logFilter, logRows)
    <3>1. /\ UNCHANGED <<logRows, logFilter, logWalk, logOlderOut>> /\ onScreen' = page
          /\ cache' = [cache EXCEPT ![logFilter] = [here |-> TRUE, page |-> page]]
          /\ torn' = (torn \/ (page # onScreen /\ (logWalk # NewWalk \/ logOlderOut # <<>>)))
      BY <2>6 DEF FirstPageArrives
    <3>2. TrailIsWhole(logFilter, page, NewWalk, <<>>, logRows)
      BY <2>0, TrailBegins
    <3>3. logRows \in 0..logRows /\ logFilter \in Filter /\ DOMAIN cache = Filter
      BY <1>2 DEF TrailFits
    <3>4. [here |-> TRUE, page |-> page].here /\ [here |-> TRUE, page |-> page].page = page
      OBVIOUS
    <3>5. /\ DOMAIN cache' = Filter /\ cache'[logFilter].here /\ cache'[logFilter].page = page
          /\ \A f \in Filter : f # logFilter => cache'[f] = cache[f]
      BY <3>1, <3>3, <3>4
    <3>6. \A f \in Filter : cache'[f].here => \E h \in 0..logRows : cache'[f].page = FirstPage(f, h)
      BY <1>2, <3>3, <3>5 DEF TrailFits
    <3> HIDE DEF page
    <3>7. ASSUME ~torn' PROVE \E h \in 0..logRows : TrailIsWhole(logFilter, onScreen, logWalk, logOlderOut, h)'
      <4>1. CASE logWalk = NewWalk /\ logOlderOut = <<>>
        BY <3>1, <3>2, <3>3, <4>1 DEF TrailIsWhole
      <4>2. CASE page = onScreen /\ ~(logWalk = NewWalk /\ logOlderOut = <<>>)
        <5>1. ~torn /\ cache[logFilter].here
          BY <1>2, <3>1, <3>7, <4>2 DEF TrailFits
        <5>2. PICK h \in 0..logRows : TrailIsWhole(logFilter, onScreen, logWalk, logOlderOut, h)
          BY <1>2, <5>1 DEF TrailFits
        <5>. QED
          BY <3>1, <4>2, <5>2 DEF TrailIsWhole
      <4>. QED
        BY <3>1, <3>7, <4>1, <4>2
    <3>. QED
      BY <1>2, <3>1, <3>5, <3>6, <3>7 DEF TrailFits
  <2>7. CASE UNCHANGED logPagesVars
    <3>1. logRows' \in logRows..MaxRows
      BY <1>0, <2>0, <2>7 DEF logPagesVars
    <3>. QED
      BY <2>7, <2>a, <3>1 DEF logPagesVars
  <2>. QED
    BY <1>2, <2>1, <2>2, <2>3, <2>4, <2>5, <2>6, <2>7 DEF LogPagesNext
<1>3. ASSUME TrailFits PROVE NoHoleInTheTrail
  <2> DEFINE seq == RowsOf(logWalk, onScreen)
             upTo == {n \in Matches(logFilter, logRows) : seq # <<>> /\ n <= Head(seq)}
  <2>1. SUFFICES ASSUME cache[logFilter].here, ~torn
                 PROVE  /\ \A i \in 1..Len(seq) : Cardinality({n \in upTo : n >= seq[i]}) = i
                        /\ Range(seq) \subseteq upTo
                        /\ ~MoreOf(logWalk, onScreen) => Range(seq) = upTo
    BY DEF NoHoleInTheTrail
  <2>2. PICK h \in 0..logRows : TrailIsWhole(logFilter, onScreen, logWalk, logOlderOut, h)
    BY <1>3, <2>1 DEF TrailFits
  <2> DEFINE found == Matches(logFilter, h)
  <2>3. WholeTo(seq, Stands(logWalk, onScreen), found) /\ found \subseteq Nat
    BY <2>2 DEF TrailIsWhole, Matches
  <2>4. upTo = found
    <3>1. /\ seq \in Seq(found) /\ Len(seq) \in Nat /\ \A i \in 1..Len(seq) : seq[i] \in found
          /\ seq # <<>> => Len(seq) > 0 /\ Head(seq) = seq[1]
          /\ seq = <<>> => Len(seq) = 0
      <4>1. seq \in Seq(found)
        BY <2>3 DEF WholeTo
      <4> HIDE DEF seq, found
      <4>. QED
        BY <4>1, LenProperties, ElementOfSeq, EmptySeq
    <3>2. logRows \in Nat /\ h \in Nat /\ h <= logRows
      BY <1>3 DEF TrailFits
    <3>3. \A n : n \in found <=> n \in Matches(logFilter, logRows) /\ n <= h
      BY <3>2 DEF Matches
    <3>4. seq = <<>> => found = {}
      <4>1. seq = <<>> => \A n \in found : ~(n >= Stands(logWalk, onScreen))
        BY <2>3, <3>1 DEF WholeTo
      <4>2. seq = <<>> => Stands(logWalk, onScreen) = 0
        BY <2>3, <3>1 DEF WholeTo
      <4>. QED
        BY <2>3, <4>1, <4>2
    <3>5. ASSUME seq # <<>>, NEW n \in found PROVE n <= Head(seq)
      <4>1. /\ Stands(logWalk, onScreen) \in Nat
            /\ Stands(logWalk, onScreen) # 0 => Stands(logWalk, onScreen) = seq[Len(seq)]
            /\ \A i, j \in 1..Len(seq) : i < j => seq[i] > seq[j]
            /\ \A m \in found : m >= Stands(logWalk, onScreen) => \E i \in 1..Len(seq) : seq[i] = m
        BY <2>3 DEF WholeTo
      <4> DEFINE c == Stands(logWalk, onScreen)
      <4>2. \A i \in 1..Len(seq) : seq[i] \in Nat /\ seq[i] <= seq[1]
        <5>1. \A i \in 1..Len(seq) : seq[i] \in Nat
          BY <2>3, <3>1
        <5>2. 1 \in 1..Len(seq)
          BY <3>1, <3>5
        <5> HIDE DEF seq
        <5>3. ASSUME NEW i \in 1..Len(seq) PROVE seq[i] <= seq[1]
          <6>1. i \in Nat /\ (i = 1 \/ 1 < i)
            BY <3>1
          <6>2. 1 < i => seq[1] > seq[i]
            BY <4>1, <5>2
          <6>. QED
            BY <5>1, <5>2, <6>1, <6>2
        <5>. QED
          BY <5>1, <5>3
      <4>3. CASE n >= c
        BY <3>1, <3>5, <4>1, <4>2, <4>3
      <4>4. CASE ~(n >= c)
        <5>1. n \in Nat /\ c = seq[Len(seq)] /\ n < c
          BY <2>3, <4>1, <4>4
        <5>2. Len(seq) \in 1..Len(seq) /\ Head(seq) = seq[1]
          BY <3>1, <3>5
        <5>. QED
          BY <4>2, <5>1, <5>2
      <4>. QED
        BY <4>3, <4>4
    <3>6. seq # <<>> => Head(seq) \in found
      BY <3>1
    <3>7. ASSUME seq # <<>>, NEW n \in Matches(logFilter, logRows), n <= Head(seq) PROVE n \in found
      <4>1. Head(seq) \in Nat /\ Head(seq) <= h /\ n \in Nat
        BY <2>3, <3>3, <3>6, <3>7 DEF Matches
      <4>. QED
        BY <3>2, <3>3, <3>7, <4>1
    <3> HIDE DEF seq, found
    <3>. QED
      BY <3>3, <3>4, <3>5, <3>7
  <2>5. ~MoreOf(logWalk, onScreen) => Stands(logWalk, onScreen) = 0
    BY DEF MoreOf, Stands
  <2> HIDE DEF seq, upTo, found
  <2>6. Range(seq) \subseteq found /\ (~MoreOf(logWalk, onScreen) => Range(seq) = found)
    BY <2>3, <2>5, WholeIsInjective
  <2>7. \A i \in 1..Len(seq) : Cardinality({n \in found : n >= seq[i]}) = i
    BY <2>3, RowsAreCounted
  <2>. QED
    BY <2>4, <2>6, <2>7
<1>. QED
  BY <1>1, <1>2, <1>3, PTL DEF LogPagesSpec

-----------------------------------------------------------------------------
(* The text of a document, passage by passage. *)

(* What each step of a query does to its data and to its answer. *)
LEMMA ViewParts ==
  ASSUME NEW Facts, NEW f \in Facts, NEW v \in ViewOf(Facts)
  PROVE  /\ Asked(v).data = v.data /\ Asked(v).got = v.data
         /\ Failed(v).data = v.data /\ Failed(v).got = v.data
         /\ ReadAnswered(v, f).data = v.data /\ ReadAnswered(v, f).got = f
         /\ Arrived(v).data = v.got /\ Arrived(v).got = v.got
BY DEF ViewOf, Asked, ReadAnswered, Arrived, Failed

(* The first m passages, and a text of them that knows where it goes on. *)
UpTo(m) == [i \in 1..m |-> i]

(* The text so far is a beginning of the document, and what is asked for next goes on *)
(* from it.                                                                           *)
Unbroken(below, next, have) ==
    \E m \in 0..have : /\ PassagesFrom(1, have) \o below = UpTo(m)
                       /\ m < have => next = m + 1
                       /\ m = have => next = 0

(* k passages from n on, and the ordinal after them. *)
Piece(n, k, have) ==
    /\ PassagesFrom(n, have) = [i \in 1..k |-> n + i - 1] /\ n + k <= have + 1
    /\ n + k <= have => NextAfter(n, have) = n + k
    /\ n + k = have + 1 => NextAfter(n, have) = 0

(* What the server answers is such a piece. *)
LEMMA PageIsAPiece ==
  ASSUME NEW n \in Nat, NEW have \in Nat, n <= have + 1
  PROVE  \E k \in Nat : Piece(n, k, have)
<1> USE DEF Piece
<1>1. CASE n + PageLen <= have
  BY <1>1, ReaderAssumption DEF PassagesFrom, NextAfter
<1>2. CASE ~(n + PageLen <= have)
  <2>1. have + 1 - n \in Nat
    OBVIOUS
  <2>2. PassagesFrom(n, have) = [i \in 1..(have + 1 - n) |-> n + i - 1] /\ NextAfter(n, have) = 0
    BY <1>2 DEF PassagesFrom, NextAfter
  <2>3. n + (have + 1 - n) = have + 1 /\ ~(have + 1 <= have)
    OBVIOUS
  <2>. QED
    BY <2>1, <2>2, <2>3
<1>. QED
  BY <1>1, <1>2

(* A piece laid to the end of a beginning is a longer beginning. *)
LEMMA PiecesAdd ==
  ASSUME NEW m \in Nat, NEW k \in Nat
  PROVE  UpTo(m) \o [i \in 1..k |-> (m + 1) + i - 1] = UpTo(m + k)
<1> DEFINE s == UpTo(m)
           t == [i \in 1..k |-> (m + 1) + i - 1]
           u == UpTo(m + k)
<1>1. s \in Seq(Nat) /\ Len(s) = m /\ \A i \in 1..m : s[i] = i
  <2>1. s \in [1..m -> Nat]
    BY DEF UpTo
  <2>. QED
    BY <2>1 DEF UpTo
<1>2. t \in Seq(Nat) /\ Len(t) = k /\ \A i \in 1..k : t[i] = m + i
  <2>1. t \in [1..k -> Nat]
    OBVIOUS
  <2>. QED
    BY <2>1
<1>3. u \in Seq(Nat) /\ Len(u) = m + k /\ \A i \in 1..m + k : u[i] = i
  <2>1. u \in [1..(m + k) -> Nat]
    BY DEF UpTo
  <2>. QED
    BY <2>1 DEF UpTo
<1> HIDE DEF s, t, u
<1>4. /\ s \o t \in Seq(Nat) /\ Len(s \o t) = m + k
      /\ \A i \in 1..m + k : (s \o t)[i] = IF i <= m THEN s[i] ELSE t[i - m]
  BY <1>1, <1>2, ConcatProperties
<1>5. \A i \in 1..m + k : (s \o t)[i] = i
  <2>1. ASSUME NEW i \in 1..m + k PROVE (s \o t)[i] = i
    <3>1. CASE i <= m
      BY <1>1, <1>4, <3>1
    <3>2. CASE ~(i <= m)
      <4>1. i - m \in 1..k
        BY <3>2
      <4>. QED
        BY <1>2, <1>4, <3>2, <4>1
    <3>. QED
      BY <3>1, <3>2
  <2>. QED
    BY <2>1
<1>6. s \o t = u
  BY <1>3, <1>4, <1>5, SeqEqual
<1>. QED
  BY <1>6 DEF s, t, u

(* The first page is a beginning. *)
LEMMA TextBegins ==
  ASSUME NEW have \in Nat
  PROVE  Unbroken(<<>>, NextAfter(1, have), have)
<1>1. PICK k \in Nat : Piece(1, k, have)
  BY PageIsAPiece
<1>2. PassagesFrom(1, have) = UpTo(k)
  <2>1. PassagesFrom(1, have) = [i \in 1..k |-> 1 + i - 1]
    BY <1>1 DEF Piece
  <2>2. \A i \in 1..k : 1 + i - 1 = i
    OBVIOUS
  <2>. QED
    BY <2>1, <2>2 DEF UpTo
<1>3. UpTo(k) \in Seq(Nat)
  <2>1. UpTo(k) \in [1..k -> Nat]
    BY DEF UpTo
  <2>. QED
    BY <2>1
<1>4. PassagesFrom(1, have) \o <<>> = UpTo(k)
  BY <1>2, <1>3, ConcatEmptySeq
<1>. QED
  BY <1>1, <1>4 DEF Unbroken, Piece

(* The page asked for next makes it longer. *)
LEMMA TextGoesOn ==
  ASSUME NEW have \in Nat, NEW below, NEW next, Unbroken(below, next, have), next # 0,
         below \in Seq(Nat)
  PROVE  /\ PassagesFrom(next, have) \in Seq(Nat)
         /\ Unbroken(below \o PassagesFrom(next, have), NextAfter(next, have), have)
<1>1. PICK m \in 0..have : /\ PassagesFrom(1, have) \o below = UpTo(m)
                           /\ m < have => next = m + 1
                           /\ m = have => next = 0
  BY DEF Unbroken
<1>2. next = m + 1 /\ m < have /\ m \in Nat
  BY <1>1
<1>3. PICK k \in Nat : Piece(next, k, have)
  BY <1>2, PageIsAPiece
<1> DEFINE piece == PassagesFrom(next, have)
           first == PassagesFrom(1, have)
<1>4. piece \in Seq(Nat)
  <2>1. piece \in [1..k -> Nat]
    BY <1>2, <1>3 DEF Piece
  <2>. QED
    BY <2>1
<1>5. first \in Seq(Nat)
  <2>1. PICK j \in Nat : Piece(1, j, have)
    BY PageIsAPiece
  <2>2. first \in [1..j -> Nat]
    BY <2>1 DEF Piece
  <2>. QED
    BY <2>2
<1>6. UpTo(m) \o piece = UpTo(m + k)
  BY <1>2, <1>3, PiecesAdd DEF Piece
<1> HIDE DEF piece, first
<1>7. first \o (below \o piece) = (first \o below) \o piece
  <2>1. ASSUME NEW r \in Seq(Nat), NEW s \in Seq(Nat), NEW t \in Seq(Nat)
        PROVE  (r \o s) \o t = r \o (s \o t)
    BY ConcatAssociative
  <2>. QED
    BY <1>4, <1>5, <2>1
<1>8. first \o (below \o piece) = UpTo(m + k)
  BY <1>1, <1>6, <1>7 DEF first
<1>9. m + k \in 0..have /\ (m + k < have => NextAfter(next, have) = m + k + 1)
      /\ (m + k = have => NextAfter(next, have) = 0)
  BY <1>2, <1>3 DEF Piece
<1>. QED
  BY <1>4, <1>8, <1>9 DEF Unbroken, piece, first

-----------------------------------------------------------------------------
(* The document on screen never loses a passage, so a page that was asked for continues *)
(* the text whenever it comes.                                                          *)
TextFits ==
    LET have == readable["reader"].data
    IN /\ onPage \in ReaderQuery /\ passagesStored \in {0, Passages}
       /\ readable \in [ReaderQuery -> ViewOf({0, Passages})]
       /\ have = Passages => readable["reader"].got = Passages
       /\ readable["reader"].got = Passages => passagesStored = Passages
       /\ rest \in Seq(Nat) /\ restOver \in BOOLEAN /\ passageOut \in Nat
       /\ Unbroken(rest, NextOrdinal, have)
       /\ have # Passages => rest = <<>> /\ restCursor = 0 /\ ~restOver /\ passageOut = 0
       /\ passageOut # 0 => passageOut = NextOrdinal
       /\ passageOut = 0 => passageGot = <<>>
       /\ passageGot # <<>> => passageGot = <<[items |-> PassagesFrom(passageOut, Passages),
                                               next |-> NextAfter(passageOut, Passages)]>>

(* Of every number of passages and size of page: the text on screen is the document    *)
(* from its first passage on, none missing and none twice, and more is offered exactly *)
(* while some are left (kt-pages.tsx over kt.py).                                      *)
THEOREM TextStaysUnbroken == ReaderSpec => []TextIsUnbroken
<1>0. Passages \in Nat /\ {0, Passages} \subseteq Nat
  BY ReaderAssumption
<1>1. ASSUME ReaderInit PROVE TextFits
  <2>1. /\ readable = [q \in ReaderQuery |-> IF q = "documents" THEN Asked(Unread(0)) ELSE Unread(0)]
        /\ rest = <<>> /\ restCursor = 0 /\ restOver = FALSE /\ passageOut = 0 /\ passageGot = <<>>
        /\ passagesStored \in {0, Passages} /\ onPage \in ReaderQuery
    BY <1>1 DEF ReaderInit, ReaderQuery
  <2>2. Unread(0) \in ViewOf({0, Passages}) /\ Asked(Unread(0)) \in ViewOf({0, Passages})
    BY DEF ViewOf, Unread, Asked
  <2>3. readable \in [ReaderQuery -> ViewOf({0, Passages})]
    BY <2>1, <2>2
  <2>4. readable["reader"] = Unread(0)
    BY <2>1 DEF ReaderQuery
  <2>5. readable["reader"].data = 0 /\ readable["reader"].got = 0
    BY <2>4 DEF Unread
  <2>6. NextOrdinal = NextAfter(1, 0)
    BY <2>1, <2>5 DEF NextOrdinal, HeadNext
  <2>7. Unbroken(rest, NextOrdinal, 0)
    BY <2>1, <2>6, TextBegins
  <2>. QED
    BY <1>0, <2>1, <2>3, <2>5, <2>7, EmptySeq DEF TextFits
<1>2. ASSUME TextFits, [ReaderNext]_readerVars PROVE TextFits'
  <2> DEFINE v == readable["reader"]
             have == readable["reader"].data
             Facts == {0, Passages}
  <2>0. /\ onPage \in ReaderQuery /\ passagesStored \in Facts /\ readable \in [ReaderQuery -> ViewOf(Facts)]
        /\ \A q \in ReaderQuery : readable[q] \in ViewOf(Facts)
        /\ v \in ViewOf(Facts) /\ have \in Facts /\ v.got \in Facts
        /\ have = Passages => v.got = Passages
        /\ v.got = Passages => passagesStored = Passages
    <3>1. readable["reader"] \in ViewOf(Facts)
      BY <1>2 DEF TextFits, ReaderQuery
    <3>. QED
      BY <1>2, <3>1 DEF TextFits, ViewOf
  <2>1. /\ rest \in Seq(Nat) /\ restOver \in BOOLEAN /\ passageOut \in Nat
        /\ Unbroken(rest, NextOrdinal, have)
        /\ have # Passages => rest = <<>> /\ restCursor = 0 /\ ~restOver /\ passageOut = 0
        /\ passageOut # 0 => passageOut = NextOrdinal
        /\ passageOut = 0 => passageGot = <<>>
        /\ passageGot # <<>> => passageGot = <<[items |-> PassagesFrom(passageOut, Passages),
                                                next |-> NextAfter(passageOut, Passages)]>>
    BY <1>2 DEF TextFits
  <2>2. have \in Nat
    BY <1>0, <2>0
  <2>a. ASSUME UNCHANGED readerWalk, onPage' \in ReaderQuery, passagesStored' \in Facts, readable' \in [ReaderQuery -> ViewOf(Facts)],
               v'.data = v.data, v.data = Passages => v'.got = Passages,
               v'.got = Passages => passagesStored' = Passages
        PROVE  TextFits'
    <3>1. NextOrdinal' = NextOrdinal /\ UNCHANGED <<rest, restCursor, restOver, passageOut, passageGot>>
      BY <2>a DEF readerWalk, NextOrdinal, HeadNext
    <3> HIDE DEF Facts
    <3>. QED
      BY <2>1, <2>a, <3>1 DEF TextFits, Facts
  <2>b. ASSUME onPage' \in ReaderQuery, rest' = <<>>, restCursor' = 0, restOver' = FALSE, passageOut' = 0, passageGot' = <<>>,
               passagesStored' \in Facts, readable' \in [ReaderQuery -> ViewOf(Facts)],
               v'.data \in Facts, v'.data = Passages => v'.got = Passages,
               v'.got = Passages => passagesStored' = Passages
        PROVE  TextFits'
    <3>1. v'.data \in Nat
      BY <1>0, <2>b
    <3>2. NextOrdinal' = NextAfter(1, v'.data)
      BY <2>b DEF NextOrdinal, HeadNext
    <3>3. Unbroken(rest', NextOrdinal', v'.data)
      BY <2>b, <3>1, <3>2, TextBegins
    <3> HIDE DEF Facts
    <3>. QED
      BY <2>b, <3>3, EmptySeq DEF TextFits, Facts
  <2>c. ASSUME NEW q \in ReaderQuery, NEW w \in ViewOf(Facts), readable' = [readable EXCEPT ![q] = w]
        PROVE  /\ readable' \in [ReaderQuery -> ViewOf(Facts)]
               /\ v' = IF q = "reader" THEN w ELSE v
    <3> HIDE DEF Facts
    <3>. QED
      BY <2>0, <2>c DEF ReaderQuery
  <2>3. CASE PackageChanges
    <3>1. UNCHANGED <<onPage, readable, readerWalk>> /\ (passagesStored' = passagesStored \/ passagesStored' = Passages)
      BY <2>3 DEF PackageChanges
    <3>. QED
      BY <2>0, <2>a, <3>1
  <2>4. ASSUME NEW q \in ReaderQuery, NEW w \in ViewOf(Facts), readable' = [readable EXCEPT ![q] = w],
               w.data = readable[q].data, w.got \in {w.data, passagesStored},
               UNCHANGED <<passagesStored, onPage, readerWalk>>
        PROVE  TextFits'
    <3>1. readable' \in [ReaderQuery -> ViewOf(Facts)] /\ v' = IF q = "reader" THEN w ELSE v
      BY <2>4, <2>c
    <3>2. CASE q = "reader"
      BY <2>0, <2>4, <2>a, <3>1, <3>2
    <3>3. CASE q # "reader"
      BY <2>0, <2>4, <2>a, <3>1, <3>3
    <3>. QED
      BY <3>2, <3>3
  <2>5. ASSUME NEW q \in ReaderQuery, ReaderServed(q), q = "reader" PROVE TextFits'
    <3>1. readable' = [readable EXCEPT ![q] = ReadAnswered(readable[q], passagesStored)]
          /\ UNCHANGED <<passagesStored, onPage, readerWalk>>
      BY <2>5 DEF ReaderServed, readerWorld, ReaderAnswer
    <3>2. ReadAnswered(readable[q], passagesStored) \in ViewOf(Facts)
          /\ ReadAnswered(readable[q], passagesStored).data = readable[q].data
          /\ ReadAnswered(readable[q], passagesStored).got = passagesStored
      <4>1. readable[q] \in ViewOf(Facts) /\ passagesStored \in Facts
        BY <2>0
      <4> HIDE DEF Facts
      <4>2. ReadAnswered(readable[q], passagesStored) \in ViewOf(Facts)
        BY <4>1, ViewsStayViews
      <4>3. ReadAnswered(readable[q], passagesStored).data = readable[q].data
            /\ ReadAnswered(readable[q], passagesStored).got = passagesStored
        BY <4>1, ViewParts
      <4>. QED
        BY <4>2, <4>3
    <3>. QED
      BY <2>4, <3>1, <3>2
  <2>6. ASSUME NEW q \in ReaderQuery, ReaderServed(q), q # "reader" PROVE TextFits'
    <3>1. readable' = [readable EXCEPT ![q] = ReadAnswered(readable[q], Passages)]
          /\ UNCHANGED <<passagesStored, onPage, readerWalk>>
      BY <2>6 DEF ReaderServed, readerWorld, ReaderAnswer
    <3>2. ReadAnswered(readable[q], Passages) \in ViewOf(Facts)
      BY <2>0, ViewsStayViews
    <3>3. readable' \in [ReaderQuery -> ViewOf(Facts)] /\ v' = v
      BY <2>6, <2>c, <3>1, <3>2
    <3>. QED
      BY <2>0, <2>a, <3>1, <3>3
  <2>7. ASSUME NEW q \in ReaderQuery, ReaderFails(q) PROVE TextFits'
    <3>1. readable' = [readable EXCEPT ![q] = Failed(readable[q])] /\ UNCHANGED <<passagesStored, onPage, readerWalk>>
      BY <2>7 DEF ReaderFails, readerWorld
    <3>2. Failed(readable[q]) \in ViewOf(Facts) /\ Failed(readable[q]).data = readable[q].data
          /\ Failed(readable[q]).got = readable[q].data
      BY <2>0, ViewsStayViews, ViewParts
    <3>. QED
      BY <2>4, <3>1, <3>2
  <2>8. CASE ReaderRereads
    <3>1. onPage \in ReaderQuery
      BY <2>0
    <3>2. readable' = [readable EXCEPT ![onPage] = Asked(readable[onPage])] /\ UNCHANGED <<passagesStored, onPage, readerWalk>>
      BY <2>8 DEF ReaderRereads, readerWorld
    <3>3. Asked(readable[onPage]) \in ViewOf(Facts) /\ Asked(readable[onPage]).data = readable[onPage].data
          /\ Asked(readable[onPage]).got = readable[onPage].data
      BY <2>0, <3>1, ViewsStayViews, ViewParts
    <3>. QED
      BY <2>4, <3>1, <3>2, <3>3
  <2>9. ASSUME NEW q \in ReaderQuery, ReaderArrives(q) PROVE TextFits'
    <3>1. readable' = [readable EXCEPT ![q] = Arrived(readable[q])] /\ UNCHANGED <<passagesStored, onPage, readerWalk>>
      BY <2>9 DEF ReaderArrives, readerWorld
    <3>2. Arrived(readable[q]) \in ViewOf(Facts)
          /\ Arrived(readable[q]).data = readable[q].got /\ Arrived(readable[q]).got = readable[q].got
      BY <2>0, ViewsStayViews, ViewParts
    <3>3. readable' \in [ReaderQuery -> ViewOf(Facts)] /\ v' = IF q = "reader" THEN Arrived(readable[q]) ELSE v
      BY <2>c, <3>1, <3>2
    <3>4. CASE q = "reader" /\ have # Passages
      <4>1. rest' = <<>> /\ restCursor' = 0 /\ restOver' = FALSE /\ passageOut' = 0 /\ passageGot' = <<>>
        BY <2>1, <3>1, <3>4 DEF readerWalk
      <4>2. v'.data = v.got /\ v'.got = v.got
        BY <3>2, <3>3, <3>4
      <4>. QED
        BY <2>0, <2>b, <3>1, <3>3, <4>1, <4>2
    <3>5. CASE q = "reader" /\ have = Passages
      <4>1. v'.data = v.got /\ v'.got = v.got
        BY <3>2, <3>3, <3>5
      <4>. QED
        BY <2>0, <2>a, <3>1, <3>3, <3>5, <4>1
    <3>6. CASE q # "reader"
      BY <2>0, <2>a, <3>1, <3>3, <3>6
    <3>. QED
      BY <3>4, <3>5, <3>6
  <2>10. ASSUME NEW q \in ReaderQuery, OpensReader(q) PROVE TextFits'
    <3>1. PICK w \in OnMount(readable[q]) : readable' = [readable EXCEPT ![q] = w]
      BY <2>10 DEF OpensReader
    <3>2. w = readable[q] \/ w = Asked(readable[q])
      BY <3>1 DEF OnMount
    <3>3. Asked(readable[q]) \in ViewOf(Facts) /\ Asked(readable[q]).data = readable[q].data
          /\ Asked(readable[q]).got = readable[q].data
      BY <2>0, ViewsStayViews, ViewParts
    <3>4. w \in ViewOf(Facts)
      BY <2>0, <3>2, <3>3
    <3>5. readable' \in [ReaderQuery -> ViewOf(Facts)] /\ v' = IF q = "reader" THEN w ELSE v
      BY <2>c, <3>1, <3>4
    <3>6. v'.data = v.data /\ v'.got \in {v.data, v.got}
      BY <3>2, <3>3, <3>5
    <3>7. /\ rest' = <<>> /\ restCursor' = 0 /\ restOver' = FALSE /\ passageOut' = 0 /\ passageGot' = <<>>
          /\ UNCHANGED passagesStored /\ onPage' \in ReaderQuery
      BY <2>10 DEF OpensReader, readerWorld
    <3>8. v'.data \in Facts /\ (v'.data = Passages => v'.got = Passages)
          /\ (v'.got = Passages => passagesStored = Passages)
      BY <2>0, <3>6
    <3>. QED
      BY <2>0, <2>b, <3>5, <3>7, <3>8
  <2>d. ASSUME UNCHANGED <<passagesStored, onPage, readable, rest, restCursor, restOver>>, passageOut' \in Nat,
               have # Passages => passageOut' = 0, passageOut' # 0 => passageOut' = NextOrdinal,
               passageOut' = 0 => passageGot' = <<>>,
               passageGot' # <<>> => passageGot' = <<[items |-> PassagesFrom(passageOut', Passages),
                                                      next |-> NextAfter(passageOut', Passages)]>>
        PROVE  TextFits'
    <3>1. NextOrdinal' = NextOrdinal
      BY <2>d DEF NextOrdinal, HeadNext
    <3>. QED
      BY <2>0, <2>1, <2>d, <3>1 DEF TextFits
  <2>11. CASE PassagesPressed
    <3>1. UNCHANGED <<passagesStored, onPage, readable, rest, restCursor, restOver, passageGot>>
          /\ passageOut = 0 /\ NextOrdinal # 0 /\ passageOut' = NextOrdinal
      BY <2>11 DEF PassagesPressed, readerWorld
    <3>2. PICK m \in 0..have : (m < have => NextOrdinal = m + 1) /\ (m = have => NextOrdinal = 0)
      BY <2>1 DEF Unbroken
    <3>3. NextOrdinal \in Nat /\ have # 0
      BY <2>2, <3>1, <3>2
    <3>4. have = Passages
      BY <2>0, <3>3
    <3>5. passageGot' = <<>>
      BY <2>1, <3>1
    <3>. QED
      BY <2>d, <3>1, <3>3, <3>4, <3>5
  <2>12. CASE MoreServed
    <3>1. UNCHANGED <<passagesStored, onPage, readable, rest, restCursor, restOver, passageOut>> /\ passageOut # 0
          /\ passageGot' = <<[items |-> PassagesFrom(passageOut, passagesStored),
                              next |-> NextAfter(passageOut, passagesStored)]>>
      BY <2>12 DEF MoreServed, readerWorld
    <3>2. have = Passages /\ passagesStored = Passages
      BY <2>0, <2>1, <3>1
    <3>. QED
      BY <2>1, <2>d, <3>1, <3>2
  <2>13. CASE MoreFails
    <3>1. UNCHANGED <<passagesStored, onPage, readable, rest, restCursor, restOver>> /\ passageOut' = 0 /\ passageGot' = <<>>
      BY <2>13 DEF MoreFails, readerWorld
    <3>. QED
      BY <2>d, <3>1
  <2>14. CASE MoreComes
    <3> DEFINE n == passageOut
               piece == PassagesFrom(n, Passages)
               after == NextAfter(n, Passages)
    <3>1. /\ passageGot # <<>> /\ rest' = rest \o passageGot[1].items /\ restCursor' = passageGot[1].next
          /\ restOver' = (restOver \/ passageGot[1].next = 0)
          /\ passageOut' = 0 /\ passageGot' = <<>> /\ UNCHANGED <<passagesStored, onPage, readable>>
      BY <2>14 DEF MoreComes, readerWorld
    <3>2. n # 0 /\ n = NextOrdinal /\ have = Passages /\ Passages \in Nat
      BY <1>0, <2>1, <3>1
    <3>3. passageGot[1].items = piece /\ passageGot[1].next = after
      BY <2>1, <3>1
    <3>4. ~restOver
      BY <3>2 DEF NextOrdinal
    <3>5. /\ piece \in Seq(Nat)
          /\ Unbroken(rest \o piece, after, Passages)
      BY <2>1, <3>2, TextGoesOn
    <3> HIDE DEF n, piece, after
    <3>6. rest' = rest \o piece /\ restCursor' = after /\ restOver' = (after = 0)
      BY <3>1, <3>3, <3>4
    <3>7. rest' \in Seq(Nat)
      BY <2>1, <3>5, <3>6, ConcatProperties
    <3>8. NextOrdinal' = after
      <4>1. CASE after = 0
        <5>1. restOver'
          BY <3>6, <4>1
        <5>. QED
          BY <4>1, <5>1 DEF NextOrdinal
      <4>2. CASE after # 0
        <5>1. ~restOver' /\ restCursor' = after
          BY <3>6, <4>2
        <5>. QED
          BY <4>2, <5>1 DEF NextOrdinal
      <4>. QED
        BY <4>1, <4>2
    <3>9. Unbroken(rest', NextOrdinal', have)
      BY <3>2, <3>5, <3>6, <3>8
    <3>. QED
      BY <2>0, <3>1, <3>2, <3>6, <3>7, <3>9 DEF TextFits
  <2>15. CASE UNCHANGED readerVars
    <3>1. UNCHANGED <<passagesStored, onPage, readable, readerWalk>>
      BY <2>15 DEF readerVars, readerWorld
    <3>. QED
      BY <2>0, <2>a, <3>1
  <2>. QED
    BY <1>2, <2>3, <2>5, <2>6, <2>7, <2>8, <2>9, <2>10, <2>11, <2>12, <2>13, <2>14, <2>15 DEF ReaderNext
<1>3. ASSUME TextFits PROVE TextIsUnbroken
  <2> DEFINE have == readable["reader"].data
             text == PassagesFrom(1, have) \o rest
  <2>1. have \in Nat
    <3>1. readable["reader"] \in ViewOf({0, Passages})
      BY <1>3 DEF TextFits, ReaderQuery
    <3>. QED
      BY <1>0, <3>1 DEF ViewOf
  <2>2. PICK m \in 0..have : text = UpTo(m) /\ (m < have => NextOrdinal = m + 1) /\ (m = have => NextOrdinal = 0)
    BY <1>3 DEF TextFits, Unbroken
  <2> HIDE DEF have, text
  <2>3. Len(UpTo(m)) = m
    <3>1. UpTo(m) \in [1..m -> Nat]
      BY DEF UpTo
    <3>. QED
      BY <2>1, <2>2, <3>1
  <2>4. text = [i \in 1..Len(text) |-> i] /\ Len(text) <= have /\ ((NextOrdinal # 0) = (Len(text) < have))
    BY <2>1, <2>2, <2>3 DEF UpTo
  <2>. QED
    BY <2>4 DEF TextIsUnbroken, text, have
<1>. QED
  BY <1>1, <1>2, <1>3, PTL DEF ReaderSpec

-----------------------------------------------------------------------------
(* The thread of the copilot and its list of conversations. *)

(* Later means larger. *)
Increasing(s) == \A i, j \in 1..Len(s) : i < j => s[i] < s[j]

(* What the filter has made of the first elements. *)
LEMMA FilterExists ==
  ASSUME NEW s \in Seq(Nat), NEW S
  PROVE  \E f : f = [i \in 0..Len(s) |->
                       IF i = 0 THEN <<>>
                       ELSE IF s[i] \in S THEN f[i - 1] ELSE Append(f[i - 1], s[i])]
<1> DEFINE Upto(n, f) == f = [i \in 0..n |->
                       IF i = 0 THEN <<>>
                       ELSE IF s[i] \in S THEN f[i - 1] ELSE Append(f[i - 1], s[i])]
           Without == {n \in Nat : ~ \E f : Upto(n, f)}
<1>1. Without = {}
  <2> SUFFICES ASSUME Without # {} PROVE FALSE
    OBVIOUS
  <2>1. PICK n \in Without : \A m \in Without : n <= m
    BY LeastNatural
  <2>2. n \in Nat /\ ~ \E f : Upto(n, f)
    BY <2>1
  <2>3. n # 0
    <3> SUFFICES ASSUME n = 0 PROVE FALSE
      OBVIOUS
    <3> DEFINE f == [i \in 0..0 |-> <<>>]
    <3>1. f = [i \in 0..0 |-> IF i = 0 THEN <<>>
                       ELSE IF s[i] \in S THEN f[i - 1] ELSE Append(f[i - 1], s[i])]
      OBVIOUS
    <3>. QED
      BY <2>2, <3>1
  <2>4. PICK f : Upto(n - 1, f)
    <3>1. n - 1 \in Nat /\ ~(n <= n - 1)
      BY <2>2, <2>3
    <3>. QED
      BY <2>1, <3>1
  <2> DEFINE g == [i \in 0..n |-> IF i = n THEN IF s[n] \in S THEN f[n - 1] ELSE Append(f[n - 1], s[n])
                                  ELSE f[i]]
  <2>5. \A i \in 0..(n - 1) : g[i] = f[i]
    BY <2>2, <2>3
  <2>6. ASSUME NEW i \in 0..n
        PROVE  g[i] = IF i = 0 THEN <<>> ELSE IF s[i] \in S THEN g[i - 1] ELSE Append(g[i - 1], s[i])
    <3>1. CASE i = n
      <4>1. g[i] = IF s[n] \in S THEN f[n - 1] ELSE Append(f[n - 1], s[n])
        BY <3>1, <2>2
      <4>2. g[i - 1] = f[n - 1] /\ i # 0
        BY <2>5, <2>2, <2>3, <3>1
      <4>. QED
        BY <4>1, <4>2, <3>1
    <3>2. CASE i # n
      <4>1. i \in 0..(n - 1) /\ g[i] = f[i]
        BY <2>5, <2>2, <3>2
      <4>2. f[i] = IF i = 0 THEN <<>> ELSE IF s[i] \in S THEN f[i - 1] ELSE Append(f[i - 1], s[i])
        BY <2>4, <4>1
      <4>3. i # 0 => g[i - 1] = f[i - 1]
        BY <2>5, <4>1, <2>2
      <4> HIDE DEF g
      <4>. QED
        BY <4>1, <4>2, <4>3
    <3>. QED
      BY <3>1, <3>2
  <2> DEFINE e(i) == IF i = 0 THEN <<>> ELSE IF s[i] \in S THEN g[i - 1] ELSE Append(g[i - 1], s[i])
  <2>7. g = [i \in 0..n |-> g[i]]
    OBVIOUS
  <2>8. Upto(n, g)
    <3> HIDE DEF g
    <3>. QED
      BY <2>6, <2>7
  <2>. QED
    BY <2>2, <2>8
<1>2. Len(s) \in Nat
  BY LenProperties
<1>. QED
  BY <1>1, <1>2

(* What Outside leaves of a sequence: elements of it, all that are not in the set; and *)
(* of an increasing one, in increasing order.                                          *)
LEMMA OutsideIs ==
  ASSUME NEW s \in Seq(Nat), NEW S
  PROVE  /\ Outside(s, S) \in Seq(Nat)
         /\ \A k \in 1..Len(Outside(s, S)) :
              Outside(s, S)[k] \notin S /\ \E i \in 1..Len(s) : s[i] = Outside(s, S)[k]
         /\ \A i \in 1..Len(s) :
              s[i] \notin S => \E k \in 1..Len(Outside(s, S)) : Outside(s, S)[k] = s[i]
         /\ Increasing(s) => Increasing(Outside(s, S))
<1> DEFINE Fills(f) == f = [i \in 0..Len(s) |->
                       IF i = 0 THEN <<>>
                       ELSE IF s[i] \in S THEN f[i - 1] ELSE Append(f[i - 1], s[i])]
           left == CHOOSE f : Fills(f)
<1>a. \E f : Fills(f)
  BY FilterExists
<1>b. Fills(left)
  <2> HIDE DEF Fills
  <2>. QED
    BY <1>a
<1>1. left = [i \in 0..Len(s) |->
                IF i = 0 THEN <<>>
                ELSE IF s[i] \in S THEN left[i - 1] ELSE Append(left[i - 1], s[i])]
  BY <1>b
<1>2. Outside(s, S) = left[Len(s)]
  BY DEF Outside
<1> HIDE DEF left, Fills
<1> DEFINE Fits(n) ==
             /\ left[n] \in Seq(Nat)
             /\ \A k \in 1..Len(left[n]) : left[n][k] \notin S /\ \E i \in 1..n : s[i] = left[n][k]
             /\ \A i \in 1..n : s[i] \notin S => \E k \in 1..Len(left[n]) : left[n][k] = s[i]
             /\ Increasing(s) => Increasing(left[n])
           Unfit == {n \in 0..Len(s) : ~Fits(n)}
<1>0. Len(s) \in Nat
  BY LenProperties
<1>3. left[0] = <<>>
  BY <1>1, <1>0
<1>4. Fits(0)
  BY <1>3, EmptySeq DEF Increasing
<1>5. ASSUME NEW n \in 1..Len(s), Fits(n - 1) PROVE Fits(n)
  <2> DEFINE w == left[n - 1]
  <2>1. left[n] = IF s[n] \in S THEN w ELSE Append(w, s[n])
    <3>1. n \in 0..Len(s) /\ n # 0
      BY <1>0
    <3>. QED
      BY <1>1, <3>1
  <2>2. w \in Seq(Nat) /\ s[n] \in Nat /\ n - 1 \in Nat
    BY <1>0, <1>5, ElementOfSeq
  <2>3. \A k \in 1..Len(w) : w[k] \notin S /\ \E i \in 1..(n - 1) : s[i] = w[k]
    BY <1>5
  <2>4. Increasing(s) => Increasing(w)
    BY <1>5
  <2>5. \A i \in 1..(n - 1) : i \in 1..n /\ i \in 1..Len(s)
    BY <1>0
  <2>a. \A i \in 1..(n - 1) : s[i] \notin S => \E k \in 1..Len(w) : w[k] = s[i]
    BY <1>5
  <2>b. \A i \in 1..n : i = n \/ i \in 1..(n - 1)
    BY <1>0
  <2> HIDE DEF w
  <2>6. CASE s[n] \in S
    <3>1. left[n] = w
      BY <2>1, <2>6
    <3>2. \A i \in 1..n : s[i] \notin S => \E k \in 1..Len(w) : w[k] = s[i]
      BY <2>a, <2>b, <2>6
    <3>3. \A k \in 1..Len(w) : w[k] \notin S /\ \E i \in 1..n : s[i] = w[k]
      BY <2>3, <2>5
    <3>. QED
      BY <2>2, <2>4, <3>1, <3>2, <3>3
  <2>7. CASE s[n] \notin S
    <3> DEFINE v == Append(w, s[n])
    <3>1. v \in Seq(Nat) /\ Len(v) = Len(w) + 1 /\ Len(w) \in Nat
      BY <2>2, AppendProperties, LenProperties
    <3>2. v[Len(w) + 1] = s[n] /\ \A k \in 1..Len(w) : v[k] = w[k]
      BY <2>2, AppendProperties
    <3>3. left[n] = v
      BY <2>1, <2>7
    <3> HIDE DEF v
    <3>4. ASSUME NEW k \in 1..Len(v) PROVE v[k] \notin S /\ \E i \in 1..n : s[i] = v[k]
      <4>1. CASE k = Len(w) + 1
        BY <2>2, <2>7, <3>2, <4>1
      <4>2. CASE k # Len(w) + 1
        <5>1. k \in 1..Len(w) /\ v[k] = w[k]
          BY <3>1, <3>2, <4>2
        <5>. QED
          BY <5>1, <2>3, <2>5
      <4>. QED
        BY <4>1, <4>2
    <3>5. ASSUME Increasing(s) PROVE Increasing(v)
      <4> SUFFICES ASSUME NEW i \in 1..Len(v), NEW j \in 1..Len(v), i < j PROVE v[i] < v[j]
        BY DEF Increasing
      <4>1. i \in 1..Len(w) /\ v[i] = w[i]
        BY <3>1, <3>2
      <4>2. CASE j = Len(w) + 1
        <5>1. PICK m \in 1..(n - 1) : s[m] = w[i]
          BY <2>3, <4>1
        <5>2. m \in 1..Len(s) /\ m < n
          BY <2>5, <5>1, <2>2
        <5>3. s[m] < s[n]
          BY <3>5, <5>2, <1>0 DEF Increasing
        <5>. QED
          BY <4>1, <4>2, <5>1, <5>3, <3>2
      <4>3. CASE j # Len(w) + 1
        <5>a. j \in Nat /\ 1 <= j /\ j <= Len(w) + 1 /\ Len(w) \in Nat
          BY <3>1
        <5>0. j \in 1..Len(w)
          BY <5>a, <4>3
        <5>1. j \in 1..Len(w) /\ v[j] = w[j]
          BY <5>0, <3>2
        <5>2. w[i] < w[j]
          BY <2>4, <3>5, <4>1, <5>1 DEF Increasing
        <5>. QED
          BY <4>1, <5>1, <5>2
      <4>. QED
        BY <4>2, <4>3
    <3>6. ASSUME NEW i \in 1..n, s[i] \notin S PROVE \E k \in 1..Len(v) : v[k] = s[i]
      <4>1. CASE i = n
        <5>1. Len(w) + 1 \in 1..Len(v)
          BY <3>1
        <5>. QED
          BY <3>2, <4>1, <5>1
      <4>2. CASE i # n
        <5>1. PICK k \in 1..Len(w) : w[k] = s[i]
          BY <2>a, <2>b, <3>6, <4>2
        <5>2. k \in 1..Len(v) /\ v[k] = s[i]
          BY <3>1, <3>2, <5>1
        <5>. QED
          BY <5>2
      <4>. QED
        BY <4>1, <4>2
    <3>. QED
      BY <3>1, <3>3, <3>4, <3>5, <3>6
  <2>. QED
    BY <2>6, <2>7
<1> HIDE DEF Fits
<1>6. Unfit = {}
  <2> SUFFICES ASSUME Unfit # {} PROVE FALSE
    OBVIOUS
  <2>1. Unfit \subseteq Nat
    BY <1>0
  <2>2. PICK n \in Unfit : \A m \in Unfit : n <= m
    BY <2>1, LeastNatural
  <2>3. n \in 0..Len(s) /\ ~Fits(n) /\ n # 0
    BY <1>4, <2>2
  <2>4. n - 1 \in 0..Len(s) /\ ~(n <= n - 1) /\ n \in 1..Len(s)
    BY <1>0, <2>3
  <2>5. Fits(n - 1)
    BY <2>2, <2>4
  <2>. QED
    BY <1>5, <2>3, <2>4, <2>5
<1>7. Fits(Len(s))
  BY <1>0, <1>6
<1>. QED
  BY <1>2, <1>7 DEF Fits

(* One sequence begins another. *)
StartsOf(p, s) == Len(p) <= Len(s) /\ \A i \in 1..Len(p) : p[i] = s[i]

(* What begins a sequence begins it still when it has grown. *)
LEMMA LongerStarts ==
  ASSUME NEW p \in Seq(Nat), NEW s \in Seq(Nat), NEW e \in Nat, StartsOf(p, s)
  PROVE  StartsOf(p, Append(s, e))
<1>1. Len(p) \in Nat /\ Len(s) \in Nat
  BY LenProperties
<1>2. Len(Append(s, e)) = Len(s) + 1 /\ \A i \in 1..Len(s) : Append(s, e)[i] = s[i]
  BY AppendProperties
<1>3. ASSUME NEW i \in 1..Len(p) PROVE p[i] = Append(s, e)[i]
  <2>1. i \in 1..Len(s)
    BY <1>1 DEF StartsOf
  <2>. QED
    BY <2>1, <1>2 DEF StartsOf
<1>4. Len(p) <= Len(Append(s, e))
  BY <1>1, <1>2 DEF StartsOf
<1>. QED
  BY <1>3, <1>4 DEF StartsOf

(* The sorts of the thread's state. *)
CopilotTyped ==
    /\ turns \in [Conv -> Seq(Nat)] /\ detail \in [Conv -> Seq(Nat)]
    /\ selected \in 0..Convs
    /\ local.conv \in 0..Convs /\ local.turns \in Seq(Nat)
    /\ reading.conv \in 0..Convs /\ reading.turns \in Seq(Nat)
    /\ ask \in [turn : Nat, conv : 0..Convs, stage : {"idle", "asked", "answered"}]
    /\ asks \in Nat

(* What the server keeps of a conversation was asked in that order, before the question *)
(* now under way.                                                                       *)
TurnsFit == \A c \in Conv :
    /\ Increasing(turns[c])
    /\ \A i \in 1..Len(turns[c]) :
         turns[c][i] <= asks /\ (ask.stage = "asked" => turns[c][i] < ask.turn)

(* The question under way is one that was asked, and once answered it is kept. *)
AskFits ==
    /\ ask.stage # "idle" => ask.turn <= asks
    /\ ask.stage = "answered" =>
         ask.conv \in Conv /\ \E i \in 1..Len(turns[ask.conv]) : turns[ask.conv][i] = ask.turn

(* What the page has read of a conversation, or is about to, is how it began. *)
ReadsFit ==
    /\ \A c \in Conv : StartsOf(detail[c], turns[c])
    /\ reading.conv # NoConv => StartsOf(reading.turns, turns[reading.conv])

(* The answers shown before they were read again are the conversation's, in order, and *)
(* older than the question under way.                                                  *)
LocalFits ==
    /\ Increasing(local.turns)
    /\ \A i \in 1..Len(local.turns) :
         /\ local.turns[i] <= asks
         /\ ask.stage # "idle" => local.turns[i] < ask.turn
         /\ local.conv # NoConv => \E k \in 1..Len(turns[local.conv]) : turns[local.conv][k] = local.turns[i]

(* The inductive invariant of the thread. *)
ThreadFits == CopilotTyped /\ TurnsFit /\ AskFits /\ ReadsFit /\ LocalFits

(* The thread begins fit. *)
LEMMA ThreadInit == CopilotInit => ThreadFits
<1> SUFFICES ASSUME CopilotInit PROVE ThreadFits
  OBVIOUS
<1>0. Convs \in Nat /\ 0 \in 0..Convs
  BY CopilotAssumption
<1>1. <<>> \in Seq(Nat) /\ Len(<<>>) = 0
  BY EmptySeq
<1>2. CopilotTyped
  BY <1>0, <1>1 DEF CopilotInit, CopilotTyped, NotAsking, NoConv
<1>3. TurnsFit
  BY <1>1 DEF CopilotInit, TurnsFit, Increasing
<1>4. AskFits
  BY DEF CopilotInit, AskFits, NotAsking
<1>5. ReadsFit
  BY <1>1 DEF CopilotInit, ReadsFit, StartsOf
<1>6. LocalFits
  BY <1>1 DEF CopilotInit, LocalFits, Increasing
<1>. QED
  BY <1>2, <1>3, <1>4, <1>5, <1>6 DEF ThreadFits

(* A question is the newest there is. *)
LEMMA ThreadAsks == ThreadFits /\ CopilotAsks => ThreadFits'
<1> SUFFICES ASSUME ThreadFits, CopilotAsks PROVE ThreadFits'
  OBVIOUS
<1>1. CopilotTyped'
  BY DEF ThreadFits, CopilotTyped, CopilotAsks, storeVars
<1>2. asks \in Nat /\ asks' = asks + 1 /\ ask'.turn = asks + 1 /\ ask'.stage = "asked" /\ ask.stage = "idle"
  BY DEF ThreadFits, CopilotTyped, CopilotAsks
<1>3. turns' = turns /\ detail' = detail /\ reading' = reading /\ local' = local
  BY DEF CopilotAsks, storeVars
<1>4. TurnsFit'
  <2> SUFFICES ASSUME NEW c \in Conv, NEW i \in 1..Len(turns[c])
               PROVE  turns[c][i] <= asks + 1 /\ turns[c][i] < asks + 1
    BY <1>2, <1>3 DEF TurnsFit, ThreadFits
  <2>1. turns[c][i] \in Nat
    BY ElementOfSeq DEF ThreadFits, CopilotTyped
  <2>2. turns[c][i] <= asks
    BY DEF ThreadFits, TurnsFit
  <2>. QED
    BY <2>1, <2>2, <1>2
<1>5. AskFits'
  BY <1>2 DEF AskFits
<1>6. ReadsFit'
  BY <1>3 DEF ThreadFits, ReadsFit
<1>7. LocalFits'
  <2>1. ASSUME NEW i \in 1..Len(local.turns)
        PROVE  local.turns[i] <= asks + 1 /\ local.turns[i] < asks + 1
    <3>1. local.turns[i] \in Nat
      BY ElementOfSeq DEF ThreadFits, CopilotTyped
    <3>2. local.turns[i] <= asks
      BY DEF ThreadFits, LocalFits
    <3>. QED
      BY <3>1, <3>2, <1>2
  <2>. QED
    BY <2>1, <1>2, <1>3 DEF ThreadFits, LocalFits
<1>. QED
  BY <1>1, <1>4, <1>5, <1>6, <1>7 DEF ThreadFits

(* The server keeps the question at the end of its conversation, and of no other. *)
LEMMA ThreadKept == ThreadFits /\ AskKept => ThreadFits'
<1> SUFFICES ASSUME ThreadFits, AskKept PROVE ThreadFits'
  OBVIOUS
<1>0. Convs \in Nat /\ Conv \subseteq 0..Convs
  BY CopilotAssumption DEF Conv
<1>1. PICK c \in Conv : /\ turns' = [turns EXCEPT ![c] = Append(@, ask.turn)]
                        /\ ask' \in {NotAsking, [turn |-> ask.turn, conv |-> c, stage |-> "answered"]}
  BY DEF AskKept, LiveConvs
<1>2. detail' = detail /\ reading' = reading /\ local' = local /\ selected' = selected /\ asks' = asks
  BY DEF AskKept
<1>3. ask.stage = "asked" /\ ask.turn \in Nat /\ ask.turn <= asks /\ asks \in Nat
  BY DEF AskKept, ThreadFits, CopilotTyped, AskFits
<1>4. turns[c] \in Seq(Nat) /\ Len(turns[c]) \in Nat
  BY LenProperties DEF ThreadFits, CopilotTyped
<1> DEFINE v == Append(turns[c], ask.turn)
<1>5. /\ v \in Seq(Nat) /\ Len(v) = Len(turns[c]) + 1
      /\ v[Len(turns[c]) + 1] = ask.turn /\ \A i \in 1..Len(turns[c]) : v[i] = turns[c][i]
  BY <1>3, <1>4, AppendProperties
<1>6. turns'[c] = v /\ \A d \in Conv : d # c => turns'[d] = turns[d]
  BY <1>1 DEF ThreadFits, CopilotTyped
<1>7. \A d \in Conv, p \in Seq(Nat) : StartsOf(p, turns[d]) => StartsOf(p, turns'[d])
  BY <1>3, <1>4, <1>6, LongerStarts
<1> DEFINE Answered == [turn |-> ask.turn, conv |-> c, stage |-> "answered"]
<1>s. ask' = NotAsking \/ ask' = Answered
  BY <1>1
<1>8. ask'.stage \in {"idle", "answered"}
  BY <1>s DEF NotAsking
<1>9. ask'.stage = "answered" => ask'.conv = c /\ ask'.turn = ask.turn
  BY <1>s DEF NotAsking
<1>a. CopilotTyped'
  <2>1. turns' \in [Conv -> Seq(Nat)]
    BY <1>1, <1>5 DEF ThreadFits, CopilotTyped
  <2>2. ask' \in [turn : Nat, conv : 0..Convs, stage : {"idle", "asked", "answered"}]
    <3>1. NotAsking \in [turn : Nat, conv : 0..Convs, stage : {"idle", "asked", "answered"}]
      BY <1>0 DEF NotAsking, NoConv
    <3>2. Answered \in [turn : Nat, conv : 0..Convs, stage : {"idle", "asked", "answered"}]
      BY <1>0, <1>3
    <3>. QED
      BY <1>s, <3>1, <3>2
  <2>. QED
    BY <1>2, <2>1, <2>2 DEF ThreadFits, CopilotTyped
<1> HIDE DEF v
<1>b. TurnsFit'
  <2> SUFFICES ASSUME NEW d \in Conv
               PROVE  Increasing(turns'[d]) /\ \A i \in 1..Len(turns'[d]) : turns'[d][i] <= asks
    BY <1>2, <1>8 DEF TurnsFit
  <2>1. CASE d # c
    BY <1>6, <2>1 DEF ThreadFits, TurnsFit
  <2>2. CASE d = c
    <3>1. Increasing(turns[c]) /\ \A i \in 1..Len(turns[c]) : turns[c][i] < ask.turn /\ turns[c][i] <= asks
      BY <1>3 DEF ThreadFits, TurnsFit
    <3>2. \A i \in 1..Len(v) : i # Len(turns[c]) + 1 => i \in 1..Len(turns[c])
      BY <1>4, <1>5
    <3>3. \A i \in 1..Len(v) : v[i] <= asks
      BY <1>3, <1>5, <3>1, <3>2
    <3>4. ASSUME NEW i \in 1..Len(v), NEW j \in 1..Len(v), i < j PROVE v[i] < v[j]
      <4>1. i \in 1..Len(turns[c])
        BY <1>4, <1>5, <3>4
      <4>2. CASE j = Len(turns[c]) + 1
        BY <1>5, <3>1, <4>1, <4>2
      <4>3. CASE j # Len(turns[c]) + 1
        BY <1>5, <3>1, <3>2, <3>4, <4>1, <4>3 DEF Increasing
      <4>. QED
        BY <4>2, <4>3
    <3>. QED
      BY <1>6, <2>2, <3>3, <3>4 DEF Increasing
  <2>. QED
    BY <2>1, <2>2
<1>c. AskFits'
  <2>1. Len(v) \in 1..Len(v) /\ v[Len(v)] = ask.turn
    BY <1>4, <1>5
  <2>2. ASSUME ask'.stage = "answered"
        PROVE  ask'.conv = c /\ Len(v) \in 1..Len(turns'[c]) /\ turns'[c][Len(v)] = ask'.turn
    BY <1>6, <1>9, <2>1, <2>2
  <2>3. ask'.stage # "idle" => ask'.turn <= asks'
    BY <1>2, <1>3, <1>8, <1>9
  <2>. QED
    BY <2>2, <2>3 DEF AskFits
<1>d. ReadsFit'
  <2>1. ASSUME NEW d \in Conv PROVE StartsOf(detail[d], turns'[d])
    BY <1>7 DEF ThreadFits, ReadsFit, CopilotTyped
  <2>2. ASSUME reading.conv # NoConv PROVE StartsOf(reading.turns, turns'[reading.conv])
    <3>1. reading.conv \in Conv /\ reading.turns \in Seq(Nat)
      BY <2>2 DEF ThreadFits, CopilotTyped, Conv, NoConv
    <3>. QED
      BY <1>7, <2>2, <3>1 DEF ThreadFits, ReadsFit
  <2>. QED
    BY <1>2, <2>1, <2>2 DEF ReadsFit
<1>e. LocalFits'
  <2> SUFFICES ASSUME NEW i \in 1..Len(local.turns)
               PROVE  /\ ask'.stage # "idle" => local.turns[i] < ask'.turn
                      /\ local.conv # NoConv =>
                           \E k \in 1..Len(turns'[local.conv]) : turns'[local.conv][k] = local.turns[i]
    BY <1>2 DEF ThreadFits, LocalFits
  <2>1. ask'.stage # "idle" => local.turns[i] < ask'.turn
    BY <1>3, <1>8, <1>9 DEF ThreadFits, LocalFits
  <2>2. ASSUME local.conv # NoConv
        PROVE  \E k \in 1..Len(turns'[local.conv]) : turns'[local.conv][k] = local.turns[i]
    <3>1. PICK k \in 1..Len(turns[local.conv]) : turns[local.conv][k] = local.turns[i]
      BY <2>2 DEF ThreadFits, LocalFits
    <3>2. local.conv \in Conv
      BY <2>2 DEF ThreadFits, CopilotTyped, Conv, NoConv
    <3>3. CASE local.conv = c
      <4>1. k \in 1..Len(v) /\ v[k] = turns[c][k]
        BY <1>4, <1>5, <3>1, <3>3
      <4>. QED
        BY <1>6, <3>1, <3>3, <4>1
    <3>4. CASE local.conv # c
      BY <1>6, <3>1, <3>2, <3>4
    <3>. QED
      BY <3>3, <3>4
  <2>. QED
    BY <2>1, <2>2
<1>. QED
  BY <1>a, <1>b, <1>c, <1>d, <1>e DEF ThreadFits

(* An answer joins those of its own conversation, or is not shown. *)
LEMMA ThreadShown == ThreadFits /\ AnswerShown => ThreadFits'
<1> SUFFICES ASSUME ThreadFits, AnswerShown PROVE ThreadFits'
  OBVIOUS
<1>1. /\ turns' = turns /\ detail' = detail /\ asks' = asks /\ ask' = NotAsking
      /\ reading' = [conv |-> NoConv, turns |-> <<>>] /\ selected' = ask.conv /\ local' = WithTurn
  BY DEF AnswerShown, storeVars
<1>2. ask.stage = "answered" /\ ask.turn \in Nat /\ ask.conv \in Conv /\ ask.turn <= asks
  BY DEF AnswerShown, ThreadFits, CopilotTyped, AskFits
<1>3. Convs \in Nat /\ Conv \subseteq 0..Convs
  BY CopilotAssumption DEF Conv
<1> DEFINE l == IF local.conv = ask.conv THEN Append(local.turns, ask.turn) ELSE <<ask.turn>>
           old == IF local.conv = ask.conv THEN local.turns ELSE <<>>
<1>4. local'.conv = ask.conv /\ local'.turns = l
  BY <1>1 DEF WithTurn
<1>5. old \in Seq(Nat) /\ l = Append(old, ask.turn)
  <2>1. <<>> \in Seq(Nat) /\ Append(<<>>, ask.turn) = <<ask.turn>>
    BY <1>2, EmptySeq
  <2>. QED
    BY <2>1 DEF ThreadFits, CopilotTyped
<1>6. Increasing(old) /\ \A i \in 1..Len(old) : /\ old[i] < ask.turn /\ old[i] <= asks
                                               /\ \E k \in 1..Len(turns[ask.conv]) : turns[ask.conv][k] = old[i]
  <2>1. CASE local.conv = ask.conv
    BY <1>2, <2>1 DEF ThreadFits, LocalFits, Conv, NoConv
  <2>2. CASE local.conv # ask.conv
    BY EmptySeq, <2>2 DEF Increasing
  <2>. QED
    BY <2>1, <2>2
<1> HIDE DEF old, l
<1>7. /\ l \in Seq(Nat) /\ Len(l) = Len(old) + 1 /\ Len(old) \in Nat
      /\ l[Len(old) + 1] = ask.turn /\ \A i \in 1..Len(old) : l[i] = old[i]
  BY <1>2, <1>5, AppendProperties, LenProperties
<1>8. \A i \in 1..Len(l) : i # Len(old) + 1 => i \in 1..Len(old)
  BY <1>7
<1>9. CopilotTyped'
  <2>1. <<>> \in Seq(Nat) /\ 0 \in 0..Convs
    BY <1>3, EmptySeq
  <2>. QED
    BY <1>1, <1>2, <1>3, <1>4, <1>7, <2>1 DEF ThreadFits, CopilotTyped, NotAsking, NoConv
<1>a. TurnsFit'
  BY <1>1 DEF ThreadFits, TurnsFit, NotAsking
<1>b. AskFits'
  BY <1>1 DEF AskFits, NotAsking
<1>c. ReadsFit'
  BY <1>1 DEF ThreadFits, ReadsFit
<1>d. LocalFits'
  <2>1. ask'.stage = "idle" /\ \E k \in 1..Len(turns[ask.conv]) : turns[ask.conv][k] = ask.turn
    BY <1>1, <1>2 DEF NotAsking, ThreadFits, AskFits
  <2>2. ASSUME NEW i \in 1..Len(l), NEW j \in 1..Len(l), i < j PROVE l[i] < l[j]
    <3>1. i \in 1..Len(old)
      BY <1>7, <2>2
    <3>2. CASE j = Len(old) + 1
      BY <1>6, <1>7, <3>1, <3>2
    <3>3. CASE j # Len(old) + 1
      BY <1>6, <1>7, <1>8, <2>2, <3>1, <3>3 DEF Increasing
    <3>. QED
      BY <3>2, <3>3
  <2>3. \A i \in 1..Len(l) : l[i] <= asks /\ \E k \in 1..Len(turns[ask.conv]) : turns[ask.conv][k] = l[i]
    BY <1>2, <1>6, <1>7, <1>8, <2>1
  <2>. QED
    BY <1>1, <1>4, <2>1, <2>2, <2>3 DEF LocalFits, Increasing
<1>. QED
  BY <1>9, <1>a, <1>b, <1>c, <1>d DEF ThreadFits

(* A step that leaves what is kept and read alone, and at most drops the question or *)
(* the answers shown, keeps the thread fit.                                          *)
LEMMA ThreadLeft ==
  ASSUME ThreadFits, UNCHANGED <<turns, detail, reading, asks>>,
         ask' = ask \/ ask' = NotAsking,
         local' = local \/ local' = NoLocal, selected' \in 0..Convs
  PROVE  ThreadFits'
<1>0. Convs \in Nat /\ <<>> \in Seq(Nat) /\ 0 \in 0..Convs /\ Len(<<>>) = 0
  BY CopilotAssumption, EmptySeq
<1>1. CopilotTyped'
  <2>1. ask' \in [turn : Nat, conv : 0..Convs, stage : {"idle", "asked", "answered"}]
    BY <1>0 DEF ThreadFits, CopilotTyped, NotAsking, NoConv
  <2>2. local'.conv \in 0..Convs /\ local'.turns \in Seq(Nat)
    <3>1. CASE local' = local
      BY <3>1 DEF ThreadFits, CopilotTyped
    <3>2. CASE local' = NoLocal
      BY <1>0, <3>2 DEF NoLocal, NoConv
    <3>. QED
      BY <3>1, <3>2
  <2>. QED
    BY <2>1, <2>2 DEF ThreadFits, CopilotTyped
<1>2. TurnsFit'
  BY DEF ThreadFits, TurnsFit, NotAsking
<1>3. AskFits'
  BY DEF ThreadFits, AskFits, NotAsking
<1>4. ReadsFit'
  BY DEF ThreadFits, ReadsFit
<1>5. LocalFits'
  <2>1. CASE local' = local
    BY <2>1 DEF ThreadFits, LocalFits, NotAsking
  <2>2. CASE local' = NoLocal
    BY <1>0, <2>2 DEF LocalFits, NoLocal, Increasing
  <2>. QED
    BY <2>1, <2>2
<1>. QED
  BY <1>1, <1>2, <1>3, <1>4, <1>5 DEF ThreadFits

(* A read asked, or one that arrives, shows how the conversation began. *)
LEMMA ThreadReads == ThreadFits /\ (ConvReads \/ ConvArrives) => ThreadFits'
<1> SUFFICES ASSUME ThreadFits, ConvReads \/ ConvArrives PROVE ThreadFits'
  OBVIOUS
<1>1. turns' = turns /\ selected' = selected /\ local' = local /\ ask' = ask /\ asks' = asks
  BY DEF ConvReads, ConvArrives, storeVars
<1>2. Convs \in Nat /\ Conv \subseteq 0..Convs /\ <<>> \in Seq(Nat) /\ 0 \in 0..Convs
  BY CopilotAssumption, EmptySeq DEF Conv
<1>3. CASE ConvReads
  <2>1. /\ detail' = detail /\ selected \in Conv
        /\ reading'.conv = selected /\ reading'.turns = turns[selected]
    BY <1>3 DEF ConvReads, LiveConvs
  <2>2. turns[selected] \in Seq(Nat)
    BY <2>1 DEF ThreadFits, CopilotTyped
  <2>3. CopilotTyped'
    BY <1>1, <1>2, <2>1, <2>2 DEF ThreadFits, CopilotTyped
  <2>4. StartsOf(turns[selected], turns[selected])
    BY <2>2, LenProperties DEF StartsOf
  <2>5. ReadsFit'
    BY <1>1, <2>1, <2>4 DEF ThreadFits, ReadsFit
  <2>. QED
    BY <1>1, <2>3, <2>5 DEF ThreadFits, TurnsFit, AskFits, LocalFits
<1>4. CASE ConvArrives
  <2>1. /\ reading.conv # NoConv /\ detail' = [detail EXCEPT ![reading.conv] = reading.turns]
        /\ reading'.conv = NoConv /\ reading'.turns = <<>>
    BY <1>4 DEF ConvArrives
  <2>2. reading.conv \in Conv /\ reading.turns \in Seq(Nat)
    BY <2>1 DEF ThreadFits, CopilotTyped, Conv, NoConv
  <2>3. CopilotTyped'
    BY <1>1, <1>2, <2>1, <2>2 DEF ThreadFits, CopilotTyped, NoConv
  <2>4. ReadsFit'
    BY <1>1, <2>1, <2>2 DEF ThreadFits, ReadsFit, CopilotTyped
  <2>. QED
    BY <1>1, <2>3, <2>4 DEF ThreadFits, TurnsFit, AskFits, LocalFits
<1>. QED
  BY <1>3, <1>4

(* No step disturbs the invariant of the thread. *)
LEMMA ThreadSteps == ThreadFits /\ [CopilotNext]_copilotVars => ThreadFits'
<1>1. ASSUME ThreadFits, [CopilotNext]_copilotVars PROVE ThreadFits'
  <2>0. Convs \in Nat /\ Conv \subseteq 0..Convs /\ 0 \in 0..Convs /\ selected \in 0..Convs
    BY <1>1, CopilotAssumption DEF Conv, ThreadFits, CopilotTyped
  <2>1. CASE CopilotAsks
    BY <1>1, <2>1, ThreadAsks
  <2>2. CASE AskKept
    BY <1>1, <2>2, ThreadKept
  <2>3. CASE AskRefused
    BY <1>1, <2>0, <2>3, ThreadLeft DEF AskRefused, storeVars
  <2>4. CASE AnswerShown
    BY <1>1, <2>4, ThreadShown
  <2>5. CASE StartNew
    BY <1>1, <2>0, <2>5, ThreadLeft DEF StartNew, storeVars, NoConv
  <2>6. CASE ConvReads \/ ConvArrives
    BY <1>1, <2>6, ThreadReads
  <2>7. CASE ListArrives \/ LoadOlder
    BY <1>1, <2>0, <2>7, ThreadLeft DEF ListArrives, LoadOlder, storeVars, threadVars
  <2>8. CASE OlderArrives
    BY <1>1, <2>0, <2>8, ThreadLeft DEF OlderArrives, storeVars, threadVars
  <2>9. ASSUME NEW c \in Conv, SelectConv(c) PROVE ThreadFits'
    BY <1>1, <2>0, <2>9, ThreadLeft DEF SelectConv, storeVars
  <2>10. ASSUME NEW c \in Conv, ArchiveConv(c) PROVE ThreadFits'
    BY <1>1, <2>0, <2>10, ThreadLeft DEF ArchiveConv, NoConv
  <2>11. CASE UNCHANGED copilotVars
    BY <1>1, <2>0, <2>11, ThreadLeft DEF copilotVars
  <2>. QED
    BY <1>1, <2>1, <2>2, <2>3, <2>4, <2>5, <2>6, <2>7, <2>8, <2>9, <2>10, <2>11 DEF CopilotNext
<1>. QED
  BY <1>1

(* Of every number of conversations and questions: however answers, reads and switches *)
(* of conversation interleave, the thread shows turns of the open conversation alone,  *)
(* each once and in order (kt-copilot.tsx).                                            *)
THEOREM ThreadStaysInOrder == CopilotSpec => []ThreadInOrder
<1>2. ASSUME ThreadFits PROVE ThreadInOrder
  <2>1. CASE selected = NoConv
    <3>1. ShownTurns = <<>> /\ Len(<<>>) = 0
      BY <2>1, EmptySeq DEF ShownTurns
    <3>. QED
      BY <3>1 DEF ThreadInOrder
  <2>2. CASE selected # NoConv
    <3> DEFINE d == detail[selected]
               t == turns[selected]
               o == OverlayTurns
    <3>0. selected \in Conv
      BY <1>2, <2>2 DEF ThreadFits, CopilotTyped, Conv, NoConv
    <3>1. d \in Seq(Nat) /\ t \in Seq(Nat) /\ Len(d) \in Nat /\ Len(t) \in Nat /\ StartsOf(d, t) /\ Increasing(t)
      BY <1>2, <3>0, LenProperties DEF ThreadFits, CopilotTyped, ReadsFit, TurnsFit
    <3>2. \A k \in 1..Len(t) : t[k] \in Nat
      BY <3>1, ElementOfSeq
    <3>3. o \in Seq(Nat) /\ Increasing(o) /\ \A k \in 1..Len(o) : o[k] \notin Range(d) /\ \E m \in 1..Len(t) : t[m] = o[k]
      <4>1. CASE local.conv = selected
        <5>1. o = Outside(local.turns, Range(d))
          BY <2>2, <4>1 DEF OverlayTurns
        <5>2. local.turns \in Seq(Nat) /\ Increasing(local.turns)
          BY <1>2 DEF ThreadFits, CopilotTyped, LocalFits
        <5>3. \A i \in 1..Len(local.turns) : \E m \in 1..Len(t) : t[m] = local.turns[i]
          BY <1>2, <2>2, <4>1 DEF ThreadFits, LocalFits
        <5> HIDE DEF o, d, t
        <5>4. o \in Seq(Nat) /\ Increasing(o)
          BY <5>1, <5>2, OutsideIs
        <5>5. \A k \in 1..Len(o) : o[k] \notin Range(d) /\ \E i \in 1..Len(local.turns) : local.turns[i] = o[k]
          BY <5>1, <5>2, OutsideIs
        <5>. QED
          BY <5>3, <5>4, <5>5
      <4>2. CASE local.conv # selected
        BY <4>2, EmptySeq DEF OverlayTurns, Increasing
      <4>. QED
        BY <4>1, <4>2
    <3>4. ShownTurns = d \o o
      BY <2>2 DEF ShownTurns
    <3>5. Range(d) = {d[i] : i \in 1..Len(d)} /\ Range(t) = {t[i] : i \in 1..Len(t)}
      BY <3>1 DEF Range
    <3> HIDE DEF d, o, t
    <3>6. /\ Len(d \o o) = Len(d) + Len(o) /\ Len(o) \in Nat
          /\ \A i \in 1..Len(d) + Len(o) : (d \o o)[i] = IF i <= Len(d) THEN d[i] ELSE o[i - Len(d)]
      BY <3>1, <3>3, ConcatProperties, LenProperties
    <3> DEFINE s == d \o o
    <3>7. \A i \in 1..Len(s) : i <= Len(d) => s[i] = d[i] /\ i \in 1..Len(d)
      BY <3>1, <3>6
    <3>8. \A i \in 1..Len(s) : ~(i <= Len(d)) => s[i] = o[i - Len(d)] /\ i - Len(d) \in 1..Len(o)
      BY <3>1, <3>6
    <3>9. \A i \in 1..Len(d) : d[i] = t[i] /\ i \in 1..Len(t)
      BY <3>1 DEF StartsOf
    <3>10. Len(s) \in Nat
      BY <3>1, <3>6
    <3> HIDE DEF s
    <3>11. ASSUME NEW i \in 1..Len(s) PROVE s[i] \in Range(t)
      <4>1. CASE i <= Len(d)
        BY <3>5, <3>7, <3>9, <4>1
      <4>2. CASE ~(i <= Len(d))
        <5>1. PICK m \in 1..Len(t) : t[m] = o[i - Len(d)]
          BY <3>3, <3>8, <4>2
        <5>. QED
          BY <3>5, <3>8, <4>2, <5>1
      <4>. QED
        BY <4>1, <4>2
    <3>12. ASSUME NEW i \in 1..Len(s), NEW j \in 1..Len(s), i < j PROVE s[i] < s[j]
      <4>1. CASE j <= Len(d)
        <5>1. i <= Len(d)
          BY <3>1, <3>10, <3>12, <4>1
        <5>. QED
          BY <3>1, <3>7, <3>9, <3>12, <4>1, <5>1 DEF Increasing
      <4>2. CASE i <= Len(d) /\ ~(j <= Len(d))
        <5>1. s[i] = t[i] /\ i \in 1..Len(d) /\ i \in 1..Len(t)
          BY <3>7, <3>9, <4>2
        <5>2. s[j] \notin Range(d) /\ \E m \in 1..Len(t) : t[m] = s[j]
          BY <3>3, <3>8, <4>2
        <5>3. PICK m \in 1..Len(t) : t[m] = s[j]
          BY <5>2
        <5>4. m \notin 1..Len(d)
          BY <3>5, <3>9, <5>2, <5>3
        <5>5. i < m
          BY <3>1, <5>1, <5>4
        <5>. QED
          BY <3>1, <5>1, <5>3, <5>5 DEF Increasing
      <4>3. CASE ~(i <= Len(d)) /\ ~(j <= Len(d))
        <5>1. s[i] = o[i - Len(d)] /\ i - Len(d) \in 1..Len(o) /\ s[j] = o[j - Len(d)] /\ j - Len(d) \in 1..Len(o)
          BY <3>8, <4>3
        <5>2. i - Len(d) < j - Len(d)
          BY <3>1, <3>10, <3>12
        <5>. QED
          BY <3>3, <5>1, <5>2 DEF Increasing
      <4>4. i \in Nat /\ j \in Nat
        BY <3>10
      <4>. QED
        BY <3>1, <3>12, <4>1, <4>2, <4>3, <4>4
    <3>13. ShownTurns = s
      BY <3>4 DEF s
    <3>. QED
      BY <3>11, <3>12, <3>13 DEF ThreadInOrder, t
  <2>. QED
    BY <2>1, <2>2
<1>. QED
  BY <1>2, ThreadInit, ThreadSteps, PTL DEF CopilotSpec

(* What is shown of a conversation: what was read of it, and the answers laid over it. *)
LEMMA OverlayIs ==
  ASSUME NEW d \in Seq(Nat), NEW l \in Seq(Nat)
  PROVE  Range(d \o Outside(l, Range(d))) = Range(d) \cup Range(l)
<1> DEFINE o == Outside(l, Range(d))
           s == d \o o
<1>1. /\ o \in Seq(Nat)
      /\ \A k \in 1..Len(o) : \E i \in 1..Len(l) : l[i] = o[k]
      /\ \A i \in 1..Len(l) : l[i] \notin Range(d) => \E k \in 1..Len(o) : o[k] = l[i]
  BY OutsideIs
<1> HIDE DEF o
<1>2. /\ Len(d) \in Nat /\ Len(l) \in Nat /\ Len(o) \in Nat /\ Len(s) = Len(d) + Len(o)
      /\ \A i \in 1..Len(d) + Len(o) : s[i] = IF i <= Len(d) THEN d[i] ELSE o[i - Len(d)]
  BY <1>1, ConcatProperties, LenProperties
<1>3. s \in Seq(Nat)
  BY <1>1, ConcatProperties
<1> HIDE DEF s
<1>4. /\ Range(d) = {d[i] : i \in 1..Len(d)} /\ Range(l) = {l[i] : i \in 1..Len(l)}
      /\ Range(s) = {s[i] : i \in 1..Len(s)}
  BY <1>3, LenProperties DEF Range
<1>5. ASSUME NEW i \in 1..Len(s) PROVE s[i] \in Range(d) \cup Range(l)
  <2>1. CASE i <= Len(d)
    <3>1. i \in 1..Len(d) /\ s[i] = d[i]
      BY <1>2, <2>1
    <3>. QED
      BY <1>4, <3>1
  <2>2. CASE ~(i <= Len(d))
    <3>0. i \in Nat /\ i - Len(d) \in 1..Len(o) /\ i \in 1..Len(d) + Len(o)
      BY <1>2, <2>2
    <3>1. i - Len(d) \in 1..Len(o) /\ s[i] = o[i - Len(d)]
      BY <1>2, <2>2, <3>0
    <3>2. PICK k \in 1..Len(l) : l[k] = o[i - Len(d)]
      BY <1>1, <3>1
    <3>. QED
      BY <1>4, <3>1, <3>2
  <2>. QED
    BY <2>1, <2>2
<1>6. ASSUME NEW i \in 1..Len(d) PROVE d[i] \in Range(s)
  <2>1. i \in 1..Len(s) /\ s[i] = d[i]
    BY <1>2
  <2>. QED
    BY <1>4, <2>1
<1>7. ASSUME NEW i \in 1..Len(l), l[i] \notin Range(d) PROVE l[i] \in Range(s)
  <2>1. PICK k \in 1..Len(o) : o[k] = l[i]
    BY <1>1, <1>7
  <2> DEFINE j == Len(d) + k
  <2>2. j \in 1..Len(s) /\ j \in 1..Len(d) + Len(o) /\ ~(j <= Len(d)) /\ j - Len(d) = k
    BY <1>2
  <2> HIDE DEF j
  <2>3. s[j] = o[k]
    BY <1>2, <2>2
  <2>. QED
    BY <1>4, <2>1, <2>2, <2>3
<1>8. Range(s) = Range(d) \cup Range(l)
  BY <1>4, <1>5, <1>6, <1>7
<1>. QED
  BY <1>8 DEF s, o

(* What begins a sequence is within it. *)
LEMMA StartIsWithin ==
  ASSUME NEW p \in Seq(Nat), NEW s \in Seq(Nat), StartsOf(p, s)
  PROVE  Range(p) \subseteq Range(s)
<1>1. Len(p) \in Nat /\ Len(s) \in Nat /\ DOMAIN p = 1..Len(p) /\ DOMAIN s = 1..Len(s)
  BY LenProperties
<1>2. \A i \in 1..Len(p) : i \in 1..Len(s) /\ p[i] = s[i]
  BY <1>1 DEF StartsOf
<1>. QED
  BY <1>1, <1>2 DEF Range

(* A read under way was made after the one on screen. *)
ReadIsLater == reading.conv # NoConv => StartsOf(detail[reading.conv], reading.turns)

(* Reads arrive in the order they were made, for there is one at a time. *)
LEMMA ReadStaysLater ==
  ASSUME ThreadFits, ReadIsLater, [CopilotNext]_copilotVars
  PROVE  ReadIsLater'
<1>1. CASE ConvReads
  <2>1. reading'.conv = selected /\ reading'.turns = turns[selected] /\ detail' = detail /\ selected \in Conv
    BY <1>1 DEF ConvReads, LiveConvs
  <2>2. StartsOf(detail[selected], turns[selected])
    BY <2>1 DEF ThreadFits, ReadsFit
  <2>. QED
    BY <2>1, <2>2 DEF ReadIsLater
<1>2. CASE ConvArrives
  BY <1>2 DEF ConvArrives, ReadIsLater
<1>3. CASE AnswerShown
  BY <1>3 DEF AnswerShown, ReadIsLater
<1>4. CASE UNCHANGED <<detail, reading>>
  BY <1>4 DEF ReadIsLater
<1>. QED
  BY <1>1, <1>2, <1>3, <1>4
     DEF CopilotNext, CopilotAsks, AskKept, AskRefused, StartNew, ListArrives, LoadOlder, OlderArrives,
         SelectConv, ArchiveConv, threadVars, copilotVars

(* The turns on screen, as a set. *)
LEMMA ShownAre ==
  ASSUME NEW c, NEW d \in Seq(Nat), NEW l,  l.turns \in Seq(Nat)
  PROVE  Range(d \o (IF l.conv = c THEN Outside(l.turns, Range(d)) ELSE <<>>)) =
           Range(d) \cup (IF l.conv = c THEN Range(l.turns) ELSE {})
<1>1. CASE l.conv = c
  BY <1>1, OverlayIs
<1>2. CASE l.conv # c
  <2>1. d \o <<>> = d
    BY ConcatEmptySeq
  <2>. QED
    BY <1>2, <2>1
<1>. QED
  BY <1>1, <1>2

(* While the same conversation is open, what is shown of it grows: a read brings more, *)
(* and an answer is laid over what is there.                                           *)
LEMMA AnswersStep ==
  ASSUME ThreadFits, ThreadFits', ReadIsLater, [CopilotNext]_copilotVars, selected' = selected
  PROVE  Range(ShownTurns) \subseteq Range(ShownTurns')
<1>1. CASE selected = NoConv
  <2>1. ShownTurns = <<>> /\ Range(<<>>) = {}
    BY <1>1 DEF ShownTurns, Range
  <2>. QED
    BY <2>1
<1>2. CASE selected # NoConv
  <2> DEFINE s == selected
  <2>1. s \in Conv /\ detail[s] \in Seq(Nat) /\ detail'[s] \in Seq(Nat)
        /\ local.turns \in Seq(Nat) /\ local'.turns \in Seq(Nat)
    <3>1. s \in Conv
      BY <1>2 DEF ThreadFits, CopilotTyped, Conv, NoConv
    <3>2. detail[s] \in Seq(Nat) /\ local.turns \in Seq(Nat)
      BY <3>1 DEF ThreadFits, CopilotTyped
    <3>3. detail'[s] \in Seq(Nat) /\ local'.turns \in Seq(Nat)
      BY <3>1 DEF ThreadFits, CopilotTyped
    <3>. QED
      BY <3>1, <3>2, <3>3
  <2>2. Range(ShownTurns) = Range(detail[s]) \cup (IF local.conv = s THEN Range(local.turns) ELSE {})
    <3>1. ShownTurns = detail[s] \o (IF local.conv = s THEN Outside(local.turns, Range(detail[s])) ELSE <<>>)
      BY <1>2 DEF ShownTurns, OverlayTurns
    <3>. QED
      BY <2>1, <3>1, ShownAre
  <2>3. Range(ShownTurns') = Range(detail'[s]) \cup (IF local'.conv = s THEN Range(local'.turns) ELSE {})
    <3>1. ShownTurns' = detail'[s] \o (IF local'.conv = s THEN Outside(local'.turns, Range(detail'[s])) ELSE <<>>)
      BY <1>2 DEF ShownTurns, OverlayTurns
    <3>. QED
      BY <2>1, <3>1, ShownAre
  <2>4. Range(detail[s]) \subseteq Range(detail'[s])
    <3>1. CASE ConvArrives /\ reading.conv = s
      <4>1. detail'[s] = reading.turns /\ StartsOf(detail[s], reading.turns) /\ reading.turns \in Seq(Nat)
        BY <1>2, <2>1, <3>1 DEF ConvArrives, ReadIsLater, ThreadFits, CopilotTyped
      <4>. QED
        BY <2>1, <4>1, StartIsWithin
    <3>2. CASE ConvArrives /\ reading.conv # s
      BY <2>1, <3>2 DEF ConvArrives, ThreadFits, CopilotTyped
    <3>3. CASE UNCHANGED detail
      BY <3>3
    <3>. QED
      BY <3>1, <3>2, <3>3
         DEF CopilotNext, CopilotAsks, AskKept, AskRefused, AnswerShown, StartNew, ConvReads, ListArrives,
             LoadOlder, OlderArrives, SelectConv, ArchiveConv, threadVars, copilotVars
  <2>5. local.conv = s => local'.conv = s /\ Range(local.turns) \subseteq Range(local'.turns)
    <3> SUFFICES ASSUME local.conv = s
                 PROVE  local'.conv = s /\ Range(local.turns) \subseteq Range(local'.turns)
      OBVIOUS
    <3>1. CASE AnswerShown
      <4>1. local'.conv = s /\ local'.turns = Append(local.turns, ask.turn) /\ ask.turn \in Nat
        BY <3>1 DEF AnswerShown, WithTurn, ThreadFits, CopilotTyped
      <4>2. local.turns \in Seq(Nat)
        BY <2>1
      <4>3. /\ Len(local'.turns) = Len(local.turns) + 1 /\ Len(local.turns) \in Nat
            /\ \A i \in 1..Len(local.turns) : local'.turns[i] = local.turns[i]
        BY <4>1, <4>2, AppendProperties, LenProperties
      <4>4. StartsOf(local.turns, local'.turns)
        BY <4>3 DEF StartsOf
      <4>. QED
        BY <2>1, <4>1, <4>4, StartIsWithin
    <3>2. CASE UNCHANGED local
      BY <3>2
    <3>3. ~StartNew
      BY <1>2 DEF StartNew
    <3>4. \A c \in Conv : SelectConv(c) \/ ArchiveConv(c) => UNCHANGED local
      BY <1>2 DEF SelectConv, ArchiveConv
    <3>. QED
      BY <3>1, <3>2, <3>3, <3>4
         DEF CopilotNext, CopilotAsks, AskKept, AskRefused, ConvReads, ConvArrives, ListArrives,
             LoadOlder, OlderArrives, threadVars, copilotVars
  <2>. QED
    BY <2>2, <2>3, <2>4, <2>5
<1>. QED
  BY <1>1, <1>2

(* Of every number of conversations and questions: a turn on screen stays there until *)
(* the reader opens another conversation or closes this one (kt-copilot.tsx).         *)
THEOREM AnswersNeverBlink == CopilotSpec => AnswersStay
<1>1. CopilotInit => ReadIsLater
  BY DEF CopilotInit, ReadIsLater
<1>2. ThreadFits /\ ThreadFits' /\ ReadIsLater /\ [CopilotNext]_copilotVars =>
        [selected' = selected => Range(ShownTurns) \subseteq Range(ShownTurns')]_copilotVars
  BY AnswersStep
<1>. QED
  BY <1>1, <1>2, ThreadInit, ThreadSteps, ReadStaysLater, PTL DEF CopilotSpec, AnswersStay

(* The sorts of the list's state. *)
ListsTyped ==
    /\ stamp \in [Conv -> 0..(MaxTurns + Kept)] /\ asks \in 0..MaxTurns
    /\ archived \subseteq Conv
    /\ listed.items \in Seq(Nat) /\ older \in Seq(Nat)
    /\ loading # <<>> => loading[1].items \in Seq(Nat)

(* The inductive invariant of the list: what was archived is in no page that is held or *)
(* being read, but where the list is to be read again.                                  *)
LeftFits ==
    /\ ListsTyped
    /\ \A c \in archived \ raced :
         /\ c \notin Range(older)
         /\ c \in Range(listed.items) => listStale
         /\ loading # <<>> => c \notin Range(loading[1].items)

(* A page the server answers holds conversations that are not archived. *)
LEMMA PageOfLive ==
  ASSUME stamp \in [Conv -> 0..(MaxTurns + Kept)], NEW below
  PROVE  ConvPage(below).items \in Seq(Nat) /\ Range(ConvPage(below).items) \subseteq LiveConvs
<1> DEFINE matching == {c \in LiveConvs : stamp[c] < below}
           c == CHOOSE x \in matching : \A y \in matching : stamp[y] <= stamp[x]
<1>0. MaxTurns + Kept \in Nat /\ Conv \subseteq Nat /\ LiveConvs \subseteq Conv
  BY CopilotAssumption DEF Conv, LiveConvs
<1>1. CASE matching = {}
  <2>1. ConvPage(below).items = <<>>
    BY <1>1 DEF ConvPage, NoPage
  <2>2. <<>> \in Seq(Nat) /\ Range(<<>>) = {}
    BY EmptySeq DEF Range
  <2>. QED
    BY <2>1, <2>2
<1>2. CASE matching # {}
  <2> DEFINE B == MaxTurns + Kept
             T == {B - stamp[x] : x \in matching}
  <2>1. B \in Nat /\ \A n \in 0..B : n \in Nat /\ B - n \in Nat
    BY <1>0
  <2>2. \A x \in matching : stamp[x] \in 0..B
    BY <1>0
  <2> HIDE DEF B, matching
  <2>3. T \subseteq Nat /\ T # {}
    BY <1>2, <2>1, <2>2
  <2>4. PICK t \in T : \A u \in T : t <= u
    BY <2>3, LeastNatural
  <2>a. PICK x \in matching : t = B - stamp[x]
    BY <2>4
  <2>5. ASSUME NEW y \in matching PROVE stamp[y] <= stamp[x]
    <3>1. B - stamp[x] <= B - stamp[y]
      BY <2>4, <2>a
    <3>2. stamp[x] \in Nat /\ stamp[y] \in Nat
      BY <2>1, <2>2
    <3>. QED
      BY <2>1, <3>1, <3>2
  <2> USE DEF matching
  <2>6. c \in matching
    <3>1. \E z \in matching : \A y \in matching : stamp[y] <= stamp[z]
      BY <2>5
    <3> HIDE DEF matching
    <3>. QED
      BY <3>1
  <2>7. ConvPage(below).items = <<c>>
    BY <1>2 DEF ConvPage
  <2> HIDE DEF c
  <2>8. c \in Nat /\ c \in LiveConvs
    BY <1>0, <2>6
  <2>9. Range(<<c>>) = {c}
    BY DEF Range
  <2>. QED
    BY <2>7, <2>8, <2>9
<1>. QED
  BY <1>1, <1>2

(* The list begins without them. *)
LEMMA LeftInit == CopilotInit => LeftFits
<1> SUFFICES ASSUME CopilotInit PROVE LeftFits
  OBVIOUS
<1>0. Convs \in Nat /\ Kept \in 0..Convs /\ MaxTurns \in Nat /\ <<>> \in Seq(Nat) /\ Conv \subseteq Nat
  BY CopilotAssumption, EmptySeq DEF Conv
<1>1. stamp \in [Conv -> 0..(MaxTurns + Kept)]
  <2>1. \A c \in Conv : (IF c <= Kept THEN c ELSE 0) \in 0..(MaxTurns + Kept)
    BY <1>0
  <2>. QED
    BY <2>1 DEF CopilotInit
<1>2. listed.items \in Seq(Nat)
  BY <1>1, PageOfLive DEF CopilotInit
<1>. QED
  BY <1>0, <1>1, <1>2 DEF CopilotInit, LeftFits, ListsTyped

(* A step that leaves the pages and the archive alone keeps the list fit. *)
LEMMA LeftStays ==
  ASSUME LeftFits, stamp' \in [Conv -> 0..(MaxTurns + Kept)], asks' \in 0..MaxTurns, archived' = archived,
         raced' = raced, listed' = listed, listStale => listStale',
         older' = older, loading' = loading
  PROVE  LeftFits'
  BY DEF LeftFits, ListsTyped

(* Of every number of conversations: one that was archived is in no older page and in *)
(* the first one only until that is read again, unless a read or a question that had  *)
(* seen it was in flight (kt-copilot.tsx).                                            *)
THEOREM ArchivedStaysOut == CopilotSpec => []ArchivedLeaves
<1>1. ASSUME LeftFits, [CopilotNext]_copilotVars PROVE LeftFits'
  <2>0. /\ stamp \in [Conv -> 0..(MaxTurns + Kept)] /\ asks \in 0..MaxTurns
        /\ MaxTurns \in Nat /\ Kept \in Nat
    BY <1>1, CopilotAssumption DEF LeftFits, ListsTyped
  <2>1. CASE CopilotAsks
    <3>1. asks' \in 0..MaxTurns
      BY <2>0, <2>1 DEF CopilotAsks
    <3>. QED
      BY <1>1, <2>0, <2>1, <3>1, LeftStays DEF CopilotAsks, storeVars, listVars
  <2>2. CASE AskKept
    <3>1. AskClock \in 0..(MaxTurns + Kept)
      BY <2>0 DEF AskClock
    <3>2. stamp' \in [Conv -> 0..(MaxTurns + Kept)]
      BY <2>0, <2>2, <3>1 DEF AskKept
    <3>. QED
      BY <1>1, <2>0, <2>2, <3>2, LeftStays DEF AskKept, listVars
  <2>3. CASE AskRefused \/ StartNew \/ ConvReads \/ ConvArrives \/ UNCHANGED copilotVars
    BY <1>1, <2>0, <2>3, LeftStays
       DEF AskRefused, StartNew, ConvReads, ConvArrives, copilotVars, storeVars, listVars
  <2>4. CASE AnswerShown
    BY <1>1, <2>0, <2>4, LeftStays DEF AnswerShown, storeVars
  <2>5. CASE ListArrives
    <3>1. /\ archived' = archived /\ raced' = raced /\ stamp' = stamp /\ asks' = asks
          /\ older' = older /\ loading' = loading /\ listed' = ConvPage(TopStamp)
      BY <2>5 DEF ListArrives, storeVars, threadVars
    <3>2. listed'.items \in Seq(Nat) /\ Range(listed'.items) \subseteq LiveConvs
      BY <2>0, <3>1, PageOfLive
    <3>. QED
      BY <1>1, <3>1, <3>2 DEF LeftFits, ListsTyped, LiveConvs
  <2>6. CASE LoadOlder
    <3>1. /\ archived' = archived /\ raced' = raced /\ stamp' = stamp /\ asks' = asks
          /\ older' = older /\ listed' = listed /\ listStale' = listStale
          /\ loading' = <<ConvPage(NextCursor)>>
      BY <2>6 DEF LoadOlder, storeVars, threadVars
    <3>2. loading'[1] = ConvPage(NextCursor)
      BY <3>1
    <3>3. loading'[1].items \in Seq(Nat) /\ Range(loading'[1].items) \subseteq LiveConvs
      BY <2>0, <3>2, PageOfLive
    <3>. QED
      BY <1>1, <3>1, <3>3 DEF LeftFits, ListsTyped, LiveConvs
  <2>7. CASE OlderArrives
    <3> DEFINE items == loading[1].items
    <3>1. /\ archived' = archived /\ raced' = raced /\ stamp' = stamp /\ asks' = asks
          /\ listed' = listed /\ listStale' = listStale /\ loading # <<>> /\ loading' = <<>>
          /\ older' = older \/ older' = older \o items
      BY <2>7 DEF OlderArrives, storeVars, threadVars
    <3>2. older \in Seq(Nat) /\ items \in Seq(Nat)
      BY <1>1, <3>1 DEF LeftFits, ListsTyped
    <3> HIDE DEF items
    <3>3. older \o items \in Seq(Nat) /\ Range(older \o items) \subseteq Range(older) \cup Range(items)
      <4>1. /\ older \o items \in Seq(Nat) /\ Len(older \o items) = Len(older) + Len(items)
            /\ Len(older) \in Nat /\ Len(items) \in Nat
            /\ \A i \in 1..Len(older) + Len(items) :
                 (older \o items)[i] = IF i <= Len(older) THEN older[i] ELSE items[i - Len(older)]
        BY <3>2, ConcatProperties, LenProperties
      <4>2. ASSUME NEW i \in 1..Len(older) + Len(items)
            PROVE  (older \o items)[i] \in Range(older) \cup Range(items)
        <5>1. CASE i <= Len(older)
          <6>1. i \in DOMAIN older /\ (older \o items)[i] = older[i]
            BY <3>2, <4>1, <5>1, LenProperties
          <6>. QED
            BY <6>1 DEF Range
        <5>2. CASE ~(i <= Len(older))
          <6>1. i - Len(older) \in DOMAIN items /\ (older \o items)[i] = items[i - Len(older)]
            BY <3>2, <4>1, <5>2, LenProperties
          <6>. QED
            BY <6>1 DEF Range
        <5>. QED
          BY <5>1, <5>2
      <4>3. DOMAIN (older \o items) = 1..Len(older) + Len(items)
        BY <4>1, LenProperties
      <4>. QED
        BY <4>1, <4>2, <4>3 DEF Range
    <3>4. older' \in Seq(Nat) /\ Range(older') \subseteq Range(older) \cup Range(items)
      BY <3>1, <3>2, <3>3
    <3>. QED
      BY <1>1, <3>1, <3>4 DEF LeftFits, ListsTyped, items
  <2>8. ASSUME NEW c \in Conv, SelectConv(c) PROVE LeftFits'
    BY <1>1, <2>0, <2>8, LeftStays DEF SelectConv, storeVars, listVars
  <2>9. ASSUME NEW c \in Conv, ArchiveConv(c) PROVE LeftFits'
    <3>1. /\ archived' = archived \cup {c} /\ stamp' = stamp /\ asks' = asks
          /\ raced' = IF ConvSeen(c) THEN raced \cup {c} ELSE raced
          /\ older' = Outside(older, {c}) /\ listed' = listed /\ listStale' = TRUE /\ loading' = loading
      BY <2>9 DEF ArchiveConv
    <3>2. older \in Seq(Nat)
      BY <1>1 DEF LeftFits, ListsTyped
    <3>3. older' \in Seq(Nat)
      BY <3>1, <3>2, OutsideIs
    <3>4. Range(older') \subseteq Range(older) \ {c}
      <4>a. \A k \in 1..Len(Outside(older, {c})) : Outside(older, {c})[k] \notin {c} /\
               \E i \in 1..Len(older) : older[i] = Outside(older, {c})[k]
        <5> DEFINE S == {c}
        <5> HIDE DEF S
        <5>1. \A k \in 1..Len(Outside(older, S)) : Outside(older, S)[k] \notin S /\
               \E i \in 1..Len(older) : older[i] = Outside(older, S)[k]
          BY <3>2, OutsideIs
        <5>. QED
          BY <5>1 DEF S
      <4>1. \A k \in 1..Len(older') : older'[k] # c /\ \E i \in 1..Len(older) : older[i] = older'[k]
        BY <3>1, <4>a
      <4>2. DOMAIN older = 1..Len(older) /\ DOMAIN older' = 1..Len(older')
        BY <3>2, <3>3, LenProperties
      <4>. QED
        BY <4>1, <4>2 DEF Range
    <3>5. ASSUME NEW d \in archived' \ raced'
          PROVE  d \notin Range(older') /\ (loading # <<>> => d \notin Range(loading[1].items))
      <4>1. CASE d = c
        BY <3>1, <3>4, <3>5, <4>1 DEF ConvSeen
      <4>2. CASE d # c
        <5>1. d \in archived \ raced
          BY <3>1, <3>5, <4>2
        <5>. QED
          BY <1>1, <3>4, <5>1 DEF LeftFits
      <4>. QED
        BY <4>1, <4>2
    <3>. QED
      BY <1>1, <3>1, <3>3, <3>5 DEF LeftFits, ListsTyped
  <2>. QED
    BY <1>1, <2>1, <2>2, <2>3, <2>4, <2>5, <2>6, <2>7, <2>8, <2>9 DEF CopilotNext
<1>2. LeftFits => ArchivedLeaves
  BY DEF LeftFits, ArchivedLeaves
<1>. QED
  BY <1>1, <1>2, LeftInit, PTL DEF CopilotSpec

-----------------------------------------------------------------------------
(* The screens: what offers them, what they read, and what a write tells them. *)

(* What a table and then another hold. *)
LEMMA WithTables ==
  ASSUME NEW f, NEW g
  PROVE  /\ DOMAIN With(f, g) = DOMAIN f \cup DOMAIN g
         /\ \A c \in DOMAIN f : With(f, g)[c] = f[c]
         /\ \A c \in DOMAIN g \ DOMAIN f : With(f, g)[c] = g[c]
BY DEF With

(* What the proofs use of ROLE_PERMISSIONS: the owner may all, everyone the same few, *)
(* and two permissions come only with others.                                         *)
LEMMA RoleTable ==
  /\ RolePermissions["owner"] = Permission
  /\ \A r \in Role :
       /\ Everyone \subseteq RolePermissions[r] /\ RolePermissions[r] \subseteq Permission
       /\ "integration:read" \in RolePermissions[r] => "member:read" \in RolePermissions[r]
       /\ "org:update" \in RolePermissions[r] =>
            "integration:read" \in RolePermissions[r] /\ "org:read" \in RolePermissions[r]
BY DEF RolePermissions, Role, Permission, Everyone

(* What the server asks for the calls of a person and of employees. *)
LEMMA OwnTable ==
  /\ DOMAIN OwnCalls =
       {"me", "myOrganisation", "myProfile", "updateMyProfile", "myIdentities", "employeeIdentities",
        "linkIdentity", "revokeIdentity", "currentOrganisation", "employees", "invite",
        "previewInvitations", "inviteMany"}
  /\ OwnCalls["myOrganisation"] = Open /\ OwnCalls["myProfile"] = Open
  /\ OwnCalls["updateMyProfile"] = "profile:self_update"
  /\ OwnCalls["myIdentities"] = "integration:self_manage"
  /\ OwnCalls["currentOrganisation"] = "org:read" /\ OwnCalls["employees"] = "member:read"
  /\ OwnCalls["invite"] = "member:invite" /\ OwnCalls["inviteMany"] = "member:invite"
BY DEF OwnCalls

(* For those of the basket. *)
LEMMA BasketTable ==
  /\ DOMAIN BasketCalls =
       {"startBasketUpload", "completeBasketUpload", "basketFiles", "basketDownloadUrl",
        "renameBasketFile", "retryBasketFile", "deleteBasketFile"}
  /\ BasketCalls["completeBasketUpload"] = "basket:write" /\ BasketCalls["basketFiles"] = "basket:write"
BY DEF BasketCalls

(* For those of the administration. *)
LEMMA AdminTable ==
  /\ DOMAIN AdminCalls =
       {"audit", "jobs", "jobStats", "sources", "resyncSource", "revokeInvitation", "resendInvitation",
        "invitations", "assignRole", "roleCatalogue", "roleAssignment", "assignRoleTaxonomy",
        "renameOrganisation", "overview"}
  /\ AdminCalls["audit"] = "audit:read" /\ AdminCalls["jobs"] = "org:read"
  /\ AdminCalls["jobStats"] = "org:read" /\ AdminCalls["sources"] = "integration:read"
  /\ AdminCalls["resyncSource"] = "integration:connect"
  /\ AdminCalls["revokeInvitation"] = "member:invite" /\ AdminCalls["resendInvitation"] = "member:invite"
  /\ AdminCalls["invitations"] = "member:invite" /\ AdminCalls["renameOrganisation"] = "org:update"
  /\ AdminCalls["overview"] = "org:read"
BY DEF AdminCalls

(* For those of schedules, connections and policies. *)
LEMMA ToolTable ==
  /\ DOMAIN ToolCalls =
       {"syncSchedule", "updateSyncSchedule", "ready", "roles", "employeeConnections", "connect",
        "integrations", "disconnectIntegration", "syncNow", "connectionSummary",
        "connectionPolicies", "revokeConnection", "setConnectionPolicy"}
  /\ ToolCalls["syncSchedule"] = "integration:self_manage"
  /\ ToolCalls["updateSyncSchedule"] = "sync:schedule_manage"
  /\ ToolCalls["ready"] = Open /\ ToolCalls["roles"] = "org:read"
  /\ ToolCalls["integrations"] = "integration:self_manage"
  /\ ToolCalls["disconnectIntegration"] = "integration:self_manage"
  /\ ToolCalls["syncNow"] = "integration:self_manage"
  /\ ToolCalls["connectionSummary"] = "integration:read"
  /\ ToolCalls["connectionPolicies"] = "integration:read"
  /\ ToolCalls["revokeConnection"] = "integration:revoke"
  /\ ToolCalls["setConnectionPolicy"] = "org:update"
BY DEF ToolCalls

(* For those of packages, an administrator's and a recipient's. *)
LEMMA PackageTable ==
  /\ DOMAIN PackageNeeds = DOMAIN KtCalls \cup DOMAIN PackageCalls \cup DOMAIN RecipientCalls
  /\ DOMAIN KtCalls = {"ktScopes", "ktCreate", "ktList", "ktGet", "ktRevoke", "ktComplete", "ktUpdate"}
  /\ \A c \in {"ktCreate", "ktList", "ktGet", "ktRevoke", "ktComplete", "ktUpdate"} :
       PackageNeeds[c] = "kt:manage"
  /\ \A c \in {"ktClaim", "ktFiles", "ktInsights", "ktWorkspace"} :
       c \in DOMAIN PackageNeeds /\ PackageNeeds[c] = "kt:open"
  /\ "myKnowledge" \notin DOMAIN PackageNeeds /\ "departments" \notin DOMAIN PackageNeeds
<1>1. /\ DOMAIN KtCalls = {"ktScopes", "ktCreate", "ktList", "ktGet", "ktRevoke", "ktComplete", "ktUpdate"}
      /\ \A c \in DOMAIN KtCalls : KtCalls[c] = "kt:manage"
  BY DEF KtCalls
<1>2. /\ "myKnowledge" \notin DOMAIN PackageCalls /\ "departments" \notin DOMAIN PackageCalls
      /\ "ktClaim" \in DOMAIN PackageCalls /\ "ktFiles" \in DOMAIN PackageCalls
      /\ \A c \in DOMAIN PackageCalls : PackageCalls[c] = "kt:open"
  BY DEF PackageCalls
<1>3. /\ "myKnowledge" \notin DOMAIN RecipientCalls /\ "departments" \notin DOMAIN RecipientCalls
      /\ "ktInsights" \in DOMAIN RecipientCalls /\ "ktWorkspace" \in DOMAIN RecipientCalls
      /\ \A c \in DOMAIN RecipientCalls : RecipientCalls[c] = "kt:open"
  BY DEF RecipientCalls
<1> DEFINE T == With(PackageCalls, RecipientCalls)
<1>4. /\ DOMAIN T = DOMAIN PackageCalls \cup DOMAIN RecipientCalls
      /\ \A c \in DOMAIN T : T[c] = "kt:open"
  <2>1. /\ DOMAIN T = DOMAIN PackageCalls \cup DOMAIN RecipientCalls
        /\ \A c \in DOMAIN PackageCalls : T[c] = PackageCalls[c]
        /\ \A c \in DOMAIN RecipientCalls \ DOMAIN PackageCalls : T[c] = RecipientCalls[c]
    BY WithTables
  <2> HIDE DEF T
  <2>. QED
    BY <1>2, <1>3, <2>1
<1>5. PackageNeeds = With(KtCalls, T)
  BY DEF PackageNeeds
<1> HIDE DEF T
<1>6. /\ DOMAIN PackageNeeds = DOMAIN KtCalls \cup DOMAIN T
      /\ \A c \in DOMAIN KtCalls : PackageNeeds[c] = KtCalls[c]
      /\ \A c \in DOMAIN T \ DOMAIN KtCalls : PackageNeeds[c] = T[c]
  <2>1. /\ DOMAIN With(KtCalls, T) = DOMAIN KtCalls \cup DOMAIN T
        /\ \A c \in DOMAIN KtCalls : With(KtCalls, T)[c] = KtCalls[c]
        /\ \A c \in DOMAIN T \ DOMAIN KtCalls : With(KtCalls, T)[c] = T[c]
    BY WithTables
  <2>. QED
    BY <1>5, <2>1
<1>. QED
  BY <1>1, <1>2, <1>3, <1>4, <1>6

(* No call stands in two of the tables. *)
LEMMA NeedsChain ==
  /\ \A c \in DOMAIN OwnCalls : Needs[c] = OwnCalls[c]
  /\ \A c \in DOMAIN BasketCalls \ DOMAIN OwnCalls : Needs[c] = BasketCalls[c]
  /\ \A c \in DOMAIN AdminCalls \ (DOMAIN OwnCalls \cup DOMAIN BasketCalls) : Needs[c] = AdminCalls[c]
  /\ \A c \in DOMAIN ToolCalls \ (DOMAIN OwnCalls \cup DOMAIN BasketCalls \cup DOMAIN AdminCalls) :
       Needs[c] = ToolCalls[c]
  /\ \A c \in DOMAIN PackageNeeds \ (DOMAIN OwnCalls \cup DOMAIN BasketCalls \cup DOMAIN AdminCalls
                                       \cup DOMAIN ToolCalls) :
       Needs[c] = PackageNeeds[c]
  /\ \A c \in {"myKnowledge", "departments"} \ (DOMAIN OwnCalls \cup DOMAIN BasketCalls
                 \cup DOMAIN AdminCalls \cup DOMAIN ToolCalls \cup DOMAIN PackageNeeds) :
       Needs[c] = QueryCalls[c]
<1> DEFINE T6 == With(SearchCalls, QueryCalls)
           T5 == With(PackageNeeds, T6)
           T4 == With(ToolCalls, T5)
           T3 == With(AdminCalls, T4)
           T2 == With(BasketCalls, T3)
<1>1. Needs = With(OwnCalls, T2)
  BY DEF Needs
<1>a. /\ DOMAIN SearchCalls = {"search", "evidence"}
      /\ DOMAIN QueryCalls = {"ask", "myKnowledge", "departments"}
  BY DEF SearchCalls, QueryCalls
<1>6. /\ DOMAIN T6 = DOMAIN SearchCalls \cup DOMAIN QueryCalls
      /\ \A c \in {"myKnowledge", "departments"} : T6[c] = QueryCalls[c]
  <2>1. /\ DOMAIN T6 = DOMAIN SearchCalls \cup DOMAIN QueryCalls
        /\ \A c \in DOMAIN QueryCalls \ DOMAIN SearchCalls : T6[c] = QueryCalls[c]
    BY WithTables
  <2> HIDE DEF T6
  <2>. QED
    BY <1>a, <2>1
<1> HIDE DEF T6
<1>5. /\ DOMAIN T5 = DOMAIN PackageNeeds \cup DOMAIN T6
      /\ \A c \in DOMAIN PackageNeeds : T5[c] = PackageNeeds[c]
      /\ \A c \in DOMAIN T6 \ DOMAIN PackageNeeds : T5[c] = T6[c]
  BY WithTables
<1> HIDE DEF T5
<1>4. /\ DOMAIN T4 = DOMAIN ToolCalls \cup DOMAIN T5
      /\ \A c \in DOMAIN ToolCalls : T4[c] = ToolCalls[c]
      /\ \A c \in DOMAIN T5 \ DOMAIN ToolCalls : T4[c] = T5[c]
  BY WithTables
<1> HIDE DEF T4
<1>3. /\ DOMAIN T3 = DOMAIN AdminCalls \cup DOMAIN T4
      /\ \A c \in DOMAIN AdminCalls : T3[c] = AdminCalls[c]
      /\ \A c \in DOMAIN T4 \ DOMAIN AdminCalls : T3[c] = T4[c]
  BY WithTables
<1> HIDE DEF T3
<1>2. /\ DOMAIN T2 = DOMAIN BasketCalls \cup DOMAIN T3
      /\ \A c \in DOMAIN BasketCalls : T2[c] = BasketCalls[c]
      /\ \A c \in DOMAIN T3 \ DOMAIN BasketCalls : T2[c] = T3[c]
  BY WithTables
<1> HIDE DEF T2
<1>7. /\ \A c \in DOMAIN OwnCalls : Needs[c] = OwnCalls[c]
      /\ \A c \in DOMAIN T2 \ DOMAIN OwnCalls : Needs[c] = T2[c]
  <2>1. /\ \A c \in DOMAIN OwnCalls : With(OwnCalls, T2)[c] = OwnCalls[c]
        /\ \A c \in DOMAIN T2 \ DOMAIN OwnCalls : With(OwnCalls, T2)[c] = T2[c]
    BY WithTables
  <2>. QED
    BY <1>1, <2>1
<1>. QED
  BY <1>2, <1>3, <1>4, <1>5, <1>6, <1>7, <1>a

(* The permission each call needs, out of the whole of the tables. *)
LEMMA OwnNeeds ==
  /\ Needs["myOrganisation"] = Open /\ Needs["myProfile"] = Open
  /\ Needs["updateMyProfile"] = "profile:self_update"
  /\ Needs["myIdentities"] = "integration:self_manage"
  /\ Needs["currentOrganisation"] = "org:read" /\ Needs["employees"] = "member:read"
  /\ Needs["invite"] = "member:invite" /\ Needs["inviteMany"] = "member:invite"
BY NeedsChain, OwnTable

(* The same of the basket. *)
LEMMA BasketNeeds ==
  Needs["completeBasketUpload"] = "basket:write" /\ Needs["basketFiles"] = "basket:write"
BY NeedsChain, OwnTable, BasketTable

(* The same of the administration. *)
LEMMA AdminNeeds ==
  /\ Needs["audit"] = "audit:read" /\ Needs["jobs"] = "org:read"
  /\ Needs["jobStats"] = "org:read" /\ Needs["sources"] = "integration:read"
  /\ Needs["resyncSource"] = "integration:connect"
  /\ Needs["revokeInvitation"] = "member:invite" /\ Needs["resendInvitation"] = "member:invite"
  /\ Needs["invitations"] = "member:invite" /\ Needs["renameOrganisation"] = "org:update"
  /\ Needs["overview"] = "org:read"
BY NeedsChain, OwnTable, BasketTable, AdminTable

(* The same of schedules, connections and policies. *)
LEMMA ToolNeeds ==
  /\ Needs["syncSchedule"] = "integration:self_manage"
  /\ Needs["updateSyncSchedule"] = "sync:schedule_manage"
  /\ Needs["ready"] = Open /\ Needs["roles"] = "org:read"
  /\ Needs["integrations"] = "integration:self_manage"
  /\ Needs["disconnectIntegration"] = "integration:self_manage"
  /\ Needs["syncNow"] = "integration:self_manage"
  /\ Needs["connectionSummary"] = "integration:read"
  /\ Needs["connectionPolicies"] = "integration:read"
  /\ Needs["revokeConnection"] = "integration:revoke"
  /\ Needs["setConnectionPolicy"] = "org:update"
BY NeedsChain, OwnTable, BasketTable, AdminTable, ToolTable

(* The same of packages. *)
LEMMA PackageCallNeeds ==
  /\ Needs["ktCreate"] = "kt:manage" /\ Needs["ktList"] = "kt:manage" /\ Needs["ktGet"] = "kt:manage"
  /\ Needs["ktRevoke"] = "kt:manage" /\ Needs["ktComplete"] = "kt:manage"
  /\ Needs["ktUpdate"] = "kt:manage"
  /\ Needs["ktClaim"] = "kt:open" /\ Needs["ktFiles"] = "kt:open" /\ Needs["ktInsights"] = "kt:open"
  /\ Needs["ktWorkspace"] = "kt:open"
BY NeedsChain, OwnTable, BasketTable, AdminTable, ToolTable, PackageTable

(* The same of the two that are left. *)
LEMMA KnowledgeNeeds == Needs["myKnowledge"] = "retrieval:query" /\ Needs["departments"] = "member:read"
BY NeedsChain, OwnTable, BasketTable, AdminTable, ToolTable, PackageTable DEF QueryCalls

(* The permissions the entries of a member's navigation and of a package are drawn for. *)
LEMMA SectionTable ==
  /\ DOMAIN ConsoleSections = DOMAIN AdminSections \cup DOMAIN MemberSections \cup DOMAIN WorkspaceTabs
  /\ \A p \in DOMAIN AdminSections : ConsoleSections[p] = AdminSections[p]
<1> DEFINE T == With(MemberSections, WorkspaceTabs)
<1>1. DOMAIN T = DOMAIN MemberSections \cup DOMAIN WorkspaceTabs
  BY WithTables
<1>2. ConsoleSections = With(AdminSections, T)
  BY DEF ConsoleSections
<1> HIDE DEF T
<1>3. /\ DOMAIN With(AdminSections, T) = DOMAIN AdminSections \cup DOMAIN T
      /\ \A p \in DOMAIN AdminSections : With(AdminSections, T)[p] = AdminSections[p]
  BY WithTables
<1>. QED
  BY <1>1, <1>2, <1>3

(* Those of an administrator's. *)
LEMMA AdminSectionTable ==
  /\ ConsoleSections["overview"] = "org:read" /\ ConsoleSections["employees"] = "member:read"
  /\ ConsoleSections["invitations"] = "member:invite" /\ ConsoleSections["departments"] = "member:read"
  /\ ConsoleSections["knowledge_transfer"] = "kt:manage"
  /\ ConsoleSections["sources"] = "integration:read" /\ ConsoleSections["apps"] = "integration:read"
  /\ ConsoleSections["connection_policies"] = "org:update"
  /\ ConsoleSections["identities"] = "integration:read" /\ ConsoleSections["roles"] = "org:read"
  /\ ConsoleSections["settings"] = "org:update" /\ ConsoleSections["jobs"] = "org:read"
  /\ ConsoleSections["audit"] = "audit:read" /\ ConsoleSections["health"] = "org:read"
BY SectionTable DEF AdminSections

(* The parts of a read, plain, within another, quiet or on a press. *)
LEMMA ReadFields ==
  ASSUME NEW k, NEW c, NEW s, NEW w
  PROVE  /\ Read(k, c, s).key = k /\ Read(k, c, s).call = c /\ Read(k, c, s).shownTo = s
         /\ Read(k, c, s).within = 0 /\ ~Read(k, c, s).quiet /\ ~Read(k, c, s).pressed
         /\ Within(Read(k, c, s), w).key = k /\ Within(Read(k, c, s), w).call = c
         /\ Within(Read(k, c, s), w).shownTo = s /\ Within(Read(k, c, s), w).within = w
         /\ ~Within(Read(k, c, s), w).quiet /\ ~Within(Read(k, c, s), w).pressed
         /\ Quiet(Read(k, c, s)).key = k /\ Quiet(Read(k, c, s)).call = c
         /\ Quiet(Read(k, c, s)).shownTo = s /\ Quiet(Read(k, c, s)).within = 0
         /\ ~Quiet(Read(k, c, s)).pressed
         /\ OnPress(Read(k, c, s), w).key = k /\ OnPress(Read(k, c, s), w).call = c
         /\ OnPress(Read(k, c, s), w).shownTo = s /\ OnPress(Read(k, c, s), w).within = w
<1>1. /\ Read(k, c, s).key = k /\ Read(k, c, s).call = c /\ Read(k, c, s).shownTo = s
      /\ Read(k, c, s).within = 0 /\ Read(k, c, s).quiet = FALSE /\ Read(k, c, s).pressed = FALSE
      /\ DOMAIN Read(k, c, s) = {"key", "call", "shownTo", "quiet", "within", "pressed"}
  BY DEF Read
<1>. QED
  BY <1>1 DEF Within, Quiet, OnPress

(* Whoever holds one permission holds the other. *)
Allows(a, b) == \A r \in Role : a \in RolePermissions[r] => b \in RolePermissions[r]

(* Whoever holds two permissions holds a third. *)
Serves(a, b, c) ==
    \A r \in Role : a \in RolePermissions[r] /\ b \in RolePermissions[r] => c \in RolePermissions[r]

(* The cases of Allows the screens use. *)
LEMMA Allowing ==
  /\ \A a, b : b \in Everyone => Allows(a, b)
  /\ \A a : Allows(a, a)
  /\ Allows("org:update", "integration:read") /\ Allows("integration:read", "member:read")
BY RoleTable DEF Allows

(* The cases of Serves the screens use. *)
LEMMA Serving ==
  /\ \A a, b, c : c \in Everyone => Serves(a, b, c)
  /\ \A a, b : Serves(a, b, a) /\ Serves(a, b, b)
  /\ \A a : Serves(a, "org:update", "org:read")
BY RoleTable DEF Serves

(* The key a cached read of a call is held under. *)
KeyFits(call, key) ==
    key # <<>> =>
      /\ call # "myProfile"
      /\ call = "invitations" => key = <<"invitations">>
      /\ call = "sources" => key = <<"sources">>
      /\ call = "jobs" => key = <<"jobs", "state">>
      /\ call = "jobStats" => key = <<"jobs", "stats">>
      /\ call = "connectionPolicies" => key = <<"connection-policies">>
      /\ call = "integrations" => key = <<"integrations">>
      /\ call = "currentOrganisation" => key = <<"organisation">>
      /\ call = "syncSchedule" => key = <<"sync-schedule">>
      /\ call = "basketFiles" => key = <<"basket", "files">>
      /\ call = "ktList" => key = <<"kt", "list">>
      /\ call = "ktGet" => key = <<"kt", "1", "detail">>

(* What one screen's tables owe: whoever sees its entry passes its gate; whoever is    *)
(* shown a read is served it; a read within another is within the first, which stands  *)
(* alone, is loud, and is shown to whoever is shown this one; a read on a press is the *)
(* second.                                                                             *)
PageFits(p) ==
    /\ Allows(ConsoleSections[p], Pages[p].gate)
    /\ \A n \in DOMAIN Pages[p].reads :
         LET q == Pages[p].reads[n] IN
         /\ Serves(ConsoleSections[p], q.shownTo, Needs[q.call])
         /\ q.within # 0 =>
              /\ 1 \in DOMAIN Pages[p].reads /\ q.within = 1 /\ Pages[p].reads[1].within = 0
              /\ ~Pages[p].reads[1].quiet /\ ~Pages[p].reads[1].pressed
              /\ Allows(q.shownTo, Pages[p].reads[1].shownTo)
         /\ KeyFits(q.call, q.key)
         /\ q.pressed => n = 2

(* A read that stands on no other. *)
Alone(s, q) ==
    /\ Serves(s, q.shownTo, Needs[q.call]) /\ KeyFits(q.call, q.key)
    /\ q.within = 0 /\ ~q.pressed

(* A screen without reads owes its gate. *)
LEMMA PageOfNone ==
  ASSUME NEW p, NEW g, Pages[p] = ScreenOf(g, <<>>), Allows(ConsoleSections[p], g)
  PROVE  PageFits(p)
BY DEF PageFits, ScreenOf

(* A screen of one read. *)
LEMMA PageOfOne ==
  ASSUME NEW p, NEW g, NEW a, Pages[p] = ScreenOf(g, <<a>>), Allows(ConsoleSections[p], g),
         Alone(ConsoleSections[p], a)
  PROVE  PageFits(p)
<1>1. Pages[p].gate = g /\ Pages[p].reads = <<a>>
  BY DEF ScreenOf
<1>2. DOMAIN <<a>> = {1} /\ <<a>>[1] = a
  OBVIOUS
<1>. QED
  BY <1>1, <1>2 DEF PageFits, Alone

(* A screen of two reads that stand alone. *)
LEMMA PageOfTwo ==
  ASSUME NEW p, NEW g, NEW a, NEW b, Pages[p] = ScreenOf(g, <<a, b>>), Allows(ConsoleSections[p], g),
         Alone(ConsoleSections[p], a), Alone(ConsoleSections[p], b)
  PROVE  PageFits(p)
<1>1. Pages[p].gate = g /\ Pages[p].reads = <<a, b>>
  BY DEF ScreenOf
<1>2. DOMAIN <<a, b>> = {1, 2} /\ <<a, b>>[1] = a /\ <<a, b>>[2] = b
  OBVIOUS
<1>. QED
  BY <1>1, <1>2 DEF PageFits, Alone

(* A screen whose second read is within the first. *)
LEMMA PageWithin ==
  ASSUME NEW p, NEW g, NEW a, NEW b, Pages[p] = ScreenOf(g, <<a, b>>), Allows(ConsoleSections[p], g),
         Alone(ConsoleSections[p], a), ~a.quiet,
         Serves(ConsoleSections[p], b.shownTo, Needs[b.call]), KeyFits(b.call, b.key),
         b.within = 1, Allows(b.shownTo, a.shownTo)
  PROVE  PageFits(p)
<1>1. Pages[p].gate = g /\ Pages[p].reads = <<a, b>>
  BY DEF ScreenOf
<1>2. DOMAIN <<a, b>> = {1, 2} /\ <<a, b>>[1] = a /\ <<a, b>>[2] = b
  OBVIOUS
<1>. QED
  BY <1>1, <1>2 DEF PageFits, Alone

(* The screen overview: its entry, its gate, its reads and what the server asks agree. *)
LEMMA OverviewPageFits == PageFits("overview")
<1>1. Pages["overview"] = ScreenOf(Open, <<OrganisationRead, CountsRead>>)
  BY DEF Pages, OverviewPage
<1>2. Alone("org:read", OrganisationRead) /\ ~OrganisationRead.quiet /\ OrganisationRead.shownTo = Open
  BY ReadFields, Serving, OwnNeeds DEF OrganisationRead, OnMountRead, Alone, KeyFits
<1>3. /\ Serves("org:read", CountsRead.shownTo, Needs[CountsRead.call])
      /\ CountsRead.within = 1 /\ KeyFits(CountsRead.call, CountsRead.key)
  BY ReadFields, Serving, AdminNeeds DEF CountsRead, KeyFits
<1>. QED
  BY <1>1, <1>2, <1>3, PageWithin, AdminSectionTable, Allowing DEF Open, Everyone

(* The screen employees: its entry, its gate, its reads and what the server asks agree. *)
LEMMA EmployeesPageFits == PageFits("employees")
<1>1. Pages["employees"] = ScreenOf("member:read", <<OnMountRead("employees", "member:read")>>)
  BY DEF Pages, EmployeesPage
<1>2. Alone("member:read", OnMountRead("employees", "member:read"))
  BY ReadFields, Serving, OwnNeeds DEF Alone, KeyFits, Open, Everyone, OnMountRead
<1>. QED
  BY <1>1, <1>2, PageOfOne, AdminSectionTable, Allowing DEF Open, Everyone

(* The screen invitations: its entry, its gate, its reads and what the server asks *)
(* agree.                                                                          *)
LEMMA InvitationsPageFits == PageFits("invitations")
<1>1. Pages["invitations"] =
      ScreenOf("member:invite", <<Read(<<"invitations">>, "invitations", "member:invite")>>)
  BY DEF Pages, InvitationsPage
<1>2. Alone("member:invite", Read(<<"invitations">>, "invitations", "member:invite"))
  BY ReadFields, Serving, AdminNeeds DEF Alone, KeyFits, Open, Everyone
<1>. QED
  BY <1>1, <1>2, PageOfOne, AdminSectionTable, Allowing DEF Open, Everyone

(* The screen departments: its entry, its gate, its reads and what the server asks *)
(* agree.                                                                          *)
LEMMA DepartmentsPageFits == PageFits("departments")
<1>1. Pages["departments"] =
      ScreenOf("member:read", <<Read(<<"departments">>, "departments", "member:read")>>)
  BY DEF Pages, DepartmentsPage
<1>2. Alone("member:read", Read(<<"departments">>, "departments", "member:read"))
  BY ReadFields, Serving, KnowledgeNeeds DEF Alone, KeyFits, Open, Everyone
<1>. QED
  BY <1>1, <1>2, PageOfOne, AdminSectionTable, Allowing DEF Open, Everyone

(* The screen sources: its entry, its gate, its reads and what the server asks agree. *)
LEMMA SourcesPageFits == PageFits("sources")
<1>1. Pages["sources"] =
      ScreenOf("integration:read", <<Read(<<"sources">>, "sources", "integration:read")>>)
  BY DEF Pages, SourcesPage
<1>2. Alone("integration:read", Read(<<"sources">>, "sources", "integration:read"))
  BY ReadFields, Serving, AdminNeeds DEF Alone, KeyFits, Open, Everyone
<1>. QED
  BY <1>1, <1>2, PageOfOne, AdminSectionTable, Allowing DEF Open, Everyone

(* The screen apps: its entry, its gate, its reads and what the server asks agree. *)
LEMMA AppsPageFits == PageFits("apps")
<1>1. Pages["apps"] =
      ScreenOf("integration:read", <<Read(<<"connections", "summary">>, "connectionSummary", "integration:read")>>)
  BY DEF Pages, AppsPage
<1>2. Alone("integration:read",
            Read(<<"connections", "summary">>, "connectionSummary", "integration:read"))
  BY ReadFields, Serving, ToolNeeds DEF Alone, KeyFits, Open, Everyone
<1>. QED
  BY <1>1, <1>2, PageOfOne, AdminSectionTable, Allowing DEF Open, Everyone

(* The screen connection_policies: its entry, its gate, its reads and what the server *)
(* asks agree.                                                                        *)
LEMMA ConnectionPoliciesPageFits == PageFits("connection_policies")
<1>1. Pages["connection_policies"] =
      ScreenOf("integration:read", <<Read(<<"connection-policies">>, "connectionPolicies", "integration:read")>>)
  BY DEF Pages, ConnectionPoliciesPage
<1>2. Alone("org:update", Read(<<"connection-policies">>, "connectionPolicies", "integration:read"))
  BY ReadFields, Serving, ToolNeeds DEF Alone, KeyFits, Open, Everyone
<1>. QED
  BY <1>1, <1>2, PageOfOne, AdminSectionTable, Allowing DEF Open, Everyone

(* The screen identities: its entry, its gate, its reads and what the server asks *)
(* agree.                                                                         *)
LEMMA IdentitiesPageFits == PageFits("identities")
<1>1. Pages["identities"] = ScreenOf("member:read", <<OnMountRead("employees", "member:read")>>)
  BY DEF Pages, IdentitiesPage
<1>2. Alone("integration:read", OnMountRead("employees", "member:read"))
  BY ReadFields, Serving, OwnNeeds DEF Alone, KeyFits, Open, Everyone, OnMountRead
<1>. QED
  BY <1>1, <1>2, PageOfOne, AdminSectionTable, Allowing DEF Open, Everyone

(* The screen roles: its entry, its gate, its reads and what the server asks agree. *)
LEMMA RolesPageFits == PageFits("roles")
<1>1. Pages["roles"] = ScreenOf("org:read", <<Read(<<"roles">>, "roles", "org:read")>>)
  BY DEF Pages, RolesPage
<1>2. Alone("org:read", Read(<<"roles">>, "roles", "org:read"))
  BY ReadFields, Serving, ToolNeeds DEF Alone, KeyFits, Open, Everyone
<1>. QED
  BY <1>1, <1>2, PageOfOne, AdminSectionTable, Allowing DEF Open, Everyone

(* The screen audit: its entry, its gate, its reads and what the server asks agree. *)
LEMMA AuditPageFits == PageFits("audit")
<1>1. Pages["audit"] = ScreenOf("audit:read", <<Read(<<"audit">>, "audit", "audit:read")>>)
  BY DEF Pages, AuditPage
<1>2. Alone("audit:read", Read(<<"audit">>, "audit", "audit:read"))
  BY ReadFields, Serving, AdminNeeds DEF Alone, KeyFits, Open, Everyone
<1>. QED
  BY <1>1, <1>2, PageOfOne, AdminSectionTable, Allowing DEF Open, Everyone

(* The screen ask: its entry, its gate, its reads and what the server asks agree. *)
LEMMA AskPageFits == PageFits("ask")
<1>1. Pages["ask"] = ScreenOf(Open, <<TenantRead>>)
  BY DEF Pages, AskPage
<1>2. Alone(ConsoleSections["ask"], TenantRead)
  BY ReadFields, Serving, OwnNeeds DEF Alone, KeyFits, Open, Everyone, TenantRead
<1>. QED
  BY <1>1, <1>2, PageOfOne, Allowing DEF Open, Everyone

(* The screen my_knowledge: its entry, its gate, its reads and what the server asks *)
(* agree.                                                                           *)
LEMMA MyKnowledgePageFits == PageFits("my_knowledge")
<1>1. Pages["my_knowledge"] = ScreenOf(Open, <<Read(<<"me", "knowledge">>, "myKnowledge", Open)>>)
  BY DEF Pages, MyKnowledgePage
<1>2. Alone(ConsoleSections["my_knowledge"], Read(<<"me", "knowledge">>, "myKnowledge", Open))
  BY ReadFields, Serving, KnowledgeNeeds DEF Alone, KeyFits, Open, Everyone
<1>. QED
  BY <1>1, <1>2, PageOfOne, Allowing DEF Open, Everyone

(* The screen basket: its entry, its gate, its reads and what the server asks agree. *)
LEMMA BasketPageFits == PageFits("basket")
<1>1. Pages["basket"] = ScreenOf(Open, <<Read(<<"basket", "files">>, "basketFiles", Open)>>)
  BY DEF Pages, BasketPage
<1>2. Alone(ConsoleSections["basket"], Read(<<"basket", "files">>, "basketFiles", Open))
  BY ReadFields, Serving, BasketNeeds DEF Alone, KeyFits, Open, Everyone
<1>. QED
  BY <1>1, <1>2, PageOfOne, Allowing DEF Open, Everyone

(* The screen handover: its entry, its gate, its reads and what the server asks agree. *)
LEMMA HandoverPageFits == PageFits("handover")
<1>1. Pages["handover"] = ScreenOf(Open, <<TenantRead>>)
  BY DEF Pages, HandoverPage
<1>2. Alone(ConsoleSections["handover"], TenantRead)
  BY ReadFields, Serving, OwnNeeds DEF Alone, KeyFits, Open, Everyone, TenantRead
<1>. QED
  BY <1>1, <1>2, PageOfOne, Allowing DEF Open, Everyone

(* The screen my_identities: its entry, its gate, its reads and what the server asks *)
(* agree.                                                                            *)
LEMMA MyIdentitiesPageFits == PageFits("my_identities")
<1>1. Pages["my_identities"] = ScreenOf(Open, <<OnMountRead("myIdentities", Open)>>)
  BY DEF Pages, MyIdentitiesPage
<1>2. Alone(ConsoleSections["my_identities"], OnMountRead("myIdentities", Open))
  BY ReadFields, Serving, OwnNeeds DEF Alone, KeyFits, Open, Everyone, OnMountRead
<1>. QED
  BY <1>1, <1>2, PageOfOne, Allowing DEF Open, Everyone

(* The screen profile: its entry, its gate, its reads and what the server asks agree. *)
LEMMA ProfilePageFits == PageFits("profile")
<1>1. Pages["profile"] = ScreenOf(Open, <<OnMountRead("myProfile", Open)>>)
  BY DEF Pages, ProfilePage
<1>2. Alone(ConsoleSections["profile"], OnMountRead("myProfile", Open))
  BY ReadFields, Serving, OwnNeeds DEF Alone, KeyFits, Open, Everyone, OnMountRead
<1>. QED
  BY <1>1, <1>2, PageOfOne, Allowing DEF Open, Everyone

(* The screen settings: its entry, its gate, its reads and what the server asks agree. *)
LEMMA SettingsPageFits == PageFits("settings")
<1>1. Pages["settings"] =
        ScreenOf(Open, <<Read(<<"organisation">>, "currentOrganisation", "org:update"),
                        ScheduleRead>>)
  BY DEF Pages, SettingsPage
<1>2. Alone("org:update", Read(<<"organisation">>, "currentOrganisation", "org:update"))
  BY ReadFields, Serving, OwnNeeds DEF Alone, KeyFits, Open, Everyone
<1>3. Alone("org:update", ScheduleRead)
  BY ReadFields, Serving, ToolNeeds DEF Alone, KeyFits, Open, Everyone, ScheduleRead
<1>. QED
  BY <1>1, <1>2, <1>3, PageOfTwo, AdminSectionTable, Allowing DEF Open, Everyone

(* The screen jobs: its entry, its gate, its reads and what the server asks agree. *)
LEMMA JobsPageFits == PageFits("jobs")
<1>1. Pages["jobs"] =
        ScreenOf("org:read", <<Read(<<"jobs", "stats">>, "jobStats", "org:read"),
                        Read(<<"jobs", "state">>, "jobs", "org:read")>>)
  BY DEF Pages, JobsPage
<1>2. Alone("org:read", Read(<<"jobs", "stats">>, "jobStats", "org:read"))
  BY ReadFields, Serving, AdminNeeds DEF Alone, KeyFits, Open, Everyone
<1>3. Alone("org:read", Read(<<"jobs", "state">>, "jobs", "org:read"))
  BY ReadFields, Serving, AdminNeeds DEF Alone, KeyFits, Open, Everyone
<1>. QED
  BY <1>1, <1>2, <1>3, PageOfTwo, AdminSectionTable, Allowing DEF Open, Everyone

(* The screen integrations: its entry, its gate, its reads and what the server asks *)
(* agree.                                                                           *)
LEMMA IntegrationsPageFits == PageFits("integrations")
<1>1. Pages["integrations"] =
        ScreenOf(Open, <<Read(<<"integrations">>, "integrations", Open),
                        Quiet(ScheduleRead)>>)
  BY DEF Pages, IntegrationsPage
<1>2. Alone(ConsoleSections["integrations"], Read(<<"integrations">>, "integrations", Open))
  BY ReadFields, Serving, ToolNeeds DEF Alone, KeyFits, Open, Everyone
<1>3. Alone(ConsoleSections["integrations"], Quiet(ScheduleRead))
  BY ReadFields, Serving, ToolNeeds DEF Alone, KeyFits, Open, Everyone, ScheduleRead
<1>. QED
  BY <1>1, <1>2, <1>3, PageOfTwo, Allowing DEF Open, Everyone

(* The screen knowledge_transfer: its entry, its gate, its reads and what the server *)
(* asks agree.                                                                       *)
LEMMA KnowledgeTransferPageFits == PageFits("knowledge_transfer")
<1> DEFINE a == Read(<<"kt", "list">>, "ktList", "kt:manage")
           b == DetailRead
<1>1. Pages["knowledge_transfer"] = ScreenOf("kt:manage", <<a, b>>)
  BY DEF Pages, KnowledgeTransferPage
<1>2. Alone("kt:manage", a) /\ ~a.quiet /\ a.shownTo = "kt:manage"
  BY ReadFields, Serving, PackageCallNeeds DEF Alone, KeyFits, Open, Everyone
<1>3. /\ Serves("kt:manage", b.shownTo, Needs[b.call])
      /\ b.within = 1 /\ KeyFits(b.call, b.key) /\ b.shownTo = "kt:manage"
  BY ReadFields, Serving, PackageCallNeeds DEF KeyFits, Open, Everyone, DetailRead
<1> HIDE DEF a, b
<1>. QED
  BY <1>1, <1>2, <1>3, PageWithin, AdminSectionTable, Allowing DEF Open, Everyone

(* The screen health: its entry, its gate, its reads and what the server asks agree. *)
LEMMA HealthPageFits == PageFits("health")
<1> DEFINE a == Read(<<"readyz">>, "ready", "org:read")
           b == Within(Read(<<"jobs", "stats">>, "jobStats", "org:read"), 1)
<1>1. Pages["health"] = ScreenOf("org:read", <<a, b>>)
  BY DEF Pages, HealthPage
<1>2. Alone("org:read", a) /\ ~a.quiet /\ a.shownTo = "org:read"
  BY ReadFields, Serving, ToolNeeds DEF Alone, KeyFits, Open, Everyone
<1>3. /\ Serves("org:read", b.shownTo, Needs[b.call])
      /\ b.within = 1 /\ KeyFits(b.call, b.key) /\ b.shownTo = "org:read"
  BY ReadFields, Serving, AdminNeeds DEF KeyFits, Open, Everyone
<1> HIDE DEF a, b
<1>. QED
  BY <1>1, <1>2, <1>3, PageWithin, AdminSectionTable, Allowing DEF Open, Everyone

(* The screen kt_overview: its entry, its gate, its reads and what the server asks *)
(* agree.                                                                          *)
LEMMA KtOverviewPageFits == PageFits("kt_overview")
<1> DEFINE a == Claim
           b == WorkspaceRead
<1>1. Pages["kt_overview"] = ScreenOf(Open, <<a, b>>)
  BY DEF Pages, KtOverviewPage
<1>2. Alone(ConsoleSections["kt_overview"], a) /\ ~a.quiet /\ a.shownTo = Open
  BY ReadFields, Serving, PackageCallNeeds DEF Alone, KeyFits, Open, Everyone, Claim
<1>3. /\ Serves(ConsoleSections["kt_overview"], b.shownTo, Needs[b.call])
      /\ b.within = 1 /\ KeyFits(b.call, b.key) /\ b.shownTo = Open
  BY ReadFields, Serving, PackageCallNeeds DEF KeyFits, Open, Everyone, WorkspaceRead
<1> HIDE DEF a, b
<1>. QED
  BY <1>1, <1>2, <1>3, PageWithin, Allowing DEF Open, Everyone

(* The screen kt_files: its entry, its gate, its reads and what the server asks agree. *)
LEMMA KtFilesPageFits == PageFits("kt_files")
<1> DEFINE a == Claim
           b == Within(Read(<<"kt", "1", "files">>, "ktFiles", Open), 1)
<1>1. Pages["kt_files"] = ScreenOf(Open, <<a, b>>)
  BY DEF Pages, KtFilesPage
<1>2. Alone(ConsoleSections["kt_files"], a) /\ ~a.quiet /\ a.shownTo = Open
  BY ReadFields, Serving, PackageCallNeeds DEF Alone, KeyFits, Open, Everyone, Claim
<1>3. /\ Serves(ConsoleSections["kt_files"], b.shownTo, Needs[b.call])
      /\ b.within = 1 /\ KeyFits(b.call, b.key) /\ b.shownTo = Open
  BY ReadFields, Serving, PackageCallNeeds DEF KeyFits, Open, Everyone
<1> HIDE DEF a, b
<1>. QED
  BY <1>1, <1>2, <1>3, PageWithin, Allowing DEF Open, Everyone

(* The screen kt_tab: its entry, its gate, its reads and what the server asks agree. *)
LEMMA KtTabPageFits == PageFits("kt_tab")
<1> DEFINE a == Claim
           b == InsightsRead
<1>1. Pages["kt_tab"] = ScreenOf(Open, <<a, b>>)
  BY DEF Pages, KtTabPage
<1>2. Alone(ConsoleSections["kt_tab"], a) /\ ~a.quiet /\ a.shownTo = Open
  BY ReadFields, Serving, PackageCallNeeds DEF Alone, KeyFits, Open, Everyone, Claim
<1>3. /\ Serves(ConsoleSections["kt_tab"], b.shownTo, Needs[b.call])
      /\ b.within = 1 /\ KeyFits(b.call, b.key) /\ b.shownTo = Open
  BY ReadFields, Serving, PackageCallNeeds DEF KeyFits, Open, Everyone, InsightsRead
<1> HIDE DEF a, b
<1>. QED
  BY <1>1, <1>2, <1>3, PageWithin, Allowing DEF Open, Everyone

(* The screen kt_timeline: its entry, its gate, its reads and what the server asks *)
(* agree.                                                                          *)
LEMMA KtTimelinePageFits == PageFits("kt_timeline")
<1> DEFINE a == Claim
           b == InsightsRead
<1>1. Pages["kt_timeline"] = ScreenOf(Open, <<a, b>>)
  BY DEF Pages, KtTimelinePage
<1>2. Alone(ConsoleSections["kt_timeline"], a) /\ ~a.quiet /\ a.shownTo = Open
  BY ReadFields, Serving, PackageCallNeeds DEF Alone, KeyFits, Open, Everyone, Claim
<1>3. /\ Serves(ConsoleSections["kt_timeline"], b.shownTo, Needs[b.call])
      /\ b.within = 1 /\ KeyFits(b.call, b.key) /\ b.shownTo = Open
  BY ReadFields, Serving, PackageCallNeeds DEF KeyFits, Open, Everyone, InsightsRead
<1> HIDE DEF a, b
<1>. QED
  BY <1>1, <1>2, <1>3, PageWithin, Allowing DEF Open, Everyone

(* The screen me: its entry, its gate, its reads and what the server asks agree. *)
LEMMA MePageFits == PageFits("me")
<1>1. Pages["me"] = ScreenOf(Open, <<>>)
  BY DEF Pages, MePage
<1>. QED
  BY <1>1, PageOfNone, Allowing DEF Open, Everyone

(* Every screen's tables agree. *)
LEMMA PagesFit == \A p \in DOMAIN Pages : PageFits(p)
<1>1. DOMAIN Pages =
        {"overview", "employees", "invitations", "departments", "knowledge_transfer", "sources", "apps",
         "connection_policies", "identities", "roles", "settings", "jobs", "audit", "health", "me", "ask",
         "my_knowledge", "basket", "handover", "integrations", "my_identities", "profile",
         "kt_overview", "kt_files", "kt_tab", "kt_timeline"}
  BY DEF Pages
<1>. QED
  BY <1>1, OverviewPageFits, EmployeesPageFits, InvitationsPageFits, DepartmentsPageFits,
     KnowledgeTransferPageFits, SourcesPageFits, AppsPageFits, ConnectionPoliciesPageFits,
     IdentitiesPageFits, RolesPageFits, SettingsPageFits, JobsPageFits, AuditPageFits,
     HealthPageFits, MePageFits, AskPageFits, MyKnowledgePageFits, BasketPageFits, HandoverPageFits,
     IntegrationsPageFits, MyIdentitiesPageFits, ProfilePageFits, KtOverviewPageFits,
     KtFilesPageFits, KtTabPageFits, KtTimelinePageFits

(* What Begins asks for, element by element. *)
LEMMA BeginsWhen ==
  ASSUME NEW S, NEW p \in Seq(S), NEW s \in Seq(S), Len(p) <= Len(s), \A i \in 1..Len(p) : p[i] = s[i]
  PROVE  Begins(p, s)
<1> DEFINE t == SubSeq(s, 1, Len(p))
<1>1. Len(p) \in Nat /\ Len(s) \in Nat
  BY LenProperties
<1>2. \A i \in 1..Len(p) : i \in 1..Len(s) /\ s[i] \in S
  BY <1>1, ElementOfSeq
<1>3. 1 \in Int /\ Len(p) \in Int
  BY <1>1
<1>4. /\ t \in Seq(S) /\ Len(t) = (IF 1 <= Len(p) THEN Len(p) - 1 + 1 ELSE 0)
      /\ \A i \in 1..(Len(p) - 1 + 1) : t[i] = s[1 + i - 1]
  BY <1>2, <1>3, SubSeqProperties
<1> HIDE DEF t
<1>5. Len(t) = Len(p) /\ \A i \in 1..Len(t) : t[i] = p[i]
  BY <1>1, <1>4
<1>6. t = p
  BY <1>4, <1>5, SeqEqual
<1>. QED
  BY <1>6 DEF Begins, t

(* The beginnings of keys that are used. *)
LEMMA Beginnings ==
  ASSUME NEW a, NEW b, NEW c
  PROVE  /\ Begins(<<a>>, <<a>>) /\ Begins(<<a>>, <<a, b>>)
         /\ Begins(<<a, b>>, <<a, b>>) /\ Begins(<<a, b>>, <<a, b, c>>)
<1> DEFINE S == {a, b, c}
<1>1. /\ <<a>> \in Seq(S) /\ Len(<<a>>) = 1 /\ <<a>>[1] = a
  BY DEF S
<1>2. /\ <<a, b>> \in Seq(S) /\ Len(<<a, b>>) = 2 /\ <<a, b>>[1] = a /\ <<a, b>>[2] = b
  BY DEF S
<1>3. /\ <<a, b, c>> \in Seq(S) /\ Len(<<a, b, c>>) = 3
      /\ <<a, b, c>>[1] = a /\ <<a, b, c>>[2] = b
  BY DEF S
<1> HIDE DEF S
<1>4. 1..1 = {1} /\ 1..2 = {1, 2}
  OBVIOUS
<1>5. ASSUME NEW p \in Seq(S), NEW s \in Seq(S), Len(p) <= Len(s), \A i \in 1..Len(p) : p[i] = s[i]
      PROVE  Begins(p, s)
  BY <1>5, BeginsWhen
<1>6. Begins(<<a>>, <<a>>)
  <2>1. Len(<<a>>) <= Len(<<a>>) /\ \A i \in 1..Len(<<a>>) : <<a>>[i] = <<a>>[i]
    BY <1>1
  <2>. QED
    BY <1>1, <2>1, <1>5
<1>7. Begins(<<a>>, <<a, b>>)
  <2>1. Len(<<a>>) <= Len(<<a, b>>) /\ \A i \in 1..Len(<<a>>) : <<a>>[i] = <<a, b>>[i]
    BY <1>1, <1>2, <1>4
  <2>. QED
    BY <1>1, <1>2, <2>1, <1>5
<1>8. Begins(<<a, b>>, <<a, b>>)
  <2>1. Len(<<a, b>>) <= Len(<<a, b>>) /\ \A i \in 1..Len(<<a, b>>) : <<a, b>>[i] = <<a, b>>[i]
    BY <1>2
  <2>. QED
    BY <1>2, <2>1, <1>5
<1>9. Begins(<<a, b>>, <<a, b, c>>)
  <2>1. Len(<<a, b>>) <= Len(<<a, b, c>>) /\ \A i \in 1..Len(<<a, b>>) : <<a, b>>[i] = <<a, b, c>>[i]
    BY <1>2, <1>3, <1>4
  <2>. QED
    BY <1>2, <1>3, <2>1, <1>5
<1>. QED
  BY <1>6, <1>7, <1>8, <1>9

(* What one write's tables owe: whoever sees its control may make it, and each cached *)
(* read it changes is among those it tells, but for the pairs Untold names.           *)
DeedFits(d) ==
    /\ Allows(Deeds[d].shownTo, Needs[Deeds[d].call])
    /\ \A call \in Deeds[d].changes : \A key :
         KeyFits(call, key) /\ key # <<>> /\ ~Untold(d, call) => \E p \in Deeds[d].tells : Begins(p, key)

(* The write invite: its control, the server and the reads it tells agree. *)
LEMMA InviteDeedFits == DeedFits("invite")
<1>1. Deeds["invite"] = InviteDeed
  BY DEF Deeds
<1>2. /\ InviteDeed.shownTo = "member:invite" /\ InviteDeed.call = "invite"
      /\ InviteDeed.changes = {"invitations", "overview", "audit"}
      /\ InviteDeed.tells = {}
  BY DEF InviteDeed, Deed
<1>4. Allows(Deeds["invite"].shownTo, Needs[Deeds["invite"].call])
  BY <1>1, <1>2, Allowing, OwnNeeds DEF Open, Everyone
<1>5. ASSUME NEW call \in Deeds["invite"].changes, NEW key,
             KeyFits(call, key), key # <<>>, ~Untold("invite", call)
      PROVE  \E p \in Deeds["invite"].tells : Begins(p, key)
  BY <1>1, <1>2, <1>5 DEF KeyFits, Untold
<1>. QED
  BY <1>4, <1>5 DEF DeedFits

(* The write import: its control, the server and the reads it tells agree. *)
LEMMA ImportDeedFits == DeedFits("import")
<1>1. Deeds["import"] = ImportDeed
  BY DEF Deeds
<1>2. /\ ImportDeed.shownTo = "member:invite" /\ ImportDeed.call = "inviteMany"
      /\ ImportDeed.changes = {"invitations", "overview", "audit"}
      /\ ImportDeed.tells = {}
  BY DEF ImportDeed, Deed
<1>4. Allows(Deeds["import"].shownTo, Needs[Deeds["import"].call])
  BY <1>1, <1>2, Allowing, OwnNeeds DEF Open, Everyone
<1>5. ASSUME NEW call \in Deeds["import"].changes, NEW key,
             KeyFits(call, key), key # <<>>, ~Untold("import", call)
      PROVE  \E p \in Deeds["import"].tells : Begins(p, key)
  BY <1>1, <1>2, <1>5 DEF KeyFits, Untold
<1>. QED
  BY <1>4, <1>5 DEF DeedFits

(* The write revoke_connection: its control, the server and the reads it tells agree. *)
LEMMA RevokeConnectionDeedFits == DeedFits("revoke_connection")
<1>1. Deeds["revoke_connection"] = RevokeConnectionDeed
  BY DEF Deeds
<1>2. /\ RevokeConnectionDeed.shownTo = "integration:revoke"
      /\ RevokeConnectionDeed.call = "revokeConnection"
      /\ RevokeConnectionDeed.changes = {"connectionSummary", "audit"}
      /\ RevokeConnectionDeed.tells = {<<"employee-connections">>}
  BY DEF RevokeConnectionDeed, Deed
<1>4. Allows(Deeds["revoke_connection"].shownTo, Needs[Deeds["revoke_connection"].call])
  BY <1>1, <1>2, Allowing, ToolNeeds DEF Open, Everyone
<1>5. ASSUME NEW call \in Deeds["revoke_connection"].changes, NEW key,
             KeyFits(call, key), key # <<>>, ~Untold("revoke_connection", call)
      PROVE  \E p \in Deeds["revoke_connection"].tells : Begins(p, key)
  BY <1>1, <1>2, <1>5 DEF KeyFits, Untold
<1>. QED
  BY <1>4, <1>5 DEF DeedFits

(* The write revoke_invitation: its control, the server and the reads it tells agree. *)
LEMMA RevokeInvitationDeedFits == DeedFits("revoke_invitation")
<1>1. Deeds["revoke_invitation"] = InvitationDeed("revokeInvitation")
  BY DEF Deeds
<1>2. /\ InvitationDeed("revokeInvitation").shownTo = "member:invite"
      /\ InvitationDeed("revokeInvitation").call = "revokeInvitation"
      /\ InvitationDeed("revokeInvitation").changes = {"invitations", "overview", "audit"}
      /\ InvitationDeed("revokeInvitation").tells = {<<"invitations">>}
  BY DEF InvitationDeed, Deed
<1>3. Begins(<<"invitations">>, <<"invitations">>)
  BY Beginnings
<1>4. Allows(Deeds["revoke_invitation"].shownTo, Needs[Deeds["revoke_invitation"].call])
  BY <1>1, <1>2, Allowing, AdminNeeds DEF Open, Everyone
<1>5. ASSUME NEW call \in Deeds["revoke_invitation"].changes, NEW key,
             KeyFits(call, key), key # <<>>, ~Untold("revoke_invitation", call)
      PROVE  \E p \in Deeds["revoke_invitation"].tells : Begins(p, key)
  BY <1>1, <1>2, <1>3, <1>5 DEF KeyFits, Untold
<1>. QED
  BY <1>4, <1>5 DEF DeedFits

(* The write resend_invitation: its control, the server and the reads it tells agree. *)
LEMMA ResendInvitationDeedFits == DeedFits("resend_invitation")
<1>1. Deeds["resend_invitation"] = InvitationDeed("resendInvitation")
  BY DEF Deeds
<1>2. /\ InvitationDeed("resendInvitation").shownTo = "member:invite"
      /\ InvitationDeed("resendInvitation").call = "resendInvitation"
      /\ InvitationDeed("resendInvitation").changes = {"invitations", "overview", "audit"}
      /\ InvitationDeed("resendInvitation").tells = {<<"invitations">>}
  BY DEF InvitationDeed, Deed
<1>3. Begins(<<"invitations">>, <<"invitations">>)
  BY Beginnings
<1>4. Allows(Deeds["resend_invitation"].shownTo, Needs[Deeds["resend_invitation"].call])
  BY <1>1, <1>2, Allowing, AdminNeeds DEF Open, Everyone
<1>5. ASSUME NEW call \in Deeds["resend_invitation"].changes, NEW key,
             KeyFits(call, key), key # <<>>, ~Untold("resend_invitation", call)
      PROVE  \E p \in Deeds["resend_invitation"].tells : Begins(p, key)
  BY <1>1, <1>2, <1>3, <1>5 DEF KeyFits, Untold
<1>. QED
  BY <1>4, <1>5 DEF DeedFits

(* The write resync: its control, the server and the reads it tells agree. *)
LEMMA ResyncDeedFits == DeedFits("resync")
<1>1. Deeds["resync"] = ResyncDeed
  BY DEF Deeds
<1>2. /\ ResyncDeed.shownTo = "integration:connect" /\ ResyncDeed.call = "resyncSource"
      /\ ResyncDeed.changes = {"sources", "jobs", "jobStats", "audit"}
      /\ ResyncDeed.tells = {<<"sources">>, <<"jobs">>}
  BY DEF ResyncDeed, Deed
<1>3. /\ Begins(<<"sources">>, <<"sources">>)
      /\ Begins(<<"jobs">>, <<"jobs", "state">>)
      /\ Begins(<<"jobs">>, <<"jobs", "stats">>)
  BY Beginnings
<1>4. Allows(Deeds["resync"].shownTo, Needs[Deeds["resync"].call])
  BY <1>1, <1>2, Allowing, AdminNeeds DEF Open, Everyone
<1>5. ASSUME NEW call \in Deeds["resync"].changes, NEW key,
             KeyFits(call, key), key # <<>>, ~Untold("resync", call)
      PROVE  \E p \in Deeds["resync"].tells : Begins(p, key)
  BY <1>1, <1>2, <1>3, <1>5 DEF KeyFits, Untold
<1>. QED
  BY <1>4, <1>5 DEF DeedFits

(* The write set_policy: its control, the server and the reads it tells agree. *)
LEMMA PolicyDeedFits == DeedFits("set_policy")
<1>1. Deeds["set_policy"] = PolicyDeed
  BY DEF Deeds
<1>2. /\ PolicyDeed.shownTo = "org:update" /\ PolicyDeed.call = "setConnectionPolicy"
      /\ PolicyDeed.changes = {"connectionPolicies", "integrations", "audit"}
      /\ PolicyDeed.tells = {<<"connection-policies">>, <<"integrations">>}
  BY DEF PolicyDeed, Deed
<1>3. /\ Begins(<<"connection-policies">>, <<"connection-policies">>)
      /\ Begins(<<"integrations">>, <<"integrations">>)
  BY Beginnings
<1>4. Allows(Deeds["set_policy"].shownTo, Needs[Deeds["set_policy"].call])
  BY <1>1, <1>2, Allowing, ToolNeeds DEF Open, Everyone
<1>5. ASSUME NEW call \in Deeds["set_policy"].changes, NEW key,
             KeyFits(call, key), key # <<>>, ~Untold("set_policy", call)
      PROVE  \E p \in Deeds["set_policy"].tells : Begins(p, key)
  BY <1>1, <1>2, <1>3, <1>5 DEF KeyFits, Untold
<1>. QED
  BY <1>4, <1>5 DEF DeedFits

(* The write rename: its control, the server and the reads it tells agree. *)
LEMMA RenameDeedFits == DeedFits("rename")
<1>1. Deeds["rename"] = RenameDeed
  BY DEF Deeds
<1>2. /\ RenameDeed.shownTo = "org:update" /\ RenameDeed.call = "renameOrganisation"
      /\ RenameDeed.changes = {"currentOrganisation", "myOrganisation", "audit"}
      /\ RenameDeed.tells = {<<"organisation">>}
  BY DEF RenameDeed, Deed
<1>3. Begins(<<"organisation">>, <<"organisation">>)
  BY Beginnings
<1>4. Allows(Deeds["rename"].shownTo, Needs[Deeds["rename"].call])
  BY <1>1, <1>2, Allowing, AdminNeeds DEF Open, Everyone
<1>5. ASSUME NEW call \in Deeds["rename"].changes, NEW key,
             KeyFits(call, key), key # <<>>, ~Untold("rename", call)
      PROVE  \E p \in Deeds["rename"].tells : Begins(p, key)
  BY <1>1, <1>2, <1>3, <1>5 DEF KeyFits, Untold
<1>. QED
  BY <1>4, <1>5 DEF DeedFits

(* The write set_schedule: its control, the server and the reads it tells agree. *)
LEMMA ScheduleDeedFits == DeedFits("set_schedule")
<1>1. Deeds["set_schedule"] = ScheduleDeed
  BY DEF Deeds
<1>2. /\ ScheduleDeed.shownTo = "sync:schedule_manage" /\ ScheduleDeed.call = "updateSyncSchedule"
      /\ ScheduleDeed.changes = {"syncSchedule", "audit"}
      /\ ScheduleDeed.tells = {<<"sync-schedule">>}
  BY DEF ScheduleDeed, Deed
<1>3. Begins(<<"sync-schedule">>, <<"sync-schedule">>)
  BY Beginnings
<1>4. Allows(Deeds["set_schedule"].shownTo, Needs[Deeds["set_schedule"].call])
  BY <1>1, <1>2, Allowing, ToolNeeds DEF Open, Everyone
<1>5. ASSUME NEW call \in Deeds["set_schedule"].changes, NEW key,
             KeyFits(call, key), key # <<>>, ~Untold("set_schedule", call)
      PROVE  \E p \in Deeds["set_schedule"].tells : Begins(p, key)
  BY <1>1, <1>2, <1>3, <1>5 DEF KeyFits, Untold
<1>. QED
  BY <1>4, <1>5 DEF DeedFits

(* The write disconnect: its control, the server and the reads it tells agree. *)
LEMMA DisconnectDeedFits == DeedFits("disconnect")
<1>1. Deeds["disconnect"] = DisconnectDeed
  BY DEF Deeds
<1>2. /\ DisconnectDeed.shownTo = Open /\ DisconnectDeed.call = "disconnectIntegration"
      /\ DisconnectDeed.changes = {"integrations", "connectionSummary", "audit"}
      /\ DisconnectDeed.tells = {<<"integrations">>}
  BY DEF DisconnectDeed, Deed
<1>3. Begins(<<"integrations">>, <<"integrations">>)
  BY Beginnings
<1>4. Allows(Deeds["disconnect"].shownTo, Needs[Deeds["disconnect"].call])
  BY <1>1, <1>2, Allowing, ToolNeeds DEF Open, Everyone
<1>5. ASSUME NEW call \in Deeds["disconnect"].changes, NEW key,
             KeyFits(call, key), key # <<>>, ~Untold("disconnect", call)
      PROVE  \E p \in Deeds["disconnect"].tells : Begins(p, key)
  BY <1>1, <1>2, <1>3, <1>5 DEF KeyFits, Untold
<1>. QED
  BY <1>4, <1>5 DEF DeedFits

(* The write sync_now: its control, the server and the reads it tells agree. *)
LEMMA SyncDeedFits == DeedFits("sync_now")
<1>1. Deeds["sync_now"] = SyncDeed
  BY DEF Deeds
<1>2. /\ SyncDeed.shownTo = Open /\ SyncDeed.call = "syncNow"
      /\ SyncDeed.changes = {"jobs", "jobStats", "audit"}
      /\ SyncDeed.tells = {<<"integrations">>}
  BY DEF SyncDeed, Deed
<1>4. Allows(Deeds["sync_now"].shownTo, Needs[Deeds["sync_now"].call])
  BY <1>1, <1>2, Allowing, ToolNeeds DEF Open, Everyone
<1>5. ASSUME NEW call \in Deeds["sync_now"].changes, NEW key,
             KeyFits(call, key), key # <<>>, ~Untold("sync_now", call)
      PROVE  \E p \in Deeds["sync_now"].tells : Begins(p, key)
  BY <1>1, <1>2, <1>5 DEF KeyFits, Untold
<1>. QED
  BY <1>4, <1>5 DEF DeedFits

(* The write save_profile: its control, the server and the reads it tells agree. *)
LEMMA SaveProfileDeedFits == DeedFits("save_profile")
<1>1. Deeds["save_profile"] = ProfileDeed
  BY DEF Deeds
<1>2. /\ ProfileDeed.shownTo = Open /\ ProfileDeed.call = "updateMyProfile"
      /\ ProfileDeed.changes = {"myProfile", "departments", "audit"}
      /\ ProfileDeed.tells = {}
  BY DEF ProfileDeed, Deed
<1>4. Allows(Deeds["save_profile"].shownTo, Needs[Deeds["save_profile"].call])
  BY <1>1, <1>2, Allowing, OwnNeeds DEF Open, Everyone
<1>5. ASSUME NEW call \in Deeds["save_profile"].changes, NEW key,
             KeyFits(call, key), key # <<>>, ~Untold("save_profile", call)
      PROVE  \E p \in Deeds["save_profile"].tells : Begins(p, key)
  BY <1>1, <1>2, <1>5 DEF KeyFits, Untold
<1>. QED
  BY <1>4, <1>5 DEF DeedFits

(* The write upload: its control, the server and the reads it tells agree. *)
LEMMA UploadDeedFits == DeedFits("upload")
<1>1. Deeds["upload"] = UploadDeed
  BY DEF Deeds
<1>2. /\ UploadDeed.shownTo = Open /\ UploadDeed.call = "completeBasketUpload"
      /\ UploadDeed.changes = {"basketFiles", "jobs", "jobStats", "audit"}
      /\ UploadDeed.tells = {<<"basket">>}
  BY DEF UploadDeed, Deed
<1>3. Begins(<<"basket">>, <<"basket", "files">>)
  BY Beginnings
<1>4. Allows(Deeds["upload"].shownTo, Needs[Deeds["upload"].call])
  BY <1>1, <1>2, Allowing, BasketNeeds DEF Open, Everyone
<1>5. ASSUME NEW call \in Deeds["upload"].changes, NEW key,
             KeyFits(call, key), key # <<>>, ~Untold("upload", call)
      PROVE  \E p \in Deeds["upload"].tells : Begins(p, key)
  BY <1>1, <1>2, <1>3, <1>5 DEF KeyFits, Untold
<1>. QED
  BY <1>4, <1>5 DEF DeedFits

(* The write kt_create: its control, the server and the reads it tells agree. *)
LEMMA KtCreateDeedFits == DeedFits("kt_create")
<1>1. Deeds["kt_create"] = KtCreateDeed
  BY DEF Deeds
<1>2. /\ KtCreateDeed.shownTo = "kt:manage" /\ KtCreateDeed.call = "ktCreate"
      /\ KtCreateDeed.changes = {"ktList", "audit"}
      /\ KtCreateDeed.tells = {<<"kt", "list">>}
  BY DEF KtCreateDeed, Deed
<1>3. Begins(<<"kt", "list">>, <<"kt", "list">>)
  BY Beginnings
<1>4. Allows(Deeds["kt_create"].shownTo, Needs[Deeds["kt_create"].call])
  BY <1>1, <1>2, Allowing, PackageCallNeeds DEF Open, Everyone
<1>5. ASSUME NEW call \in Deeds["kt_create"].changes, NEW key,
             KeyFits(call, key), key # <<>>, ~Untold("kt_create", call)
      PROVE  \E p \in Deeds["kt_create"].tells : Begins(p, key)
  BY <1>1, <1>2, <1>3, <1>5 DEF KeyFits, Untold
<1>. QED
  BY <1>4, <1>5 DEF DeedFits

(* The write kt_revoke: its control, the server and the reads it tells agree. *)
LEMMA KtRevokeDeedFits == DeedFits("kt_revoke")
<1>1. Deeds["kt_revoke"] = KtRevokeDeed
  BY DEF Deeds
<1>2. /\ KtRevokeDeed.shownTo = "kt:manage" /\ KtRevokeDeed.call = "ktRevoke"
      /\ KtRevokeDeed.changes = {"ktList", "ktGet", "audit"}
      /\ KtRevokeDeed.tells = {<<"kt", "list">>}
  BY DEF KtRevokeDeed, Deed
<1>3. Begins(<<"kt", "list">>, <<"kt", "list">>)
  BY Beginnings
<1>4. Allows(Deeds["kt_revoke"].shownTo, Needs[Deeds["kt_revoke"].call])
  BY <1>1, <1>2, Allowing, PackageCallNeeds DEF Open, Everyone
<1>5. ASSUME NEW call \in Deeds["kt_revoke"].changes, NEW key,
             KeyFits(call, key), key # <<>>, ~Untold("kt_revoke", call)
      PROVE  \E p \in Deeds["kt_revoke"].tells : Begins(p, key)
  BY <1>1, <1>2, <1>3, <1>5 DEF KeyFits, Untold
<1>. QED
  BY <1>4, <1>5 DEF DeedFits

(* The write kt_complete: its control, the server and the reads it tells agree. *)
LEMMA KtCompleteDeedFits == DeedFits("kt_complete")
<1>1. Deeds["kt_complete"] = KtCompleteDeed
  BY DEF Deeds
<1>2. /\ KtCompleteDeed.shownTo = "kt:manage" /\ KtCompleteDeed.call = "ktComplete"
      /\ KtCompleteDeed.changes = {"ktList", "ktGet", "audit"}
      /\ KtCompleteDeed.tells = {<<"kt", "list">>, <<"kt", "1">>}
  BY DEF KtCompleteDeed, Deed
<1>3. /\ Begins(<<"kt", "list">>, <<"kt", "list">>)
      /\ Begins(<<"kt", "1">>, <<"kt", "1", "detail">>)
  BY Beginnings
<1>4. Allows(Deeds["kt_complete"].shownTo, Needs[Deeds["kt_complete"].call])
  BY <1>1, <1>2, Allowing, PackageCallNeeds DEF Open, Everyone
<1>5. ASSUME NEW call \in Deeds["kt_complete"].changes, NEW key,
             KeyFits(call, key), key # <<>>, ~Untold("kt_complete", call)
      PROVE  \E p \in Deeds["kt_complete"].tells : Begins(p, key)
  BY <1>1, <1>2, <1>3, <1>5 DEF KeyFits, Untold
<1>. QED
  BY <1>4, <1>5 DEF DeedFits

(* The write kt_update: its control, the server and the reads it tells agree. *)
LEMMA KtUpdateDeedFits == DeedFits("kt_update")
<1>1. Deeds["kt_update"] = KtUpdateDeed
  BY DEF Deeds
<1>2. /\ KtUpdateDeed.shownTo = "kt:manage" /\ KtUpdateDeed.call = "ktUpdate"
      /\ KtUpdateDeed.changes = {"ktList", "ktGet", "audit"}
      /\ KtUpdateDeed.tells = {<<"kt", "list">>, <<"kt", "1">>}
  BY DEF KtUpdateDeed, Deed
<1>3. /\ Begins(<<"kt", "list">>, <<"kt", "list">>)
      /\ Begins(<<"kt", "1">>, <<"kt", "1", "detail">>)
  BY Beginnings
<1>4. Allows(Deeds["kt_update"].shownTo, Needs[Deeds["kt_update"].call])
  BY <1>1, <1>2, Allowing, PackageCallNeeds DEF Open, Everyone
<1>5. ASSUME NEW call \in Deeds["kt_update"].changes, NEW key,
             KeyFits(call, key), key # <<>>, ~Untold("kt_update", call)
      PROVE  \E p \in Deeds["kt_update"].tells : Begins(p, key)
  BY <1>1, <1>2, <1>3, <1>5 DEF KeyFits, Untold
<1>. QED
  BY <1>4, <1>5 DEF DeedFits

(* Every write's tables agree. *)
LEMMA DeedsFit == \A d \in DOMAIN Deeds : DeedFits(d)
<1>1. DOMAIN Deeds =
        {"invite", "import", "revoke_connection", "revoke_invitation", "resend_invitation",
         "resync", "set_policy", "rename", "set_schedule", "disconnect", "sync_now",
         "save_profile", "upload", "kt_create", "kt_revoke", "kt_complete", "kt_update"}
  BY DEF Deeds
<1>. QED
  BY <1>1, InviteDeedFits, ImportDeedFits, RevokeConnectionDeedFits, RevokeInvitationDeedFits,
     ResendInvitationDeedFits, ResyncDeedFits, PolicyDeedFits, RenameDeedFits,
     ScheduleDeedFits, DisconnectDeedFits, SyncDeedFits, SaveProfileDeedFits, UploadDeedFits,
     KtCreateDeedFits, KtRevokeDeedFits, KtCompleteDeedFits, KtUpdateDeedFits

(* A cached read. *)
View == [data : BOOLEAN, got : BOOLEAN, here : BOOLEAN, invalid : BOOLEAN,
         stage : {"never", "asked", "answered", "idle", "failed"}]

(* A read holds the write only if the server would answer so, and what has come is on *)
(* screen.                                                                            *)
Truthful(v, a) ==
    /\ v \in View
    /\ v.data = TRUE => v.got = TRUE
    /\ v.got = TRUE => a
    /\ v.stage = "never" => v.here = FALSE
    /\ v.stage = "idle" => v.here = TRUE

(* A read that is answered, or at rest, holds the write; or it is flagged and nobody *)
(* looks at it.                                                                      *)
CaughtUp(v, shown) ==
    /\ v.stage = "answered" => v.got = TRUE
    /\ v.stage = "idle" => v.data = TRUE \/ (v.invalid = TRUE /\ ~shown)

(* No step of a read makes it say what the server would not. *)
LEMMA TruthMoves ==
  ASSUME NEW v, NEW a \in BOOLEAN, Truthful(v, a)
  PROVE  /\ Truthful(Unread(FALSE), a) /\ Truthful(Asked(v), a) /\ Truthful(ReadAnswered(v, a), a)
         /\ Truthful(Arrived(v), a) /\ Truthful(Failed(v), a)
         /\ Truthful(Invalidated(v, TRUE), a) /\ Truthful(Invalidated(v, FALSE), a)
<1>1. v \in View
  BY DEF Truthful
<1>2. Truthful(Unread(FALSE), a)
  BY DEF Truthful, Unread, View
<1>3. Truthful(Asked(v), a)
  BY <1>1 DEF Truthful, Asked, View
<1>4. Truthful(ReadAnswered(v, a), a)
  BY <1>1 DEF Truthful, ReadAnswered, View
<1>5. Truthful(Arrived(v), a)
  BY <1>1 DEF Truthful, Arrived, View
<1>6. Truthful(Failed(v), a)
  BY <1>1 DEF Truthful, Failed, View
<1>7. Truthful(Invalidated(v, TRUE), a)
  BY <1>1 DEF Truthful, Asked, Invalidated, View
<1>8. Truthful(Invalidated(v, FALSE), a)
  BY <1>1 DEF Truthful, Invalidated, View
<1>. QED
  BY <1>2, <1>3, <1>4, <1>5, <1>6, <1>7, <1>8

(* What each step of a read makes of CaughtUp. *)
LEMMA CaughtUpMoves ==
  ASSUME NEW v \in View, NEW s, NEW w
  PROVE  /\ CaughtUp(Asked(v), s) /\ CaughtUp(ReadAnswered(v, TRUE), s) /\ CaughtUp(Failed(v), s)
         /\ CaughtUp(Invalidated(v, TRUE), s)
         /\ v.stage = "answered" /\ CaughtUp(v, s) => CaughtUp(Arrived(v), w)
         /\ v.stage # "answered" => CaughtUp(Invalidated(v, FALSE), FALSE)
<1>1. CaughtUp(Asked(v), s)
  BY DEF CaughtUp, Asked, View
<1>2. CaughtUp(ReadAnswered(v, TRUE), s)
  BY DEF CaughtUp, ReadAnswered, View
<1>3. CaughtUp(Failed(v), s)
  BY DEF CaughtUp, Failed, View
<1>4. CaughtUp(Invalidated(v, TRUE), s)
  BY DEF CaughtUp, Asked, Invalidated, View
<1>5. v.stage = "answered" /\ CaughtUp(v, s) => CaughtUp(Arrived(v), w)
  BY DEF CaughtUp, Arrived, View
<1>6. v.stage # "answered" => CaughtUp(Invalidated(v, FALSE), FALSE)
  BY DEF CaughtUp, Invalidated, View
<1>. QED
  BY <1>1, <1>2, <1>3, <1>4, <1>5, <1>6

(* A read that is mounted has been asked, and is on screen only if it has caught up. *)
LEMMA MountsCatchUp ==
  ASSUME NEW v, NEW a \in BOOLEAN, Truthful(v, a), NEW w \in OnMount(v)
  PROVE  Truthful(w, a) /\ w.stage # "never" /\ (w = v \/ w = Asked(v))
         /\ \A s : CaughtUp(v, s) => CaughtUp(w, TRUE)
<1>1. v \in View /\ Truthful(Asked(v), a)
  BY TruthMoves DEF Truthful
<1>2. w = Asked(v) \/ (w = v /\ (v.stage \in {"asked", "answered"} \/ (v.stage = "idle" /\ ~v.invalid)))
  BY DEF OnMount, Reading
<1>3. Asked(v).stage = "asked"
  BY <1>1 DEF Asked, View
<1>4. CASE w = Asked(v)
  BY <1>1, <1>3, <1>4, CaughtUpMoves
<1>5. CASE w = v /\ v.stage \in {"asked", "answered"}
  BY <1>5 DEF CaughtUp
<1>6. CASE w = v /\ v.stage = "idle" /\ ~v.invalid
  BY <1>6 DEF CaughtUp
<1>. QED
  BY <1>2, <1>4, <1>5, <1>6

(* A read that is on screen. *)
OnShow(n) == whereAt = home /\ Enabled(n)

(* A read that the deed's success has told, and that shows the deed. *)
MustShow(n) ==
    /\ sent = "over" /\ recorded /\ n \notin unsettled
    /\ ReadsOf[n].call \in Deeds[deed].changes /\ ~Untold(deed, ReadsOf[n].call) /\ ~OfMount(ReadsOf[n])

(* The part of the invariant that is about one read. *)
OneReadFits(n) ==
    /\ Truthful(screenReads[n], Answer(n))
    /\ OnShow(n) /\ ~ReadsOf[n].pressed => screenReads[n].stage # "never"
    /\ MustShow(n) => CaughtUp(screenReads[n], OnShow(n))

(* The part about the run: who reads, and how far the write has come. *)
RunFits ==
    /\ home \in DOMAIN Pages /\ role \in Role /\ capable \in {role, "owner"}
    /\ deed \in {NoDeed} \cup DOMAIN Deeds /\ recorded \in BOOLEAN
    /\ sent \in {"unsent", "out", "done", "over"}
    /\ recorded => deed \in DOMAIN Deeds /\ sent \in {"done", "over"}
    /\ sent \in {"out", "done"} => deed \in DOMAIN Deeds
    /\ sent = "done" => recorded
    /\ screenReads \in [DOMAIN ReadsOf -> View]

(* The inductive invariant of the screens. *)
ScreensFit == RunFits /\ \A n \in DOMAIN ReadsOf : OneReadFits(n)

(* No screen is nowhere. *)
LEMMA ElsewhereIsNone == Elsewhere \notin DOMAIN Pages
BY DEF Elsewhere, Pages

(* An answer shows the write or does not. *)
LEMMA AnswerIsTruth == \A n : Answer(n) \in BOOLEAN
BY DEF Answer

(* A read that a step leaves alone stays fit, as long as it is not shown anew. *)
LEMMA ReadStays ==
  ASSUME NEW n, OneReadFits(n), screenReads'[n] = screenReads[n],
         UNCHANGED <<home, deed, sent, recorded>>,
         n \in unsettled => n \in unsettled', OnShow(n)' => OnShow(n)
  PROVE  OneReadFits(n)'
<1>1. ReadsOf' = ReadsOf /\ (Answer(n)' <=> Answer(n)) /\ (MustShow(n)' => MustShow(n))
  BY DEF ReadsOf, Answer, MustShow, OfMount
<1>2. Truthful(screenReads[n], Answer(n))'
  BY <1>1 DEF OneReadFits, Truthful
<1>3. MustShow(n)' => CaughtUp(screenReads[n], OnShow(n))'
  BY <1>1 DEF OneReadFits, CaughtUp
<1>4. (OnShow(n) /\ ~ReadsOf[n].pressed => screenReads[n].stage # "never")'
  BY <1>1 DEF OneReadFits
<1>. QED
  BY <1>2, <1>3, <1>4 DEF OneReadFits

(* The screens begin fit. *)
LEMMA ScreensBegin == ScreensInit => ScreensFit
<1> SUFFICES ASSUME ScreensInit PROVE ScreensFit
  OBVIOUS
<1>1. Unread(FALSE) \in View /\ Unread(FALSE).stage = "never" /\ Truthful(Unread(FALSE), FALSE)
  BY DEF Unread, View, Truthful
<1>2. RunFits
  BY <1>1 DEF ScreensInit, RunFits, Role
<1>3. ASSUME NEW n \in DOMAIN ReadsOf PROVE OneReadFits(n)
  <2>1. screenReads[n] = Unread(FALSE) /\ ~Answer(n) /\ ~MustShow(n)
    BY DEF ScreensInit, Answer, MustShow
  <2>2. ~OnShow(n)
    BY ElsewhereIsNone DEF ScreensInit, OnShow
  <2>3. Truthful(screenReads[n], Answer(n))
    BY <1>1, <2>1 DEF Truthful
  <2>. QED
    BY <2>1, <2>2, <2>3 DEF OneReadFits
<1>. QED
  BY <1>2, <1>3 DEF ScreensFit

(* Opening the screen asks for what is shown and has not caught up. *)
LEMMA OpeningFits == ScreensFit /\ OpensHome => ScreensFit'
<1> SUFFICES ASSUME ScreensFit, OpensHome PROVE ScreensFit'
  OBVIOUS
<1>1. /\ UNCHANGED <<home, deed, panelOpen, role, capable, sent, recorded, unsettled>> /\ whereAt' = home
      /\ DOMAIN screenReads' = DOMAIN ReadsOf
      /\ screenReads' = [n \in DOMAIN ReadsOf |-> screenReads'[n]]
      /\ \A n \in DOMAIN ReadsOf : screenReads'[n] \in Mounting(n)
  BY DEF OpensHome
<1>2. ReadsOf' = ReadsOf
  BY <1>1 DEF ReadsOf
<1>3. ASSUME NEW n \in DOMAIN ReadsOf PROVE OneReadFits(n)' /\ screenReads'[n] \in View
  <2> DEFINE v == screenReads[n]
             w == screenReads'[n]
  <2>1. OneReadFits(n) /\ Truthful(v, Answer(n)) /\ v \in View /\ w \in Mounting(n)
    BY <1>1 DEF ScreensFit, OneReadFits, Truthful
  <2>2. (Answer(n)' <=> Answer(n)) /\ (MustShow(n)' <=> MustShow(n)) /\ (Enabled(n)' <=> Enabled(n))
    BY <1>1, <1>2 DEF Answer, MustShow, Enabled, can, OfMount
  <2>3. MustShow(n) => ~OfMount(ReadsOf[n]) /\ CaughtUp(v, OnShow(n))
    BY <2>1 DEF MustShow, OneReadFits
  <2>4. (OnShow(n)' <=> Enabled(n)) /\ ~OnShow(n)
    BY <1>1, <2>2 DEF OnShow, OpensHome
  <2> HIDE DEF v, w
  <2>5. Answer(n) \in BOOLEAN
    BY AnswerIsTruth
  <2>6. /\ Truthful(w, Answer(n)) /\ (Enabled(n) => w.stage # "never")
        /\ MustShow(n) => CaughtUp(w, Enabled(n))
    <3>1. CASE ~Enabled(n)
      <4>1. w = v
        BY <2>1, <3>1 DEF Mounting, v
      <4>. QED
        BY <2>1, <2>3, <3>1, <4>1 DEF CaughtUp
    <3>2. CASE Enabled(n) /\ OfMount(ReadsOf[n])
      <4>1. w = Asked(Unread(FALSE))
        BY <2>1, <3>2 DEF Mounting
      <4>2. Truthful(Unread(FALSE), Answer(n))
        BY <2>1, <2>5, TruthMoves
      <4>3. Truthful(Asked(Unread(FALSE)), Answer(n))
        BY <2>5, <4>2, TruthMoves
      <4>4. Asked(Unread(FALSE)).stage = "asked"
        BY DEF Asked, Unread
      <4>. QED
        BY <2>3, <3>2, <4>1, <4>3, <4>4
    <3>3. CASE Enabled(n) /\ ~OfMount(ReadsOf[n])
      <4>1. w \in OnMount(v)
        BY <2>1, <3>3 DEF Mounting, v
      <4>2. Truthful(w, Answer(n)) /\ w.stage # "never" /\ \A s : CaughtUp(v, s) => CaughtUp(w, TRUE)
        BY <2>1, <2>5, <4>1, MountsCatchUp
      <4>3. CaughtUp(w, TRUE) => CaughtUp(w, Enabled(n))
        BY <3>3 DEF CaughtUp
      <4>. QED
        BY <2>3, <4>2, <4>3
    <3>. QED
      BY <3>1, <3>2, <3>3
  <2>7. Truthful(screenReads'[n], Answer(n)')
    BY <2>2, <2>6 DEF Truthful, w
  <2>8. MustShow(n)' => CaughtUp(screenReads'[n], OnShow(n)')
    BY <2>2, <2>4, <2>6 DEF CaughtUp, w
  <2>. QED
    BY <2>2, <2>4, <2>6, <2>7, <2>8 DEF OneReadFits, Truthful, w
<1>4. screenReads' \in [DOMAIN ReadsOf' -> View]
  BY <1>1, <1>2, <1>3
<1>5. RunFits'
  BY <1>1, <1>4 DEF ScreensFit, RunFits
<1>. QED
  BY <1>2, <1>3, <1>5 DEF ScreensFit

(* So does opening its panel. *)
LEMMA PressingFits == ScreensFit /\ PressesPanel => ScreensFit'
<1> SUFFICES ASSUME ScreensFit, PressesPanel PROVE ScreensFit'
  OBVIOUS
<1>1. /\ UNCHANGED <<home, deed, whereAt, role, capable, sent, recorded, unsettled>>
      /\ panelOpen' = ~panelOpen /\ whereAt = home
  BY DEF PressesPanel
<1>2. PICK m \in DOMAIN ReadsOf : /\ ReadsOf[m].pressed
                                  /\ \E v \in OnMount(screenReads[m]) :
                                       screenReads' = [screenReads EXCEPT ![m] = IF panelOpen THEN @ ELSE v]
  BY DEF PressesPanel
<1>3. ReadsOf' = ReadsOf /\ screenReads \in [DOMAIN ReadsOf -> View]
  BY <1>1 DEF ReadsOf, ScreensFit, RunFits
<1>4. PICK v \in OnMount(screenReads[m]) :
        screenReads' = [screenReads EXCEPT ![m] = IF panelOpen THEN @ ELSE v]
  BY <1>2
<1>5. \A n \in DOMAIN ReadsOf : ReadsOf[n].pressed => n = m
  <2>1. PageFits(home)
    BY PagesFit DEF ScreensFit, RunFits
  <2>. QED
    BY <1>2, <2>1 DEF PageFits, ReadsOf
<1>6. \A n \in DOMAIN ReadsOf : n # m \/ panelOpen => screenReads'[n] = screenReads[n]
  BY <1>3, <1>4
<1>7. ~panelOpen => screenReads'[m] = v
  BY <1>3, <1>4
<1>8. \A n \in DOMAIN ReadsOf : (n # m \/ panelOpen) /\ OnShow(n)' => OnShow(n)
  BY <1>1, <1>3, <1>5 DEF OnShow, Enabled, can
<1>9. \A n \in DOMAIN ReadsOf : n # m \/ panelOpen => OneReadFits(n)'
  BY <1>1, <1>6, <1>8, ReadStays DEF ScreensFit
<1>a. OneReadFits(m)
  BY DEF ScreensFit
<1>b. /\ Truthful(v, Answer(m)) /\ v.stage # "never"
      /\ \A s : CaughtUp(screenReads[m], s) => CaughtUp(v, TRUE)
  <2> DEFINE q == screenReads[m]
  <2>1. Truthful(q, Answer(m)) /\ Answer(m) \in BOOLEAN
    BY <1>a, AnswerIsTruth DEF OneReadFits
  <2>2. v \in OnMount(q)
    OBVIOUS
  <2> HIDE DEF q
  <2>3. Truthful(v, Answer(m)) /\ v.stage # "never" /\ \A s : CaughtUp(q, s) => CaughtUp(v, TRUE)
    BY <2>1, <2>2, MountsCatchUp
  <2>. QED
    BY <2>3 DEF q
<1>c. ASSUME ~panelOpen PROVE OneReadFits(m)'
  <2>1. (Answer(m)' <=> Answer(m)) /\ (MustShow(m)' <=> MustShow(m))
    BY <1>1, <1>3 DEF Answer, MustShow, OfMount
  <2>2. Truthful(screenReads'[m], Answer(m)')
    BY <1>7, <1>b, <1>c, <2>1 DEF Truthful
  <2>3. MustShow(m)' => CaughtUp(v, TRUE)
    BY <1>a, <1>b, <2>1 DEF OneReadFits
  <2>4. MustShow(m)' => CaughtUp(screenReads'[m], OnShow(m)')
    BY <1>7, <1>c, <2>3 DEF CaughtUp
  <2>. QED
    BY <1>2, <1>3, <2>2, <2>4 DEF OneReadFits
<1>d. screenReads' \in [DOMAIN ReadsOf' -> View]
  <2>1. v \in View
    BY <1>b DEF Truthful
  <2>. QED
    BY <1>3, <1>4, <2>1
<1>e. RunFits'
  BY <1>1, <1>d DEF ScreensFit, RunFits
<1>. QED
  BY <1>3, <1>9, <1>c, <1>e DEF ScreensFit

(* Leaving drops the page's own state and shows nothing. *)
LEMMA LeavingFits ==
  ASSUME NEW p, ScreensFit, LeavesTo(p)
  PROVE  ScreensFit'
<1>1. /\ UNCHANGED <<home, deed, role, capable, sent, recorded, unsettled>>
      /\ whereAt' = p /\ p # home
      /\ screenReads' =
           [n \in DOMAIN ReadsOf |-> IF OfMount(ReadsOf[n]) THEN Unread(FALSE) ELSE screenReads[n]]
  BY DEF LeavesTo
<1>2. ReadsOf' = ReadsOf /\ screenReads \in [DOMAIN ReadsOf -> View] /\ \A n : ~OnShow(n)'
  BY <1>1 DEF ReadsOf, ScreensFit, RunFits, OnShow
<1>3. Unread(FALSE) \in View
  BY DEF Unread, View
<1>4. ASSUME NEW n \in DOMAIN ReadsOf PROVE OneReadFits(n)'
  <2>1. OneReadFits(n) /\ screenReads'[n] = IF OfMount(ReadsOf[n]) THEN Unread(FALSE) ELSE screenReads[n]
    BY <1>1 DEF ScreensFit
  <2>2. CASE OfMount(ReadsOf[n])
    <3>1. Truthful(Unread(FALSE), Answer(n))
      BY <2>1, TruthMoves, AnswerIsTruth DEF OneReadFits
    <3>2. (Answer(n)' <=> Answer(n)) /\ ~MustShow(n)'
      BY <1>1, <1>2, <2>2 DEF Answer, MustShow
    <3>3. Truthful(screenReads'[n], Answer(n)')
      BY <2>1, <2>2, <3>1, <3>2 DEF Truthful
    <3>. QED
      BY <1>2, <3>2, <3>3 DEF OneReadFits
  <2>3. CASE ~OfMount(ReadsOf[n])
    BY <1>1, <1>2, <2>1, <2>3, ReadStays
  <2>. QED
    BY <2>2, <2>3
<1>5. screenReads' \in [DOMAIN ReadsOf' -> View]
  BY <1>1, <1>2, <1>3
<1>6. RunFits'
  BY <1>1, <1>5 DEF ScreensFit, RunFits
<1>. QED
  BY <1>2, <1>4, <1>6 DEF ScreensFit

(* A step of one read that leaves it truthful and caught up keeps the invariant. *)
LEMMA OneReadMoves ==
  ASSUME ScreensFit, NEW m \in DOMAIN ReadsOf, NEW w,
         UNCHANGED <<home, deed, whereAt, panelOpen, role, capable, sent, recorded>>,
         screenReads' = [screenReads EXCEPT ![m] = w],
         unsettled' = unsettled \/ unsettled' = unsettled \ {m},
         Truthful(w, Answer(m)), w.stage # "never", MustShow(m)' => CaughtUp(w, OnShow(m))
  PROVE  ScreensFit'
<1>1. ReadsOf' = ReadsOf /\ screenReads \in [DOMAIN ReadsOf -> View] /\ w \in View
  BY DEF ReadsOf, ScreensFit, RunFits, Truthful
<1>2. screenReads'[m] = w /\ \A n \in DOMAIN ReadsOf : n # m => screenReads'[n] = screenReads[n]
  BY <1>1
<1>3. \A n \in DOMAIN ReadsOf : OnShow(n)' <=> OnShow(n)
  BY <1>1 DEF OnShow, Enabled, can
<1>4. ASSUME NEW n \in DOMAIN ReadsOf, n # m PROVE OneReadFits(n)'
  <2>1. OneReadFits(n) /\ (n \in unsettled => n \in unsettled')
    BY <1>4 DEF ScreensFit
  <2>. QED
    BY <1>2, <1>3, <1>4, <2>1, ReadStays
<1>5. OneReadFits(m)'
  <2>1. Answer(m)' <=> Answer(m)
    BY <1>1 DEF Answer
  <2>2. Truthful(screenReads'[m], Answer(m)')
    BY <1>2, <2>1 DEF Truthful
  <2>3. MustShow(m)' => CaughtUp(screenReads'[m], OnShow(m)')
    BY <1>2, <1>3 DEF CaughtUp
  <2>. QED
    BY <1>2, <2>2, <2>3 DEF OneReadFits
<1>6. screenReads' \in [DOMAIN ReadsOf' -> View]
  BY <1>1
<1>7. RunFits'
  BY <1>6 DEF ScreensFit, RunFits
<1>. QED
  BY <1>1, <1>4, <1>5, <1>7 DEF ScreensFit

(* A read is served, comes, fails or is asked again. *)
LEMMA ReadStepsFit ==
  ASSUME ScreensFit, NEW m \in DOMAIN ReadsOf, ReadIsServed(m) \/ ReadComes(m) \/ ReadsAgain(m)
  PROVE  ScreensFit'
<1> DEFINE v == screenReads[m]
<1>1. /\ OneReadFits(m) /\ Truthful(v, Answer(m)) /\ v \in View /\ Answer(m) \in BOOLEAN
      /\ screenReads \in [DOMAIN ReadsOf -> View]
  BY AnswerIsTruth DEF ScreensFit, RunFits, OneReadFits, Truthful
<1>2. /\ Truthful(Asked(v), Answer(m)) /\ Truthful(ReadAnswered(v, Answer(m)), Answer(m))
      /\ Truthful(Arrived(v), Answer(m)) /\ Truthful(Failed(v), Answer(m))
  BY <1>1, TruthMoves
<1>3. /\ Asked(v).stage = "asked" /\ ReadAnswered(v, Answer(m)).stage = "answered"
      /\ Arrived(v).stage = "idle" /\ Failed(v).stage = "failed"
  BY <1>1 DEF Asked, ReadAnswered, Arrived, Failed, View
<1>4. /\ CaughtUp(Asked(v), OnShow(m)) /\ CaughtUp(ReadAnswered(v, TRUE), OnShow(m))
      /\ CaughtUp(Failed(v), OnShow(m))
      /\ v.stage = "answered" /\ CaughtUp(v, OnShow(m)) => CaughtUp(Arrived(v), OnShow(m))
  BY <1>1, CaughtUpMoves
<1>5. MustShow(m) => CaughtUp(v, OnShow(m))
  BY <1>1 DEF OneReadFits
<1>6. CASE ReadIsServed(m)
  <2>1. /\ UNCHANGED <<home, deed, whereAt, panelOpen, role, capable, sent, recorded>>
        /\ screenReads' = [screenReads EXCEPT ![m] = ReadAnswered(v, Answer(m))]
        /\ unsettled' = unsettled \ {m}
    BY <1>6 DEF ReadIsServed
  <2>2. MustShow(m)' => Answer(m) = TRUE
    BY <2>1 DEF MustShow, Answer, ReadsOf
  <2>3. MustShow(m)' => CaughtUp(ReadAnswered(v, Answer(m)), OnShow(m))
    BY <1>4, <2>2
  <2> HIDE DEF v
  <2>. QED
    BY <1>2, <1>3, <2>1, <2>3, OneReadMoves
<1>7. CASE ReadComes(m)
  <2>1. /\ UNCHANGED <<home, deed, whereAt, panelOpen, role, capable, sent, recorded, unsettled>>
        /\ \/ v.stage = "answered" /\ screenReads' = [screenReads EXCEPT ![m] = Arrived(v)]
           \/ screenReads' = [screenReads EXCEPT ![m] = Failed(v)]
    BY <1>7 DEF ReadComes
  <2>2. MustShow(m)' => MustShow(m)
    BY <2>1 DEF MustShow, ReadsOf, OfMount
  <2> HIDE DEF v
  <2>. QED
    BY <1>2, <1>3, <1>4, <1>5, <2>1, <2>2, OneReadMoves
<1>8. CASE ReadsAgain(m)
  <2>1. /\ UNCHANGED <<home, deed, whereAt, panelOpen, role, capable, sent, recorded, unsettled>>
        /\ screenReads' = [screenReads EXCEPT ![m] = Asked(v)]
    BY <1>8 DEF ReadsAgain
  <2> HIDE DEF v
  <2>. QED
    BY <1>2, <1>3, <1>4, <2>1, OneReadMoves
<1>. QED
  BY <1>6, <1>7, <1>8

(* The browser learns its role: it is shown no more than before. *)
LEMMA CapabilitiesFit == ScreensFit /\ CapabilitiesCome => ScreensFit'
<1> SUFFICES ASSUME ScreensFit, CapabilitiesCome PROVE ScreensFit'
  OBVIOUS
<1>1. /\ UNCHANGED <<home, deed, whereAt, panelOpen, role, screenReads, sent, recorded, unsettled>>
      /\ capable # role /\ capable' = role
  BY DEF CapabilitiesCome
<1>2. capable = "owner" /\ role \in Role /\ ReadsOf' = ReadsOf
  BY <1>1 DEF ScreensFit, RunFits, ReadsOf
<1>3. \A p : can(p)' => can(p)
  BY <1>1, <1>2, RoleTable DEF can
<1>4. \A n \in DOMAIN ReadsOf : OnShow(n)' => OnShow(n)
  BY <1>1, <1>2, <1>3 DEF OnShow, Enabled
<1>5. \A n \in DOMAIN ReadsOf : OneReadFits(n)'
  BY <1>1, <1>4, ReadStays DEF ScreensFit
<1>6. RunFits'
  BY <1>1, <1>2 DEF ScreensFit, RunFits
<1>. QED
  BY <1>2, <1>5, <1>6 DEF ScreensFit

(* The write is sent. *)
LEMMA DoingFits == ScreensFit /\ DoesDeed => ScreensFit'
<1> SUFFICES ASSUME ScreensFit, DoesDeed PROVE ScreensFit'
  OBVIOUS
<1>1. /\ UNCHANGED <<home, deed, whereAt, panelOpen, role, capable, screenReads, recorded, unsettled>>
      /\ deed # NoDeed /\ sent = "unsent" /\ sent' = "out"
  BY DEF DoesDeed
<1>2. ReadsOf' = ReadsOf
  BY <1>1 DEF ReadsOf
<1>3. ASSUME NEW n \in DOMAIN ReadsOf PROVE OneReadFits(n)'
  <2>1. OneReadFits(n) /\ (Answer(n)' <=> Answer(n)) /\ ~MustShow(n)'
    BY <1>1, <1>2 DEF ScreensFit, Answer, MustShow
  <2>2. OnShow(n)' <=> OnShow(n)
    BY <1>1, <1>2 DEF OnShow, Enabled, can
  <2>3. Truthful(screenReads[n], Answer(n))'
    BY <1>1, <2>1 DEF OneReadFits, Truthful
  <2>. QED
    BY <1>1, <1>2, <2>1, <2>2, <2>3 DEF OneReadFits
<1>4. RunFits'
  BY <1>1, <1>2 DEF ScreensFit, RunFits
<1>. QED
  BY <1>2, <1>3, <1>4 DEF ScreensFit

(* The write is recorded: what was read before still holds. *)
LEMMA RecordingFits == ScreensFit /\ DeedRecorded => ScreensFit'
<1> SUFFICES ASSUME ScreensFit, DeedRecorded PROVE ScreensFit'
  OBVIOUS
<1>1. /\ UNCHANGED <<home, deed, whereAt, panelOpen, role, capable, screenReads, unsettled>>
      /\ sent = "out" /\ sent' = "done" /\ recorded' = TRUE
  BY DEF DeedRecorded
<1>2. ReadsOf' = ReadsOf
  BY <1>1 DEF ReadsOf
<1>3. ASSUME NEW n \in DOMAIN ReadsOf PROVE OneReadFits(n)'
  <2>1. OneReadFits(n) /\ (Answer(n) => Answer(n)') /\ ~MustShow(n)'
    BY <1>1, <1>2 DEF ScreensFit, Answer, MustShow
  <2>2. OnShow(n)' <=> OnShow(n)
    BY <1>1, <1>2 DEF OnShow, Enabled, can
  <2>3. Truthful(screenReads[n], Answer(n))'
    BY <1>1, <2>1 DEF OneReadFits, Truthful
  <2>. QED
    BY <1>1, <1>2, <2>1, <2>2, <2>3 DEF OneReadFits
<1>4. RunFits'
  BY <1>1, <1>2 DEF ScreensFit, RunFits
<1>. QED
  BY <1>2, <1>3, <1>4 DEF ScreensFit

(* The write's answer is lost: what has not caught up is unsettled. *)
LEMMA FailingFits == ScreensFit /\ DeedFails => ScreensFit'
<1> SUFFICES ASSUME ScreensFit, DeedFails PROVE ScreensFit'
  OBVIOUS
<1>1. /\ UNCHANGED <<home, deed, whereAt, panelOpen, role, capable, screenReads, recorded>>
      /\ sent \in {"out", "done"} /\ sent' = "over"
      /\ unsettled' =
           IF sent = "done" THEN {n \in DOMAIN ReadsOf : screenReads[n].data # Answer(n)} ELSE {}
  BY DEF DeedFails
<1>2. ReadsOf' = ReadsOf
  BY <1>1 DEF ReadsOf
<1>3. ASSUME NEW n \in DOMAIN ReadsOf PROVE OneReadFits(n)'
  <2>1. OneReadFits(n) /\ (Answer(n)' <=> Answer(n))
    BY <1>1, <1>2 DEF ScreensFit, Answer
  <2>2. OnShow(n)' <=> OnShow(n)
    BY <1>1, <1>2 DEF OnShow, Enabled, can
  <2>3. Truthful(screenReads[n], Answer(n))'
    BY <1>1, <2>1 DEF OneReadFits, Truthful
  <2>4. ASSUME MustShow(n)' PROVE CaughtUp(screenReads[n], OnShow(n))'
    <3>1. recorded /\ n \notin unsettled' /\ Answer(n)
      BY <1>1, <1>2, <2>4 DEF MustShow, Answer
    <3>2. sent = "done"
      BY <1>1, <3>1 DEF ScreensFit, RunFits
    <3>3. screenReads[n].data = Answer(n)
      BY <1>1, <3>1, <3>2
    <3>4. screenReads[n].data = TRUE /\ screenReads[n].got = TRUE
      BY <2>1, <3>1, <3>3 DEF OneReadFits, Truthful
    <3>. QED
      BY <1>1, <3>4 DEF CaughtUp
  <2>. QED
    BY <1>1, <1>2, <2>1, <2>2, <2>3, <2>4 DEF OneReadFits
<1>4. RunFits'
  BY <1>1, <1>2 DEF ScreensFit, RunFits
<1>. QED
  BY <1>2, <1>3, <1>4 DEF ScreensFit

(* The write is heard: what shows it is among what is told, and is asked again, or *)
(* flagged, or outrun.                                                             *)
LEMMA HearingFits == ScreensFit /\ DeedHeard => ScreensFit'
<1> SUFFICES ASSUME ScreensFit, DeedHeard PROVE ScreensFit'
  OBVIOUS
<1>1. /\ UNCHANGED <<home, deed, whereAt, panelOpen, role, capable, recorded>>
      /\ sent = "done" /\ sent' = "over"
      /\ screenReads' = [n \in DOMAIN ReadsOf |->
             IF Told(n) THEN Invalidated(screenReads[n], OnShow(n)) ELSE screenReads[n]]
      /\ unsettled' = {n \in DOMAIN ReadsOf : Told(n) /\ Outrun(screenReads[n], OnShow(n))}
  BY DEF DeedHeard, OnShow
<1>2. ReadsOf' = ReadsOf /\ deed \in DOMAIN Deeds /\ home \in DOMAIN Pages
  BY <1>1 DEF ReadsOf, ScreensFit, RunFits
<1>3. ASSUME NEW n \in DOMAIN ReadsOf PROVE OneReadFits(n)' /\ screenReads'[n] \in View
  <2> DEFINE v == screenReads[n]
             w == screenReads'[n]
  <2>1. OneReadFits(n) /\ (Answer(n)' <=> Answer(n)) /\ Answer(n) \in BOOLEAN
    BY <1>1, <1>2, AnswerIsTruth DEF ScreensFit, Answer
  <2>2. (OnShow(n)' <=> OnShow(n)) /\ OnShow(n) \in BOOLEAN
    BY <1>1, <1>2 DEF OnShow, Enabled, can
  <2>3. Truthful(v, Answer(n)) /\ v \in View /\ (OnShow(n) /\ ~ReadsOf[n].pressed => v.stage # "never")
    BY <2>1 DEF OneReadFits, Truthful
  <2>4. w = IF Told(n) THEN Invalidated(v, OnShow(n)) ELSE v
    BY <1>1
  <2>5. MustShow(n)' => Told(n) /\ (OnShow(n) \/ v.stage # "answered")
    <3> SUFFICES ASSUME MustShow(n)' PROVE Told(n) /\ (OnShow(n) \/ v.stage # "answered")
      OBVIOUS
    <3>1. /\ n \notin unsettled' /\ ~OfMount(ReadsOf[n]) /\ ReadsOf[n].call \in Deeds[deed].changes
          /\ ~Untold(deed, ReadsOf[n].call)
      BY <1>1, <1>2 DEF MustShow, OfMount
    <3>2. KeyFits(ReadsOf[n].call, ReadsOf[n].key) /\ ReadsOf[n].key # <<>>
      BY <1>2, <3>1, PagesFit DEF PageFits, ReadsOf, OfMount
    <3>3. \E p \in Deeds[deed].tells : Begins(p, ReadsOf[n].key)
      BY <1>2, <3>1, <3>2, DeedsFit DEF DeedFits
    <3>4. Told(n)
      BY <3>1, <3>3 DEF Told
    <3>. QED
      BY <1>1, <3>1, <3>4 DEF Outrun
  <2> HIDE DEF v, w
  <2>6. CASE ~Told(n)
    <3>1. w = v /\ ~MustShow(n)'
      BY <2>4, <2>5, <2>6
    <3>2. Truthful(w, Answer(n)') /\ w \in View
      BY <2>1, <2>3, <3>1 DEF Truthful
    <3>. QED
      BY <1>2, <2>2, <2>3, <3>1, <3>2 DEF OneReadFits, w
  <2>7. CASE Told(n) /\ OnShow(n)
    <3>1. w = Invalidated(v, TRUE)
      BY <2>4, <2>7
    <3>2. Truthful(Invalidated(v, TRUE), Answer(n)) /\ CaughtUp(Invalidated(v, TRUE), TRUE)
      BY <2>1, <2>3, TruthMoves, CaughtUpMoves
    <3>3. Invalidated(v, TRUE).stage = "asked"
      BY <2>3 DEF Invalidated, Asked, View
    <3>4. Truthful(w, Answer(n)') /\ w \in View
      BY <2>1, <3>1, <3>2 DEF Truthful
    <3>5. CaughtUp(w, OnShow(n)') /\ w.stage # "never"
      BY <2>2, <2>7, <3>1, <3>2, <3>3 DEF CaughtUp
    <3>. QED
      BY <3>4, <3>5 DEF OneReadFits, w
  <2>8. CASE Told(n) /\ ~OnShow(n)
    <3>1. w = Invalidated(v, FALSE) /\ ~OnShow(n)'
      BY <2>2, <2>4, <2>8
    <3>2. Truthful(Invalidated(v, FALSE), Answer(n))
      BY <2>1, <2>3, TruthMoves
    <3>3. MustShow(n)' => CaughtUp(Invalidated(v, FALSE), FALSE)
      BY <2>3, <2>5, <2>8, CaughtUpMoves
    <3>4. Truthful(w, Answer(n)') /\ w \in View
      BY <2>1, <3>1, <3>2 DEF Truthful
    <3>5. MustShow(n)' => CaughtUp(w, OnShow(n)')
      BY <3>1, <3>3 DEF CaughtUp
    <3>. QED
      BY <3>1, <3>4, <3>5 DEF OneReadFits, w
  <2>. QED
    BY <2>6, <2>7, <2>8
<1>4. screenReads' \in [DOMAIN ReadsOf' -> View]
  BY <1>1, <1>2, <1>3
<1>5. RunFits'
  BY <1>1, <1>2, <1>4 DEF ScreensFit, RunFits
<1>. QED
  BY <1>2, <1>3, <1>5 DEF ScreensFit

(* A step of nothing. *)
LEMMA RestingFits == ScreensFit /\ UNCHANGED screenVars => ScreensFit'
BY DEF ScreensFit, screenVars, RunFits, OneReadFits, ReadsOf, Truthful, CaughtUp, Answer, MustShow,
       OnShow, OfMount, Enabled, can

(* The invariant holds of every screen, write and role. *)
THEOREM ScreensStayFit == ScreensSpec => []ScreensFit
<1>1. ScreensFit /\ [ScreensNext]_screenVars => ScreensFit'
  <2> SUFFICES ASSUME ScreensFit, [ScreensNext]_screenVars PROVE ScreensFit'
    OBVIOUS
  <2>1. CASE \E p \in {Elsewhere} \cup DOMAIN Pages : LeavesTo(p)
    BY <2>1, LeavingFits
  <2>2. CASE \E n \in DOMAIN ReadsOf : ReadIsServed(n) \/ ReadComes(n) \/ ReadsAgain(n)
    BY <2>2, ReadStepsFit
  <2>. QED
    BY <2>1, <2>2, OpeningFits, PressingFits, CapabilitiesFit, DoingFits, RecordingFits,
       FailingFits, HearingFits, RestingFits DEF ScreensNext
<1>. QED
  BY <1>1, ScreensBegin, PTL DEF ScreensSpec

(* What PagesFit and DeedsFit say of a reader whose capabilities are current. *)
LEMMA OffersFollow == ScreensFit => OfferedIsServed
<1> SUFFICES ASSUME ScreensFit, capable = role, can(ConsoleSections[home]) PROVE
        /\ can(Pages[home].gate)
        /\ \A n \in DOMAIN ReadsOf : Enabled(n) => ~Served403(ReadsOf[n].call)
        /\ \A d \in DOMAIN Deeds : Deeds[d].on = home /\ can(Deeds[d].shownTo) => ~Served403(Deeds[d].call)
  BY DEF OfferedIsServed
<1>1. home \in DOMAIN Pages /\ role \in Role /\ PageFits(home)
  BY PagesFit DEF ScreensFit, RunFits
<1>2. \A p : can(p) <=> p \in RolePermissions[role]
  BY DEF can
<1>3. can(Pages[home].gate)
  BY <1>1, <1>2 DEF PageFits, Allows
<1>4. ASSUME NEW n \in DOMAIN ReadsOf, Enabled(n) PROVE ~Served403(ReadsOf[n].call)
  <2>1. Serves(ConsoleSections[home], ReadsOf[n].shownTo, Needs[ReadsOf[n].call])
    BY <1>1 DEF PageFits, ReadsOf
  <2>2. can(ReadsOf[n].shownTo)
    BY <1>4 DEF Enabled
  <2>. QED
    BY <1>1, <1>2, <2>1, <2>2 DEF Serves, Served403
<1>5. ASSUME NEW d \in DOMAIN Deeds, can(Deeds[d].shownTo) PROVE ~Served403(Deeds[d].call)
  <2>1. Allows(Deeds[d].shownTo, Needs[Deeds[d].call])
    BY DeedsFit DEF DeedFits
  <2>. QED
    BY <1>1, <1>2, <1>5, <2>1 DEF Allows, Served403
<1>. QED
  BY <1>3, <1>4, <1>5

(* Whoever is shown an entry, a read or a control of the console is served it, for  *)
(* every role: the navigation, the pages and the routers agree (components/console, *)
(* app/api/routers).                                                                *)
THEOREM OffersAreServed == ScreensSpec => []OfferedIsServed
BY ScreensStayFit, OffersFollow, PTL

(* A read within another that failed: the other is there, and then so is the failure; *)
(* or it is not, and says so itself.                                                  *)
LEMMA FailuresFollow == ScreensFit => FailureIsSaid
<1> SUFFICES ASSUME ScreensFit, whereAt = home,
                    \A n \in DOMAIN ReadsOf : ~Reading(screenReads[n]),
                    NEW n \in DOMAIN ReadsOf, screenReads[n].stage = "failed",
                    ~ReadsOf[n].quiet, Enabled(n)
             PROVE  \E k \in DOMAIN ReadsOf : FailureShown(k)
  BY DEF FailureIsSaid
<1>1. home \in DOMAIN Pages /\ role \in Role /\ capable \in Role /\ PageFits(home)
  BY PagesFit DEF ScreensFit, RunFits, Role
<1>2. CASE ReadsOf[n].within = 0
  BY <1>2 DEF FailureShown, RegionDrawn
<1>3. CASE ReadsOf[n].within # 0
  <2>1. /\ 1 \in DOMAIN ReadsOf /\ ReadsOf[n].within = 1 /\ ReadsOf[1].within = 0
        /\ ~ReadsOf[1].quiet /\ ~ReadsOf[1].pressed /\ Allows(ReadsOf[n].shownTo, ReadsOf[1].shownTo)
    BY <1>1, <1>3 DEF PageFits, ReadsOf
  <2>2. Enabled(1)
    BY <1>1, <2>1 DEF Enabled, can, Allows
  <2>3. screenReads[1].stage \in {"never", "asked", "answered", "idle", "failed"}
    BY <2>1 DEF ScreensFit, RunFits, View
  <2>4. screenReads[1].stage \in {"idle", "failed"} /\ (screenReads[1].stage = "idle" => screenReads[1].here)
    BY <2>1, <2>2, <2>3 DEF ScreensFit, OneReadFits, OnShow, Reading, Truthful
  <2>5. CASE screenReads[1].stage = "failed"
    BY <2>1, <2>2, <2>5 DEF FailureShown, RegionDrawn
  <2>6. CASE screenReads[1].stage = "idle"
    BY <2>1, <2>4, <2>6 DEF FailureShown, RegionDrawn
  <2>. QED
    BY <2>4, <2>5, <2>6
<1>. QED
  BY <1>2, <1>3

(* On every screen: a read that failed is said, there or by the read it is drawn *)
(* within, once all is at rest.                                                  *)
THEOREM FailuresAreSaid == ScreensSpec => []FailureIsSaid
BY ScreensStayFit, FailuresFollow, PTL

(* A read at rest that is on screen has caught up. *)
LEMMA ListsFollow == ScreensFit => ToldListsCatchUp
<1> SUFFICES ASSUME ScreensFit, NEW n \in DOMAIN ReadsOf,
                    whereAt = home, RegionRows(n), ~Reading(screenReads[n]), n \notin unsettled,
                    sent = "over", recorded, ~Untold(deed, ReadsOf[n].call), ~OfMount(ReadsOf[n])
             PROVE  screenReads[n].data = Answer(n)
  BY DEF ToldListsCatchUp
<1>1. OneReadFits(n) /\ Truthful(screenReads[n], Answer(n)) /\ screenReads[n] \in View
  BY DEF ScreensFit, OneReadFits, Truthful
<1>2. Enabled(n) /\ screenReads[n].here /\ screenReads[n].stage # "failed"
  BY DEF RegionRows, RegionDrawn
<1>3. screenReads[n].data \in BOOLEAN /\ screenReads[n].stage = "idle"
  BY <1>1, <1>2 DEF View, Reading, Truthful
<1>4. CASE ~Answer(n)
  BY <1>1, <1>3, <1>4 DEF Truthful, Answer
<1>5. CASE Answer(n)
  <2>1. MustShow(n) /\ OnShow(n)
    BY <1>2, <1>5 DEF MustShow, OnShow, Answer
  <2>2. screenReads[n].data = TRUE
    BY <1>1, <1>3, <2>1 DEF OneReadFits, CaughtUp
  <2>. QED
    BY <1>5, <2>2 DEF Answer
<1>. QED
  BY <1>4, <1>5

(* Of every pair of a screen and a write, but those named: a cached read at rest shows *)
(* the write once it was answered, wherever the write was made and whatever was in     *)
(* flight (lib/query.ts and the pages over it).                                        *)
THEOREM ListsAreTold == ScreensSpec => []ToldListsCatchUp
BY ScreensStayFit, ListsFollow, PTL
=============================================================================
