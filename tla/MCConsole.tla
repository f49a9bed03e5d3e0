------------------------------ MODULE MCConsole ------------------------------
(*****************************************************************************)
(* The surfaces of the web console, and the nightly clock its settings set,  *)
(* each on its own: they share no state, so one instance picks one and lives *)
(* there.                                                                    *)
(*****************************************************************************)
EXTENDS AnswerLog, Copilot, Directory, KtPackages, KtAdmin,
        KtReview, BulkRoster, KtMarks, Forms, Identities, SignIn,
        Registration, Invitations, Shell, SourcePanels, Controls, Navigation, Scenes, Orb, Screens,
        KtReader, NightlySync, TLC

CONSTANTS q1, q2, s1, s2, e1, e2, e3, k1, k2, a1, a2, i1, p1, p2, u1, u2, l1, l2, z1, z2, z3, h1,
          h2, d1, d2, d3, c1, c2, n1, n2, n3, b1, b2, t1, t2, m1, m2

VARIABLE surface

MCQuestion == {q1, q2}
MCChunk == {s1, s2}
MCFilter == {0, 2, 3}
MCEmployee == {e1, e2, e3}
MCPair == {e1, e2}
MCPack == {k1, k2}
MCAddress == {a1, a2}
MCLists == {<<a1, a2>>, <<a2>>}
MCItem == {i1}
MCGiven == {"unclear"}
MCPractice == {p1, p2}
MCTitle == {u1, u2}
MCLevel == {l1, l2}
MCPracticeOf == (u1 :> p1) @@ (u2 :> p2)
MCAdmits == (u1 :> {l1}) @@ (u2 :> {l1, l2})
MCCode == {"CHM"}
MCVersion == {q1, q2, NoQuestionOut}
MCZone == {z1, z2, z3}
MCListed == {z1, z2}
MCHour == {h1, h2}
MCDomain == {d1, d2, d3}
MCReadable == {d1, d2}
MCControl == {c1, c2}
MCDrawn == {c2}
MCNode == {n1, n2, n3}
MCNarrow == {n1, n2}
MCAdmin == {b1, b2}
MCTab == {t1, t2}
MCTyped == {q1, q2, NoQuestionOut}
MCFound(q) == IF q = q1 THEN {e1} ELSE IF q = q2 THEN {} ELSE {e1, e2}
MCHeights == {5, 8}

consoleVars == <<surface, logVars, citationVars, copilotVars, dirVars, logPagesVars, searchVars, ktVars, rowVars,
                 wizardVars, reviewVars, rosterVars, marksVars, savedVars, handoverVars, roleVars,
                 profileVars, settingsVars, idVars, cardVars, signInVars, regVars, inviteVars,
                 shellVars, peopleVars, watchVars, grantVars, feedbackVars, copyVars, navVars,
                 headerVars, graphVars, orbVars, sceneVars, markerVars, screenVars, readerVars,
                 nightVars>>

(* The surfaces that are not picked stay as one initial state has them. *)
ConsoleInit ==
    /\ surface \in {"answers", "citations", "copilot", "directory", "logs", "search", "package", "packages",
                   "wizard", "review", "roster", "marks", "saved", "handover", "role", "profile",
                   "settings", "identities", "tools", "signin", "registration", "invitations",
                   "shell", "people", "sources", "grants", "feedback", "copy", "nav", "header",
                   "graph", "orb", "scene", "opening", "screens", "reader", "night"}
    /\ LogInit /\ CitationsInit /\ CopilotInit /\ DirectoryInit /\ LogPagesInit
    /\ SearchInit
    /\ KtInit /\ (IF surface = "package" THEN TRUE ELSE addressed = NoOne)
    /\ RowsInit /\ WizardInit
    /\ ReviewInit /\ (IF surface = "review" THEN carriedFile \subseteq {k1} ELSE carriedFile = {})
    /\ RosterInit
    /\ MarksInit
    /\ SavedInit /\ (IF surface = "saved" THEN TRUE ELSE kept = {})
    /\ HandoverInit
    /\ RoleFormInit /\ (IF surface = "role" THEN TRUE ELSE stored = Blank /\ seatsGovernance)
    /\ ProfileInit /\ (IF surface = "profile" THEN TRUE ELSE atServer = Empty)
    /\ SettingsInit /\ (IF surface = "settings" THEN TRUE ELSE schedule = [zone |-> FirstListed, hour |-> h1])
    /\ IdsInit /\ (IF surface = "identities" THEN TRUE ELSE active = {})
    /\ CardInit /\ (IF surface = "tools" THEN TRUE ELSE toolStatus = "none" /\ offered /\ param = "none")
    /\ SignInInit /\ RegInit /\ InvitationsInit
    /\ ShellInit /\ (IF surface = "shell" THEN TRUE ELSE session)
    /\ PeopleInit
    /\ WatchInit /\ (IF surface = "sources" THEN TRUE ELSE walking = {})
    /\ GrantsInit /\ FeedbackInit /\ CopyInit
    /\ NavInit /\ (IF surface = "nav" THEN TRUE ELSE itemsListed = 1 /\ path = 0 /\ height = 8)
    /\ HeaderInit /\ (IF surface = "header" THEN TRUE ELSE wide)
    /\ GraphInit /\ (IF surface = "graph" THEN TRUE ELSE loop = NoLoop /\ inView /\ frame = "wide")
    /\ OrbInit /\ (IF surface = "orb" THEN TRUE ELSE reduced)
    /\ SceneInit
    /\ MarkerInit /\ (IF surface = "opening" THEN TRUE ELSE seenFlag /\ end = "below")
    /\ ReaderInit /\ (IF surface = "reader" THEN TRUE ELSE passagesStored = 0)
    /\ NightInit
    /\ (IF surface = "night" THEN TRUE ELSE startsAt = 0 /\ nightMark.finished /\ syncJob = "over")
    /\ ScreensInit
    /\ (IF surface = "screens" THEN TRUE ELSE home = "overview" /\ deed = NoDeed /\ role = "owner")

(* The surfaces that are not picked stand still; the one that is takes its step. *)
ConsoleNext ==
    /\ UNCHANGED surface
    /\ IF surface = "answers" THEN TRUE ELSE UNCHANGED logVars
    /\ IF surface = "citations" THEN TRUE ELSE UNCHANGED citationVars
    /\ IF surface = "copilot" THEN TRUE ELSE UNCHANGED copilotVars
    /\ IF surface = "directory" THEN TRUE ELSE UNCHANGED dirVars
    /\ IF surface = "logs" THEN TRUE ELSE UNCHANGED logPagesVars
    /\ IF surface = "search" THEN TRUE ELSE UNCHANGED searchVars
    /\ IF surface = "package" THEN TRUE ELSE UNCHANGED ktVars
    /\ IF surface = "packages" THEN TRUE ELSE UNCHANGED rowVars
    /\ IF surface = "wizard" THEN TRUE ELSE UNCHANGED wizardVars
    /\ IF surface = "review" THEN TRUE ELSE UNCHANGED reviewVars
    /\ IF surface = "roster" THEN TRUE ELSE UNCHANGED rosterVars
    /\ IF surface = "marks" THEN TRUE ELSE UNCHANGED marksVars
    /\ IF surface = "saved" THEN TRUE ELSE UNCHANGED savedVars
    /\ IF surface = "handover" THEN TRUE ELSE UNCHANGED handoverVars
    /\ IF surface = "role" THEN TRUE ELSE UNCHANGED roleVars
    /\ IF surface = "profile" THEN TRUE ELSE UNCHANGED profileVars
    /\ IF surface = "settings" THEN TRUE ELSE UNCHANGED settingsVars
    /\ IF surface = "identities" THEN TRUE ELSE UNCHANGED idVars
    /\ IF surface = "tools" THEN TRUE ELSE UNCHANGED cardVars
    /\ IF surface = "signin" THEN TRUE ELSE UNCHANGED signInVars
    /\ IF surface = "registration" THEN TRUE ELSE UNCHANGED regVars
    /\ IF surface = "invitations" THEN TRUE ELSE UNCHANGED inviteVars
    /\ IF surface = "shell" THEN TRUE ELSE UNCHANGED shellVars
    /\ IF surface = "people" THEN TRUE ELSE UNCHANGED peopleVars
    /\ IF surface = "sources" THEN TRUE ELSE UNCHANGED watchVars
    /\ IF surface = "grants" THEN TRUE ELSE UNCHANGED grantVars
    /\ IF surface = "feedback" THEN TRUE ELSE UNCHANGED feedbackVars
    /\ IF surface = "copy" THEN TRUE ELSE UNCHANGED copyVars
    /\ IF surface = "nav" THEN TRUE ELSE UNCHANGED navVars
    /\ IF surface = "header" THEN TRUE ELSE UNCHANGED headerVars
    /\ IF surface = "graph" THEN TRUE ELSE UNCHANGED graphVars
    /\ IF surface = "orb" THEN TRUE ELSE UNCHANGED orbVars
    /\ IF surface = "scene" THEN TRUE ELSE UNCHANGED sceneVars
    /\ IF surface = "opening" THEN TRUE ELSE UNCHANGED markerVars
    /\ IF surface = "screens" THEN TRUE ELSE UNCHANGED screenVars
    /\ IF surface = "reader" THEN TRUE ELSE UNCHANGED readerVars
    /\ IF surface = "night" THEN TRUE ELSE UNCHANGED nightVars
    /\ \/ surface = "answers" /\ LogNext
       \/ surface = "citations" /\ CitationsNext
       \/ surface = "copilot" /\ CopilotNext
       \/ surface = "directory" /\ DirectoryNext
       \/ surface = "logs" /\ LogPagesNext
       \/ surface = "search" /\ SearchNext
       \/ surface = "package" /\ KtNext
       \/ surface = "packages" /\ RowsNext
       \/ surface = "wizard" /\ WizardNext
       \/ surface = "review" /\ ReviewNext
       \/ surface = "roster" /\ RosterNext
       \/ surface = "marks" /\ MarksNext
       \/ surface = "saved" /\ SavedNext
       \/ surface = "handover" /\ HandoverNext
       \/ surface = "role" /\ RoleFormNext
       \/ surface = "profile" /\ ProfileNext
       \/ surface = "settings" /\ SettingsNext
       \/ surface = "identities" /\ IdsNext
       \/ surface = "tools" /\ CardNext
       \/ surface = "signin" /\ SignInNext
       \/ surface = "registration" /\ RegNext
       \/ surface = "invitations" /\ InvitationsNext
       \/ surface = "shell" /\ ShellNext
       \/ surface = "people" /\ PeopleNext
       \/ surface = "sources" /\ WatchNext
       \/ surface = "grants" /\ GrantsNext
       \/ surface = "feedback" /\ FeedbackNext
       \/ surface = "copy" /\ CopyNext
       \/ surface = "nav" /\ NavNext
       \/ surface = "header" /\ HeaderNext
       \/ surface = "graph" /\ GraphNext
       \/ surface = "orb" /\ OrbNext
       \/ surface = "scene" /\ SceneNext
       \/ surface = "opening" /\ MarkerNext
       \/ surface = "screens" /\ ScreensNext
       \/ surface = "reader" /\ ReaderNext
       \/ surface = "night" /\ NightNext

(* What tells two states apart: the picked surface's own state. *)
Picked ==
    CASE surface = "answers" -> <<surface, logVars>>
      [] surface = "citations" -> <<surface, citationVars>>
      [] surface = "copilot" -> <<surface, copilotVars>>
      [] surface = "directory" -> <<surface, dirVars>>
      [] surface = "logs" -> <<surface, logPagesVars>>
      [] surface = "search" -> <<surface, searchVars>>
      [] surface = "package" -> <<surface, ktVars>>
      [] surface = "packages" -> <<surface, rowVars>>
      [] surface = "wizard" -> <<surface, wizardVars>>
      [] surface = "review" -> <<surface, reviewVars>>
      [] surface = "roster" -> <<surface, rosterVars>>
      [] surface = "marks" -> <<surface, marksVars>>
      [] surface = "saved" -> <<surface, savedVars>>
      [] surface = "handover" -> <<surface, handoverVars>>
      [] surface = "role" -> <<surface, roleVars>>
      [] surface = "profile" -> <<surface, profileVars>>
      [] surface = "settings" -> <<surface, settingsVars>>
      [] surface = "identities" -> <<surface, idVars>>
      [] surface = "tools" -> <<surface, cardVars>>
      [] surface = "signin" -> <<surface, signInVars>>
      [] surface = "registration" -> <<surface, regVars>>
      [] surface = "invitations" -> <<surface, inviteVars>>
      [] surface = "shell" -> <<surface, shellVars>>
      [] surface = "people" -> <<surface, peopleVars>>
      [] surface = "sources" -> <<surface, watchVars>>
      [] surface = "grants" -> <<surface, grantVars>>
      [] surface = "feedback" -> <<surface, feedbackVars>>
      [] surface = "copy" -> <<surface, copyVars>>
      [] surface = "nav" -> <<surface, navVars>>
      [] surface = "header" -> <<surface, headerVars>>
      [] surface = "graph" -> <<surface, graphVars>>
      [] surface = "orb" -> <<surface, orbVars>>
      [] surface = "scene" -> <<surface, sceneVars>>
      [] surface = "opening" -> <<surface, markerVars>>
      [] surface = "screens" -> <<surface, screenVars>>
      [] surface = "reader" -> <<surface, readerVars>>
      [] surface = "night" -> <<surface, nightVars>>

ConsoleSpec == ConsoleInit /\ [][ConsoleNext]_consoleVars

-----------------------------------------------------------------------------
(* Every component's variables stay what they are declared to be. *)
ConsoleTypeOK ==
    /\ LogTypeOK /\ CitationsTypeOK /\ CopilotTypeOK /\ DirectoryTypeOK /\ LogPagesTypeOK /\ SearchTypeOK
    /\ KtTypeOK /\ RowsTypeOK /\ WizardTypeOK /\ ReviewTypeOK /\ RosterTypeOK /\ MarksTypeOK
    /\ SavedTypeOK /\ HandoverTypeOK /\ SettingsTypeOK /\ IdsTypeOK /\ CardTypeOK
    /\ SignInTypeOK /\ RegTypeOK /\ InvitationsTypeOK /\ ShellTypeOK /\ PeopleTypeOK
    /\ WatchTypeOK /\ GrantsTypeOK /\ FeedbackTypeOK /\ CopyTypeOK /\ NavTypeOK /\ HeaderTypeOK
    /\ GraphTypeOK /\ OrbTypeOK /\ SceneTypeOK /\ MarkerTypeOK /\ ScreensTypeOK /\ ReaderTypeOK
    /\ NightTypeOK

(* The screens stand still, at their first state, unless they are what is picked. *)
OnScreens(holds) == surface = "screens" => holds

(* The copilot's thread is the open conversation's, in order, and what was archived *)
(* leaves the list (kt-copilot.tsx).                                                *)
ThreadHolds == ThreadInOrder /\ ArchivedLeaves

(* What a list, a picker or a result page shows is what its box asks for, in whatever *)
(* order answers come back (employees and identities pages, evidence-search.tsx).     *)
ListsFollowTheBox == ListFollowsTheBox /\ PeopleFollowTheBox /\ LastSearchShown

(* A paged list, and a document read by passages, is one walk: nothing twice, nothing *)
(* missing (page-scaffold.tsx's users, kt-pages.tsx).                                 *)
WalksAreWhole == OneWalk /\ NoHoleInTheTrail /\ TextIsUnbroken

(* Inviting a team mails nobody twice and leaves out whom the reader left out. *)
TeamIsInvitedOnce == OneInvitationEach /\ UntickedStaysOutOfARetry

(* Every list at rest shows the writes its own page made, whatever read was under way *)
(* when they were answered (the invalidations of lib/query.ts's users).               *)
ListsCatchUp ==
    /\ MarksCatchUp /\ SavedCatchUp /\ CardCatchesUp
    /\ PanelIsTheGrants /\ WatchCatchesUp /\ GrantsCatchUp
    /\ OnScreens(ToldListsCatchUp)

(* What a form says is saved is stored, what it sends is what it admits, and what it  *)
(* did not touch stays (role, profile, settings, registration, wizard, package rows). *)
FormsHold ==
    /\ SavedMeansStored /\ ChoiceIsAdmitted /\ UntouchedFieldsKept
    /\ WhatWasJudgedStands /\ OrderIsSound /\ OneQuestion

(* The screen submits the newest code to its own challenge, a valid session is never *)
(* sent to sign in, and no role is offered what the server refuses it (verify page,  *)
(* console-shell.tsx, admin-nav.ts).                                                 *)
RightSession == NewestCodeFits /\ ValidSessionStays /\ OnScreens(OfferedIsServed)

(* What a component takes from the browser (object URLs, a microphone, a WebGL      *)
(* context, a scene's loop, an element's offset) it gives back, whenever it leaves. *)
GivenBack ==
    /\ EveryUrlReleased /\ OneComposition /\ OrbHoldsNothingElse /\ ScenesStop
    /\ NothingLeftOver

(* A page tells what happened, once: a return from a provider, a failed copy, a press, *)
(* the section one is in, the opening one has passed.                                  *)
PageSaysSo ==
    /\ ReturnAnnounced /\ FailureStands /\ PressesAnsweredOnce /\ SilentUntilAsked
    /\ CurrentIsInView /\ UnderlineIsInBand /\ PassedIsSeen
    /\ OnScreens(FailureIsSaid)
=============================================================================
