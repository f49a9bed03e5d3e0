----------------------------- MODULE ConsoleProofs --------------------------
(****************************************************************************)
(* Theorems of the console as its run composes it: one surface at a time,   *)
(* each the specification proved about in SurfaceProofs and AccountProofs.  *)
(*                                                                          *)
(*   ConsoleFormsHold          what is saved, sent and left alone           *)
(*   ConsoleGivenBack          what is taken from the browser               *)
(*   ConsoleListsFollowTheBox  what is listed is what was asked for         *)
(*   ConsoleWalksAreWhole      pages and passages without a hole            *)
(*   ConsoleTeamIsInvitedOnce  one invitation each                          *)
(*   ConsoleListsCatchUp       lists at rest show the writes                *)
(*   ConsoleRightSession       codes, sessions and what a role is offered   *)
(*   ConsolePageSaysSo         what a page must tell                        *)
(*   ConsoleThreadHolds,       the copilot's thread and its list            *)
(*   ConsoleAnswersStay                                                     *)
(*                                                                          *)
(* A step of the console is a step of the surface that was picked and of no *)
(* other; the surfaces' theorems are then those of the console.             *)
(****************************************************************************)
EXTENDS MCConsole, AccountProofs, SurfaceProofs

(* A step of the console is, for each surface of FormsHold, a step of it or none. *)
LEMMA FormsAreSurfaces ==
  ConsoleSpec => RowsSpec /\ WizardSpec /\ RoleFormSpec /\ ProfileSpec /\ SettingsSpec /\ RegSpec
<1>1. ConsoleInit => RowsInit /\ WizardInit /\ RoleFormInit /\ ProfileInit /\ SettingsInit /\
                     RegInit
  BY DEF ConsoleInit
<1>2. [ConsoleNext]_consoleVars =>
        /\ [RowsNext]_rowVars /\ [WizardNext]_wizardVars /\ [RoleFormNext]_roleVars
        /\ [ProfileNext]_profileVars /\ [SettingsNext]_settingsVars /\ [RegNext]_regVars
  BY DEF ConsoleNext, consoleVars
<1>. QED
  BY <1>1, <1>2, PTL DEF ConsoleSpec, RowsSpec, WizardSpec, RoleFormSpec, ProfileSpec, SettingsSpec, RegSpec

(* What a form says is saved is stored, what it sends is what it admits, and what it    *)
(* did not touch stays, of every set of packages, employees, choices, values, zones and *)
(* details.                                                                             *)
THEOREM ConsoleFormsHold == ConsoleSpec => []FormsHold
<1>1. OneQuestion /\ OrderIsSound /\ ChoiceIsAdmitted /\ SavedMeansStored /\ UntouchedFieldsKept /\
      WhatWasJudgedStands => FormsHold
  BY DEF FormsHold
<1>. QED
  BY <1>1, FormsAreSurfaces, OneQuestionStands, OrderStaysSound, RoleFormAdmits, SavedIsStored, UntouchedIsKept,
     JudgedStands, PTL

(* A step of the console is, for each surface of GivenBack, a step of it or none. *)
LEMMA ResourcesAreSurfaces ==
  ConsoleSpec => HandoverSpec /\ OrbSpec /\ SceneSpec /\ GraphSpec
<1>1. ConsoleInit => HandoverInit /\ OrbInit /\ SceneInit /\ GraphInit
  BY DEF ConsoleInit
<1>2. [ConsoleNext]_consoleVars =>
        /\ [HandoverNext]_handoverVars /\ [OrbNext]_orbVars /\ [SceneNext]_sceneVars
        /\ [GraphNext]_graphVars
  BY DEF ConsoleNext, consoleVars
<1>. QED
  BY <1>1, <1>2, PTL DEF ConsoleSpec, HandoverSpec, OrbSpec, SceneSpec, GraphSpec

(* What a component takes from the browser it gives back, of every number of *)
(* compositions, microphones, scenes and nodes.                              *)
THEOREM ConsoleGivenBack == ConsoleSpec => []GivenBack
<1>1. EveryUrlReleased /\ OneComposition /\ OrbHoldsNothingElse /\ ScenesStop /\ NothingLeftOver => GivenBack
  BY DEF GivenBack
<1>. QED
  BY <1>1, ResourcesAreSurfaces, UrlsAreReleased, OrbGivesBack, ScenesDoStop, GraphCleansUp, PTL

(* A step of the console is, for each surface of ListsFollowTheBox, a step of it or *)
(* none.                                                                            *)
LEMMA SearchesAreSurfaces ==
  ConsoleSpec => DirectorySpec /\ PeopleSpec /\ SearchSpec
<1>1. ConsoleInit => DirectoryInit /\ PeopleInit /\ SearchInit
  BY DEF ConsoleInit
<1>2. [ConsoleNext]_consoleVars =>
        /\ [DirectoryNext]_dirVars /\ [PeopleNext]_peopleVars /\ [SearchNext]_searchVars
  BY DEF ConsoleNext, consoleVars
<1>. QED
  BY <1>1, <1>2, PTL DEF ConsoleSpec, DirectorySpec, PeopleSpec, SearchSpec

(* What a list, a picker or a result page shows is what its box asks for, of every *)
(* number of rows and requests and in whatever order answers come.                 *)
THEOREM ConsoleListsFollowTheBox == ConsoleSpec => []ListsFollowTheBox
<1>1. ListFollowsTheBox /\ PeopleFollowTheBox /\ LastSearchShown => ListsFollowTheBox
  BY DEF ListsFollowTheBox
<1>. QED
  BY <1>1, SearchesAreSurfaces, ListDoesFollow, PickerFollowsTheBox, EvidenceIsTheSearch, PTL

(* A step of the console is, for each surface of WalksAreWhole, a step of it or none. *)
LEMMA WalksAreSurfaces ==
  ConsoleSpec => DirectorySpec /\ LogPagesSpec /\ ReaderSpec
<1>1. ConsoleInit => DirectoryInit /\ LogPagesInit /\ ReaderInit
  BY DEF ConsoleInit
<1>2. [ConsoleNext]_consoleVars =>
        /\ [DirectoryNext]_dirVars /\ [LogPagesNext]_logPagesVars /\ [ReaderNext]_readerVars
  BY DEF ConsoleNext, consoleVars
<1>. QED
  BY <1>1, <1>2, PTL DEF ConsoleSpec, DirectorySpec, LogPagesSpec, ReaderSpec

(* A paged list, and a document read by passages, is one walk: nothing twice, nothing *)
(* missing, of every number of rows and passages.                                     *)
THEOREM ConsoleWalksAreWhole == ConsoleSpec => []WalksAreWhole
<1>1. OneWalk /\ NoHoleInTheTrail /\ TextIsUnbroken => WalksAreWhole
  BY DEF WalksAreWhole
<1>. QED
  BY <1>1, WalksAreSurfaces, RowsAreOneWalk, TrailHasNoHole, TextStaysUnbroken, PTL

(* A step of the console is, for each surface of TeamIsInvitedOnce, a step of it or *)
(* none.                                                                            *)
LEMMA InvitationsAreSurfaces ==
  ConsoleSpec => RosterSpec
<1>1. ConsoleInit => RosterInit
  BY DEF ConsoleInit
<1>2. [ConsoleNext]_consoleVars =>
        /\ [RosterNext]_rosterVars
  BY DEF ConsoleNext, consoleVars
<1>. QED
  BY <1>1, <1>2, PTL DEF ConsoleSpec, RosterSpec

(* Inviting a team mails nobody twice and leaves out whom the reader left out, of every *)
(* set of addresses.                                                                    *)
THEOREM ConsoleTeamIsInvitedOnce == ConsoleSpec => []TeamIsInvitedOnce
<1>1. OneInvitationEach /\ UntickedStaysOutOfARetry => TeamIsInvitedOnce
  BY DEF TeamIsInvitedOnce
<1>. QED
  BY <1>1, InvitationsAreSurfaces, NobodyIsMailedTwice, UntickedIsLeftOut, PTL

(* A step of the console is, for each surface of ListsCatchUp, a step of it or none. *)
LEMMA ReadsAreSurfaces ==
  ConsoleSpec => MarksSpec /\ SavedSpec /\ CardSpec /\ IdsSpec /\ WatchSpec /\ GrantsSpec /\
                 ScreensSpec
<1>1. ConsoleInit => MarksInit /\ SavedInit /\ CardInit /\ IdsInit /\ WatchInit /\ GrantsInit /\
                     ScreensInit
  BY DEF ConsoleInit
<1>2. [ConsoleNext]_consoleVars =>
        /\ [MarksNext]_marksVars /\ [SavedNext]_savedVars /\ [CardNext]_cardVars
        /\ [IdsNext]_idVars /\ [WatchNext]_watchVars /\ [GrantsNext]_grantVars
        /\ [ScreensNext]_screenVars
  BY DEF ConsoleNext, consoleVars
<1>. QED
  BY <1>1, <1>2, PTL DEF ConsoleSpec, MarksSpec, SavedSpec, CardSpec, IdsSpec, WatchSpec, GrantsSpec, ScreensSpec

(* Every list at rest shows the writes its own page made, whatever read was under way *)
(* when they were answered.                                                           *)
THEOREM ConsoleListsCatchUp == ConsoleSpec => []ListsCatchUp
<1>1. MarksCatchUp /\ SavedCatchUp /\ CardCatchesUp /\ PanelIsTheGrants /\ WatchCatchesUp /\
      GrantsCatchUp /\ ToldListsCatchUp => ListsCatchUp
  BY DEF ListsCatchUp, OnScreens
<1>. QED
  BY <1>1, ReadsAreSurfaces, MarksDoCatchUp, SavedDoesCatchUp, CardIsTold, PanelShowsGrants, SourcesCatchUp,
     GrantsDoCatchUp, ListsAreTold, PTL

(* A step of the console is, for each surface of RightSession, a step of it or none. *)
LEMMA SessionsAreSurfaces ==
  ConsoleSpec => SignInSpec /\ ShellSpec /\ ScreensSpec
<1>1. ConsoleInit => SignInInit /\ ShellInit /\ ScreensInit
  BY DEF ConsoleInit
<1>2. [ConsoleNext]_consoleVars =>
        /\ [SignInNext]_signInVars /\ [ShellNext]_shellVars /\ [ScreensNext]_screenVars
  BY DEF ConsoleNext, consoleVars
<1>. QED
  BY <1>1, <1>2, PTL DEF ConsoleSpec, SignInSpec, ShellSpec, ScreensSpec

(* The screen submits the newest code to its own challenge, a valid session is never *)
(* sent to sign in, and no role is offered what the server refuses it.               *)
THEOREM ConsoleRightSession == ConsoleSpec => []RightSession
<1>1. NewestCodeFits /\ ValidSessionStays /\ OfferedIsServed => RightSession
  BY DEF RightSession, OnScreens
<1>. QED
  BY <1>1, SessionsAreSurfaces, NewestCodeIsHeld, SessionsStay, OffersAreServed, PTL

(* A step of the console is, for each surface of PageSaysSo, a step of it or none. *)
LEMMA TellingsAreSurfaces ==
  ConsoleSpec => CardSpec /\ CopySpec /\ FeedbackSpec /\ NavSpec /\ HeaderSpec /\ MarkerSpec /\
                 ScreensSpec
<1>1. ConsoleInit => CardInit /\ CopyInit /\ FeedbackInit /\ NavInit /\ HeaderInit /\ MarkerInit /\
                     ScreensInit
  BY DEF ConsoleInit
<1>2. [ConsoleNext]_consoleVars =>
        /\ [CardNext]_cardVars /\ [CopyNext]_copyVars /\ [FeedbackNext]_feedbackVars
        /\ [NavNext]_navVars /\ [HeaderNext]_headerVars /\ [MarkerNext]_markerVars
        /\ [ScreensNext]_screenVars
  BY DEF ConsoleNext, consoleVars
<1>. QED
  BY <1>1, <1>2, PTL DEF ConsoleSpec, CardSpec, CopySpec, FeedbackSpec, NavSpec, HeaderSpec, MarkerSpec, ScreensSpec

(* A page tells what happened, once: a return from a provider, a failed copy, a press, *)
(* a section, the opening, a read that failed.                                         *)
THEOREM ConsolePageSaysSo == ConsoleSpec => []PageSaysSo
<1>1. ReturnAnnounced /\ FailureStands /\ PressesAnsweredOnce /\ SilentUntilAsked /\ CurrentIsInView
      /\ UnderlineIsInBand /\ PassedIsSeen /\ FailureIsSaid => PageSaysSo
  BY DEF PageSaysSo, OnScreens
<1>. QED
  BY <1>1, TellingsAreSurfaces, CardIsTold, FailureStandsOut, PressAnsweredOnce, SilenceUntilAsked, CurrentStaysInView,
     UnderlineStaysInBand, MarkerRemembers, FailuresAreSaid, PTL

(* A step of the console is, for each surface of ThreadHolds, a step of it or none. *)
LEMMA ThreadsAreSurfaces ==
  ConsoleSpec => CopilotSpec
<1>1. ConsoleInit => CopilotInit
  BY DEF ConsoleInit
<1>2. [ConsoleNext]_consoleVars =>
        /\ [CopilotNext]_copilotVars
  BY DEF ConsoleNext, consoleVars
<1>. QED
  BY <1>1, <1>2, PTL DEF ConsoleSpec, CopilotSpec

(* The copilot's thread is the open conversation's, in order, and what was archived *)
(* leaves the list, of every number of conversations and questions.                 *)
THEOREM ConsoleThreadHolds == ConsoleSpec => []ThreadHolds
<1>1. ThreadInOrder /\ ArchivedLeaves => ThreadHolds
  BY DEF ThreadHolds
<1>. QED
  BY <1>1, ThreadsAreSurfaces, ThreadStaysInOrder, ArchivedStaysOut, PTL

(* The copilot never blinks an answer out, of every number of conversations and *)
(* questions.                                                                   *)
THEOREM ConsoleAnswersStay == ConsoleSpec => AnswersStay
BY ThreadsAreSurfaces, AnswersNeverBlink, PTL
=============================================================================
