------------------------------ MODULE Forms ------------------------------
(***************************************************************************)
(* Three forms over a record that others may change meanwhile.             *)
(***************************************************************************)
EXTENDS QueryView

(*****************************************************************************)
(* The role information of one person: three chained choices, a custom title *)
(* beside them, and the assignment read into them (RoleAssignment in         *)
(* components/admin/role-assignment.tsx).  What the form sends is refused by *)
(* the server when the catalogue does not admit it.                          *)
(*****************************************************************************)
CONSTANTS
    Practice, Title, Level,
    PracticeOf,      \* the practice a title of the catalogue belongs to
    Admits,          \* the levels the catalogue admits for a title
    Code, Governance,\* the role codes, and those only some may seat
    Unset            \* the empty choice

ASSUME CatalogueAssumption ==
    /\ Unset \notin Practice \cup Title \cup Level \cup Code /\ Governance \subseteq Code
    /\ PracticeOf \in [Title -> Practice] /\ Admits \in [Title -> SUBSET Level]

VARIABLES
    choice,          \* practice, titleKey, level, code and useCustom
    stored,          \* the assignment at the server, Unset when there is none
    assignmentOut,   \* the assignment is being read
    seatsGovernance, \* canSeatGovernance and not isSelf
    roleSaving       \* what a save in flight sends, Unset for none

roleVars == <<choice, stored, assignmentOut, seatsGovernance, roleSaving>>

Blank == [practice |-> Unset, title |-> Unset, level |-> Unset, code |-> Unset, custom |-> FALSE]

Choice == [practice : Practice \cup {Unset}, title : Title \cup {Unset}, level : Level \cup {Unset},
           code : Code \cup {Unset}, custom : BOOLEAN]

(* What the catalogue has no place for, whatever is still to be filled in. *)
InCatalogue(c) ==
    /\ c.title # Unset => c.practice = PracticeOf[c.title] /\ c.level \in Admits[c.title] \cup {Unset}
    /\ c.custom => c.title = Unset /\ c.practice = Unset

(* _validate: a title, the catalogue's or the organisation's own, needs a level, and *)
(* a level a title; an own title left empty counts for none.                         *)
Accepted(c) ==
    /\ InCatalogue(c) /\ (c.title # Unset => c.level # Unset)
    /\ c.level # Unset => c.title # Unset \/ c.custom

RoleFormInit ==
    /\ choice = Blank /\ assignmentOut = TRUE /\ roleSaving = Unset
    /\ seatsGovernance \in BOOLEAN
    /\ stored \in {c \in Choice : Accepted(c)}

(* The form stands while its person's assignment is read, and is overwritten by it; *)
(* a person never assigned anything is a 404 and leaves it as it is.                *)
AssignmentArrives ==
    /\ assignmentOut /\ assignmentOut' = FALSE
    /\ \/ choice' = stored
       \/ (stored = Blank /\ UNCHANGED choice)
    /\ UNCHANGED <<stored, seatsGovernance, roleSaving>>

PracticeChosenAlone(p) ==
    /\ ~choice.custom
    /\ choice' = [choice EXCEPT !.practice = p]
PracticeChosen(p) ==
    /\ ~choice.custom
    /\ choice' = [choice EXCEPT !.practice = p, !.title = Unset, !.level = Unset]

(* A level is chosen for the reader only where the title admits one alone. *)
KeepsLevel(t) == choice.level
DefaultLevel(t) ==
    IF t # Unset /\ \E l \in Level : Admits[t] = {l} THEN CHOOSE l \in Level : Admits[t] = {l} ELSE Unset

TitleChosen(t) ==
    /\ ~choice.custom /\ choice.practice # Unset
    /\ t \in {Unset} \cup {u \in Title : PracticeOf[u] = choice.practice}
    /\ choice' = [choice EXCEPT !.title = t, !.level = DefaultLevel(t)]

LevelsOffered ==
    IF choice.custom \/ choice.title = Unset THEN Level ELSE Admits[choice.title]
LevelChosen(l) ==
    /\ l \in LevelsOffered \cup {Unset}
    /\ choice' = [choice EXCEPT !.level = l]

CodeChosen(c) ==
    /\ c \in IF seatsGovernance THEN Code \cup {Unset} ELSE (Code \ Governance) \cup {Unset}
    /\ choice' = [choice EXCEPT !.code = c]

CustomTicked == choice' = [choice EXCEPT !.custom = ~@, !.title = Unset, !.practice = Unset]

ChoosesRole ==
    /\ \/ \E p \in Practice \cup {Unset} : PracticeChosen(p)
       \/ \E t \in Title \cup {Unset} : TitleChosen(t)
       \/ \E l \in Level \cup {Unset} : LevelChosen(l)
       \/ \E c \in Code \cup {Unset} : CodeChosen(c)
       \/ CustomTicked
    /\ UNCHANGED <<stored, assignmentOut, seatsGovernance, roleSaving>>

RoleSavePressed ==
    /\ roleSaving = Unset /\ roleSaving' = choice
    /\ UNCHANGED <<choice, stored, assignmentOut, seatsGovernance>>

(* Vacating a governance code needs the rank that filling it does. *)
MayReseat(c) == c = stored.code \/ seatsGovernance \/ {c, stored.code} \cap Governance = {}

RoleSaveAnswered ==
    /\ roleSaving # Unset /\ roleSaving' = Unset
    /\ \/ Accepted(roleSaving) /\ MayReseat(roleSaving.code) /\ stored' = roleSaving
       \/ UNCHANGED stored
    /\ UNCHANGED <<choice, assignmentOut, seatsGovernance>>

RoleFormNext == AssignmentArrives \/ ChoosesRole \/ RoleSavePressed \/ RoleSaveAnswered

RoleFormSpec == RoleFormInit /\ [][RoleFormNext]_roleVars

-----------------------------------------------------------------------------
(* However the choices are made, remade, made custom and overwritten by the       *)
(* assignment's arrival, the form holds no title of another practice and no level *)
(* the catalogue does not admit for the title beside it.                          *)
ChoiceIsAdmitted == choice \in Choice /\ InCatalogue(choice)

-----------------------------------------------------------------------------
(***************************************************************************)
(* An employee's own profile: read once, edited, saved whole               *)
(* (app/me/profile/page.tsx).  A draft's text is one of a few versions.    *)
(***************************************************************************)
CONSTANTS Version, Empty             \* what the seven fields may hold; nothing

ASSUME VersionAssumption == Empty \in Version

VARIABLES
    atServer,        \* the stored profile, Empty for none
    profile,         \* the profile last answered
    profileDraft,    \* draft
    profileRead,     \* "out", "here", or "failed": loading and loadFailure
    profileSaving,   \* what a save in flight sends, or recorded, in a one-element set
    savedNote,       \* "Profile saved." stands
    saveRefused      \* saveFailure stands

profileVars == <<atServer, profile, profileDraft, profileRead, profileSaving, savedNote, saveRefused>>

ProfileInit ==
    /\ atServer \in Version /\ profile = Empty /\ profileDraft = Empty /\ profileRead = "out"
    /\ profileSaving = {} /\ savedNote = FALSE /\ saveRefused = FALSE

ProfileArrives ==                    \* a 404 is a form to complete
    /\ profileRead = "out" /\ profileRead' = "here"
    /\ profile' = atServer /\ profileDraft' = atServer
    /\ UNCHANGED <<atServer, profileSaving, savedNote, saveRefused>>

ProfileReadFails ==
    /\ profileRead = "out" /\ profileRead' = "failed"
    /\ UNCHANGED <<atServer, profile, profileDraft, profileSaving, savedNote, saveRefused>>

(* The retry leaves the failure on screen until something arrives. *)
ProfileRetried ==
    /\ profileRead = "failed" /\ profileRead' = "out"
    /\ UNCHANGED <<atServer, profile, profileDraft, profileSaving, savedNote, saveRefused>>

(* An edit takes the last outcome off the screen, and may fall into a save. *)
FieldEdited(v) ==
    /\ profileRead = "here" /\ v # profileDraft
    /\ profileDraft' = v /\ savedNote' = FALSE /\ saveRefused' = FALSE
    /\ UNCHANGED <<atServer, profile, profileRead, profileSaving>>

ProfileSubmitted ==
    /\ profileRead = "here" /\ profileSaving = {}
    /\ profileSaving' = {[sends |-> profileDraft, ran |-> FALSE]}
    /\ savedNote' = FALSE /\ saveRefused' = FALSE
    /\ UNCHANGED <<atServer, profile, profileDraft, profileRead>>

ProfileStored(s) ==
    /\ s \in profileSaving /\ ~s.ran /\ atServer' = s.sends
    /\ profileSaving' = {[s EXCEPT !.ran = TRUE]}
    /\ UNCHANGED <<profile, profileDraft, profileRead, savedNote, saveRefused>>

(* The answer replaces the draft, edits made meanwhile with it. *)
ProfileSaveAnswered(s) ==
    /\ s \in profileSaving /\ s.ran /\ profileSaving' = {}
    /\ profile' = s.sends /\ profileDraft' = s.sends /\ savedNote' = TRUE
    /\ UNCHANGED <<atServer, profileRead, saveRefused>>

ProfileSaveFails ==
    /\ profileSaving # {} /\ profileSaving' = {} /\ saveRefused' = TRUE
    /\ UNCHANGED <<atServer, profile, profileDraft, profileRead, savedNote>>

ProfileCancelled ==
    /\ profileRead = "here" /\ profileSaving = {} /\ profileDraft # profile
    /\ profileDraft' = profile /\ savedNote' = FALSE /\ saveRefused' = FALSE
    /\ UNCHANGED <<atServer, profile, profileRead, profileSaving>>

ProfileNext ==
    \/ ProfileArrives \/ ProfileReadFails \/ ProfileRetried \/ ProfileSubmitted
    \/ ProfileSaveFails \/ ProfileCancelled
    \/ \E v \in Version : FieldEdited(v)
    \/ \E s \in profileSaving : ProfileStored(s) \/ ProfileSaveAnswered(s)

ProfileSpec == ProfileInit /\ [][ProfileNext]_profileVars

-----------------------------------------------------------------------------
(* "leaving 'Saved' on screen while the form has changed underneath it would be a   *)
(* lie about the stored state": where it stands, the form is what the server holds, *)
(* whatever was edited while the save was out and whichever save that was.          *)
SavedMeansStored == savedNote => profileDraft = atServer /\ profile = atServer /\ ~saveRefused

-----------------------------------------------------------------------------
(*********************************************************************************)
(* The hour of the nightly sync, as an administrator sets it: facts read from    *)
(* a query, and beside them a form that keeps what its fields held when it       *)
(* mounted (NightlySyncSection and ScheduleForm in app/admin/settings/page.tsx). *)
(*********************************************************************************)

CONSTANTS
    Zone,            \* the zones schedules are in
    Listed,          \* those this browser lists; some zone of its own is first
    FirstListed,
    Hour             \* what the hour's list holds; the checkbox beside it is alike

ASSUME ZoneAssumption == Listed \subseteq Zone /\ FirstListed \in Listed

VARIABLES
    schedule,        \* the row at the server: zone and hour
    scheduleView,    \* the schedule query
    fields,          \* what the form's fields hold, or nothing while it is not mounted
    base,            \* history: the schedule they were filled from
    touched,         \* history: the fields that have been edited since
    scheduleOut      \* a save in flight, and whether it was recorded

settingsVars == <<schedule, scheduleView, fields, base, touched, scheduleOut>>

Schedule == [zone : Zone, hour : Hour]

(* A zone the browser does not list is put before those it does. *)
Options(z) == Listed \cup {z}
Shown(z) == IF z \in Options(z) THEN z ELSE FirstListed

SettingsInit ==
    /\ schedule \in Schedule /\ scheduleView = Asked(Unread(schedule))
    /\ fields = {} /\ base = schedule /\ touched = {} /\ scheduleOut = {}

ScheduleServed ==
    /\ scheduleView.stage = "asked" /\ scheduleView' = ReadAnswered(scheduleView, schedule)
    /\ UNCHANGED <<schedule, fields, base, touched, scheduleOut>>

(* The form mounts with the first data and is gone with an error. *)
ScheduleArrives ==
    /\ scheduleView.stage = "answered" /\ scheduleView' = Arrived(scheduleView)
    /\ IF fields = {}
       THEN LET s == scheduleView.got IN
            fields' = {[s EXCEPT !.zone = Shown(s.zone)]} /\ base' = s /\ touched' = {}
       ELSE UNCHANGED <<fields, base, touched>>
    /\ UNCHANGED <<schedule, scheduleOut>>

ScheduleReadFails ==
    /\ Reading(scheduleView) /\ scheduleView' = Failed(scheduleView) /\ fields' = {}
    /\ UNCHANGED <<schedule, base, touched, scheduleOut>>

ScheduleReadAgain ==                 \* the window's focus, or Try again
    /\ ~Reading(scheduleView) /\ scheduleView' = Asked(scheduleView)
    /\ UNCHANGED <<schedule, fields, base, touched, scheduleOut>>

ZoneEdited(f, z) ==
    /\ z \in Options(base.zone) \ {f.zone} /\ fields' = {[f EXCEPT !.zone = z]}
    /\ touched' = touched \cup {"zone"}
    /\ UNCHANGED <<schedule, scheduleView, base, scheduleOut>>

HourEdited(f, h) ==
    /\ h # f.hour /\ fields' = {[f EXCEPT !.hour = h]} /\ touched' = touched \cup {"hour"}
    /\ UNCHANGED <<schedule, scheduleView, base, scheduleOut>>

ScheduleSubmitted(f) ==
    /\ scheduleOut = {} /\ scheduleOut' = {[sends |-> f, kept |-> base, but |-> touched, ran |-> FALSE]}
    /\ UNCHANGED <<schedule, scheduleView, fields, base, touched>>

ScheduleStored(c) ==
    /\ ~c.ran /\ schedule' = c.sends /\ scheduleOut' = {[c EXCEPT !.ran = TRUE]}
    /\ UNCHANGED <<scheduleView, fields, base, touched>>

ScheduleSaveAnswered(c) ==
    /\ scheduleOut' = {} /\ scheduleView' = IF c.ran THEN Invalidated(scheduleView, TRUE) ELSE scheduleView
    /\ UNCHANGED <<schedule, fields, base, touched>>

SettingsNext ==
    \/ ScheduleServed \/ ScheduleArrives \/ ScheduleReadFails \/ ScheduleReadAgain
    \/ \E f \in fields : \/ \E z \in Zone : ZoneEdited(f, z)
                         \/ \E h \in Hour : HourEdited(f, h)
                         \/ ScheduleSubmitted(f)
    \/ \E c \in scheduleOut : ScheduleStored(c) \/ ScheduleSaveAnswered(c)

SettingsSpec == SettingsInit /\ [][SettingsNext]_settingsVars

-----------------------------------------------------------------------------
SettingsTypeOK == schedule \in Schedule /\ base \in Schedule /\ fields \subseteq Schedule

(* The comment on zones: saving the hour never moves the schedule.  What a save *)
(* sends for a field nobody touched is what the schedule held when the form was *)
(* filled, whatever the browser lists and whatever has been read again since.   *)
UntouchedFieldsKept ==
    \A c \in scheduleOut :
        /\ "zone" \in c.but \/ c.sends.zone = c.kept.zone
        /\ "hour" \in c.but \/ c.sends.hour = c.kept.hour
=============================================================================
