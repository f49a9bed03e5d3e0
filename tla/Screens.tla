-------------------------------- MODULE Screens -----------------------------
(********************************************************************************)
(* The screens of the console's two areas: which capability offers each, which  *)
(* reads it stands on, and how a write made on one is seen on another.          *)
(*                                                                              *)
(* A run follows one screen, its home, for one reader, and at most one write,   *)
(* its deed, made there or elsewhere.  Reads are QueryView's; what a read holds *)
(* is abstracted to whether it was answered after the deed was recorded.  The   *)
(* browser keeps the capabilities it read; the server knows the role.           *)
(********************************************************************************)
EXTENDS QueryView, Naturals, Sequences

Role == {"owner", "super_admin", "hr_admin", "it_admin", "analyst", "viewer", "member"}

(* ROLE_PERMISSIONS, as far as the screens ask. *)
Everyone == {"profile:self_read", "profile:self_update", "integration:self_manage",
             "retrieval:query", "kt:open", "basket:write"}
Permission == Everyone \cup
    {"org:read", "org:update", "sync:schedule_manage", "basket:manage", "member:read",
     "member:invite", "member:assign_role", "member:assign_role_code", "integration:read",
     "integration:connect", "integration:revoke", "audit:read", "kt:manage"}
RolePermissions ==
    [owner |-> Permission, super_admin |-> Permission,
     hr_admin |-> Everyone \cup {"org:read", "member:read", "member:invite", "member:assign_role",
        "member:assign_role_code", "audit:read", "kt:manage", "sync:schedule_manage"},
     it_admin |-> Everyone \cup {"org:read", "org:update", "sync:schedule_manage", "member:read",
        "integration:read", "integration:connect", "integration:revoke", "audit:read", "basket:manage"},
     analyst |-> Everyone \cup {"org:read", "member:read", "integration:read"},
     viewer |-> Everyone \cup {"org:read"},
     member |-> Everyone]

(* What the server requires of each call the screens make: the router's declaration. *)
Open == "profile:self_read"                   \* held by every role
OwnCalls ==
    [me |-> Open, myOrganisation |-> Open, myProfile |-> Open,
     updateMyProfile |-> "profile:self_update",
     myIdentities |-> "integration:self_manage", employeeIdentities |-> "integration:read",
     linkIdentity |-> "integration:connect", revokeIdentity |-> "integration:revoke",
     currentOrganisation |-> "org:read", employees |-> "member:read", invite |-> "member:invite",
     previewInvitations |-> "member:invite", inviteMany |-> "member:invite"]
BasketCalls ==
    [startBasketUpload |-> "basket:write", completeBasketUpload |-> "basket:write",
     basketFiles |-> "basket:write", basketDownloadUrl |-> "basket:write",
     renameBasketFile |-> "basket:write", retryBasketFile |-> "basket:write",
     deleteBasketFile |-> "basket:write"]
AdminCalls ==
    [audit |-> "audit:read", jobs |-> "org:read", jobStats |-> "org:read",
     sources |-> "integration:read", resyncSource |-> "integration:connect",
     revokeInvitation |-> "member:invite", resendInvitation |-> "member:invite",
     invitations |-> "member:invite", assignRole |-> "member:assign_role",
     roleCatalogue |-> Open, roleAssignment |-> "member:read",
     assignRoleTaxonomy |-> "member:assign_role_code",
     renameOrganisation |-> "org:update", overview |-> "org:read"]
ToolCalls ==
    [syncSchedule |-> "integration:self_manage", updateSyncSchedule |-> "sync:schedule_manage",
     ready |-> Open, roles |-> "org:read", employeeConnections |-> "integration:read",
     connect |-> "integration:self_manage", integrations |-> "integration:self_manage",
     disconnectIntegration |-> "integration:self_manage", syncNow |-> "integration:self_manage",
     connectionSummary |-> "integration:read", connectionPolicies |-> "integration:read",
     revokeConnection |-> "integration:revoke", setConnectionPolicy |-> "org:update"]
KtCalls ==
    [ktScopes |-> "kt:manage", ktCreate |-> "kt:manage", ktList |-> "kt:manage", ktGet |-> "kt:manage",
     ktRevoke |-> "kt:manage", ktComplete |-> "kt:manage", ktUpdate |-> "kt:manage"]
PackageCalls ==
    [c \in {"ktClaim", "ktFiles", "ktFileDownloadUrl", "ktAttachments", "ktAttachable", "ktAttach",
            "ktDetach", "ktContents", "ktExclude", "ktInclude", "ktDocument",
            "ktDocuments"} |-> "kt:open"]
RecipientCalls ==
    [c \in {"ktInsights", "ktInsightSummary", "ktHandoverSummary",
            "ktHandoverReport", "ktEvidence", "ktAsk", "ktConversations", "ktSearchConversations",
            "ktConversation", "ktArchiveConversation", "ktBookmarks", "ktBookmark",
            "ktRemoveBookmark", "ktProgress", "ktSetProgress", "ktClearProgress", "ktWorkspace"}
        |-> "kt:open"]
SearchCalls == [search |-> "retrieval:query", evidence |-> "retrieval:query"]
QueryCalls ==
    [ask |-> "retrieval:query", myKnowledge |-> "retrieval:query", departments |-> "member:read"]
(* One table and then another. *)
With(f, g) == [c \in DOMAIN f \cup DOMAIN g |-> IF c \in DOMAIN f THEN f[c] ELSE g[c]]

PackageNeeds == With(KtCalls, With(PackageCalls, RecipientCalls))
Needs ==
    With(OwnCalls, With(BasketCalls, With(AdminCalls, With(ToolCalls,
        With(PackageNeeds, With(SearchCalls, QueryCalls))))))

(* The navigation: each screen, and the permission its entry is drawn for. *)
AdminSections ==
    [overview |-> "org:read", employees |-> "member:read", invitations |-> "member:invite",
     departments |-> "member:read", knowledge_transfer |-> "kt:manage", sources |-> "integration:read",
     apps |-> "integration:read", connection_policies |-> "org:update",
     identities |-> "integration:read",
     roles |-> "org:read", settings |-> "org:update", jobs |-> "org:read", audit |-> "audit:read",
     health |-> "org:read"]
MemberSections ==
    [me |-> Open, ask |-> "retrieval:query", my_knowledge |-> "retrieval:query",
     basket |-> "basket:write", handover |-> Open, integrations |-> Open,
     my_identities |-> "integration:self_manage",
     profile |-> Open]
WorkspaceTabs == [t \in {"kt_overview", "kt_files", "kt_tab", "kt_timeline"} |-> "kt:open"]
ConsoleSections == With(AdminSections, With(MemberSections, WorkspaceTabs))

(* A read of a screen: its cache key, its call, and the permission the page tests before   *)
(* it asks.  One with no key is the page's own state, read on every mount.  A quiet one    *)
(* is not missed when it fails; one within another is drawn once that one has come; one on *)
(* a press belongs to a panel the reader opens.                                            *)
Read(key, call, shownTo) ==
    [key |-> key, call |-> call, shownTo |-> shownTo, quiet |-> FALSE, within |-> 0, pressed |-> FALSE]
OnMountRead(call, shownTo) == Read(<<>>, call, shownTo)
Quiet(r) == [r EXCEPT !.quiet = TRUE]
Within(r, n) == [r EXCEPT !.within = n]
OnPress(r, n) == [r EXCEPT !.within = n, !.pressed = TRUE]

(* A screen: the permission the page tests before all else, and its reads. *)
ScreenOf(gate, rs) == [gate |-> gate, reads |-> rs]

OrganisationRead == OnMountRead("currentOrganisation", Open)
CountsRead == Within(Read(<<"overview">>, "overview", Open), 1)
OverviewPage == ScreenOf(Open, <<OrganisationRead, CountsRead>>)
EmployeesPage == ScreenOf("member:read", <<OnMountRead("employees", "member:read")>>)
InvitationsPage ==
    ScreenOf("member:invite", <<Read(<<"invitations">>, "invitations", "member:invite")>>)
DepartmentsPage == ScreenOf("member:read", <<Read(<<"departments">>, "departments", "member:read")>>)
DetailRead == OnPress(Read(<<"kt", "1", "detail">>, "ktGet", "kt:manage"), 1)
KnowledgeTransferPage ==
    ScreenOf("kt:manage", <<Read(<<"kt", "list">>, "ktList", "kt:manage"), DetailRead>>)
SourcesPage == ScreenOf("integration:read", <<Read(<<"sources">>, "sources", "integration:read")>>)
AppsPage ==
    ScreenOf("integration:read",
             <<Read(<<"connections", "summary">>, "connectionSummary", "integration:read")>>)
ConnectionPoliciesPage ==
    ScreenOf("integration:read",
             <<Read(<<"connection-policies">>, "connectionPolicies", "integration:read")>>)
IdentitiesPage == ScreenOf("member:read", <<OnMountRead("employees", "member:read")>>)
RolesPage == ScreenOf("org:read", <<Read(<<"roles">>, "roles", "org:read")>>)
ScheduleRead == Read(<<"sync-schedule">>, "syncSchedule", Open)
SettingsPage ==
    ScreenOf(Open, <<Read(<<"organisation">>, "currentOrganisation", "org:update"), ScheduleRead>>)
JobsPage ==
    ScreenOf("org:read", <<Read(<<"jobs", "stats">>, "jobStats", "org:read"),
                           Read(<<"jobs", "state">>, "jobs", "org:read")>>)
AuditPage == ScreenOf("audit:read", <<Read(<<"audit">>, "audit", "audit:read")>>)
HealthPage ==
    ScreenOf("org:read", <<Read(<<"readyz">>, "ready", "org:read"),
                           Within(Read(<<"jobs", "stats">>, "jobStats", "org:read"), 1)>>)

MePage == ScreenOf(Open, <<>>)
TenantRead == Quiet(Read(<<"me", "organisation">>, "myOrganisation", Open))
AskPage == ScreenOf(Open, <<TenantRead>>)
MyKnowledgePage == ScreenOf(Open, <<Read(<<"me", "knowledge">>, "myKnowledge", Open)>>)
BasketPage == ScreenOf(Open, <<Read(<<"basket", "files">>, "basketFiles", Open)>>)
HandoverPage == ScreenOf(Open, <<TenantRead>>)
IntegrationsPage ==
    ScreenOf(Open, <<Read(<<"integrations">>, "integrations", Open), Quiet(ScheduleRead)>>)
MyIdentitiesPage == ScreenOf(Open, <<OnMountRead("myIdentities", Open)>>)
ProfilePage == ScreenOf(Open, <<OnMountRead("myProfile", Open)>>)

Claim == Read(<<"kt", "open">>, "ktClaim", Open)
WorkspaceRead == Within(Read(<<"kt", "1", "workspace">>, "ktWorkspace", Open), 1)
KtOverviewPage == ScreenOf(Open, <<Claim, WorkspaceRead>>)
KtFilesPage == ScreenOf(Open, <<Claim, Within(Read(<<"kt", "1", "files">>, "ktFiles", Open), 1)>>)
InsightsRead == Within(Read(<<"kt", "1", "insights">>, "ktInsights", Open), 1)
KtTabPage == ScreenOf(Open, <<Claim, InsightsRead>>)
KtTimelinePage == ScreenOf(Open, <<Claim, InsightsRead>>)

Pages ==
    [overview |-> OverviewPage, employees |-> EmployeesPage, invitations |-> InvitationsPage,
     departments |-> DepartmentsPage, knowledge_transfer |-> KnowledgeTransferPage,
     sources |-> SourcesPage, apps |-> AppsPage, connection_policies |-> ConnectionPoliciesPage,
     identities |-> IdentitiesPage, roles |-> RolesPage, settings |-> SettingsPage, jobs |-> JobsPage,
     audit |-> AuditPage, health |-> HealthPage, me |-> MePage, ask |-> AskPage,
     my_knowledge |-> MyKnowledgePage, basket |-> BasketPage, handover |-> HandoverPage,
     integrations |-> IntegrationsPage, my_identities |-> MyIdentitiesPage, profile |-> ProfilePage,
     kt_overview |-> KtOverviewPage, kt_files |-> KtFilesPage, kt_tab |-> KtTabPage,
     kt_timeline |-> KtTimelinePage]

(* A write: the screen it is made on, the permission its control is drawn for, its call,  *)
(* the reads whose answers it changes, and the keys its success reads again.  Every write *)
(* adds to the audit trail.                                                               *)
Deed(on, shownTo, call, changes, tells) ==
    [on |-> on, shownTo |-> shownTo, call |-> call, changes |-> changes \cup {"audit"}, tells |-> tells]
NoDeed == "none"

InviteDeed == Deed("employees", "member:invite", "invite", {"invitations", "overview"}, {})
ImportDeed == Deed("employees", "member:invite", "inviteMany", {"invitations", "overview"}, {})
RevokeConnectionDeed ==
    Deed("employees", "integration:revoke", "revokeConnection", {"connectionSummary"},
         {<<"employee-connections">>})
InvitationDeed(call) ==
    Deed("invitations", "member:invite", call, {"invitations", "overview"}, {<<"invitations">>})
ResyncDeed ==
    Deed("sources", "integration:connect", "resyncSource", {"sources", "jobs", "jobStats"},
         {<<"sources">>, <<"jobs">>})
PolicyDeed ==
    Deed("connection_policies", "org:update", "setConnectionPolicy",
         {"connectionPolicies", "integrations"}, {<<"connection-policies">>, <<"integrations">>})
RenameDeed ==
    Deed("settings", "org:update", "renameOrganisation", {"currentOrganisation", "myOrganisation"},
         {<<"organisation">>})
ScheduleDeed ==
    Deed("settings", "sync:schedule_manage", "updateSyncSchedule", {"syncSchedule"}, {<<"sync-schedule">>})
DisconnectDeed ==
    Deed("integrations", Open, "disconnectIntegration", {"integrations", "connectionSummary"},
         {<<"integrations">>})
SyncDeed == Deed("integrations", Open, "syncNow", {"jobs", "jobStats"}, {<<"integrations">>})
ProfileDeed == Deed("profile", Open, "updateMyProfile", {"myProfile", "departments"}, {})
UploadDeed ==
    Deed("basket", Open, "completeBasketUpload", {"basketFiles", "jobs", "jobStats"}, {<<"basket">>})
KtCreateDeed == Deed("knowledge_transfer", "kt:manage", "ktCreate", {"ktList"}, {<<"kt", "list">>})
KtRevokeDeed ==
    Deed("knowledge_transfer", "kt:manage", "ktRevoke", {"ktList", "ktGet"}, {<<"kt", "list">>})
KtCompleteDeed ==
    Deed("knowledge_transfer", "kt:manage", "ktComplete", {"ktList", "ktGet"},
         {<<"kt", "list">>, <<"kt", "1">>})
KtUpdateDeed ==
    Deed("knowledge_transfer", "kt:manage", "ktUpdate", {"ktList", "ktGet"},
         {<<"kt", "list">>, <<"kt", "1">>})

Deeds ==
    [invite |-> InviteDeed, import |-> ImportDeed, revoke_connection |-> RevokeConnectionDeed,
     revoke_invitation |-> InvitationDeed("revokeInvitation"),
     resend_invitation |-> InvitationDeed("resendInvitation"), resync |-> ResyncDeed,
     set_policy |-> PolicyDeed, rename |-> RenameDeed, set_schedule |-> ScheduleDeed,
     disconnect |-> DisconnectDeed, sync_now |-> SyncDeed, save_profile |-> ProfileDeed,
     upload |-> UploadDeed, kt_create |-> KtCreateDeed, kt_revoke |-> KtRevokeDeed,
     kt_complete |-> KtCompleteDeed, kt_update |-> KtUpdateDeed]

-----------------------------------------------------------------------------
VARIABLES
    home,            \* the screen followed
    deed,            \* the write of the run, or none
    whereAt,         \* the screen on show: home, the deed's, or neither
    panelOpen,       \* whether the panel that is opened by a press is open
    role,            \* what the server knows
    capable,         \* whose permissions the browser was told
    screenReads,     \* screenReads[n]: the reads of home
    sent,            \* the deed: "unsent", "out", "done" (recorded, unheard), "over"
    recorded,        \* the server recorded it
    unsettled        \* history: reads the browser cannot know are behind

screenVars ==
    <<home, deed, whereAt, panelOpen, role, capable, screenReads, sent, recorded, unsettled>>

ReadsOf == Pages[home].reads
OfMount(r) == r.key = <<>>
can(permission) == permission \in RolePermissions[capable]
Served403(call) == Needs[call] \notin RolePermissions[role]
Elsewhere == "elsewhere"

(* The answer of a read: it shows the deed or not. *)
Answer(n) == recorded /\ ReadsOf[n].call \in Deeds[deed].changes

Enabled(n) == can(Pages[home].gate) /\ can(ReadsOf[n].shownTo) /\ (ReadsOf[n].pressed => panelOpen)

(* What a region of the page shows: its failure before its rows. *)
RegionDrawn(n) ==
    LET w == ReadsOf[n].within IN
    /\ Enabled(n)
    /\ w # 0 => screenReads[w].here /\ screenReads[w].stage # "failed"
FailureShown(n) == RegionDrawn(n) /\ screenReads[n].stage = "failed" /\ ~ReadsOf[n].quiet
RegionRows(n) == RegionDrawn(n) /\ screenReads[n].here /\ screenReads[n].stage # "failed"

ScreensInit ==
    /\ home \in DOMAIN Pages
    /\ deed \in {NoDeed} \cup {d \in DOMAIN Deeds : Deeds[d].on = home \/
                     \E n \in DOMAIN ReadsOf : ReadsOf[n].call \in Deeds[d].changes}
    /\ whereAt = Elsewhere /\ panelOpen = FALSE
    /\ role \in (IF deed = NoDeed THEN Role ELSE {"owner"}) /\ capable \in {role, "owner"}
    /\ screenReads = [n \in DOMAIN ReadsOf |-> Unread(FALSE)]
    /\ sent = "unsent" /\ recorded = FALSE /\ unsettled = {}

(* The reader opens home, offered or by its address: what is enabled is read, unless it *)
(* is cached and fresh.  The page's own state starts over.                              *)
Mounting(n) ==
    IF ~Enabled(n) THEN {screenReads[n]}
    ELSE IF OfMount(ReadsOf[n]) THEN {Asked(Unread(FALSE))} ELSE OnMount(screenReads[n])

OpensHome ==
    /\ whereAt # home /\ whereAt' = home
    /\ screenReads' \in {f \in [DOMAIN ReadsOf -> UNION {Mounting(n) : n \in DOMAIN ReadsOf}] :
                        \A n \in DOMAIN ReadsOf : f[n] \in Mounting(n)}
    /\ UNCHANGED <<home, deed, panelOpen, role, capable, sent, recorded, unsettled>>

PressesPanel ==
    /\ whereAt = home /\ panelOpen' = ~panelOpen
    /\ \E n \in DOMAIN ReadsOf :
          /\ ReadsOf[n].pressed /\ RegionRows(ReadsOf[n].within)
          /\ \E v \in OnMount(screenReads[n]) :
                screenReads' = [screenReads EXCEPT ![n] = IF panelOpen THEN @ ELSE v]
    /\ UNCHANGED <<home, deed, whereAt, role, capable, sent, recorded, unsettled>>

LeavesTo(p) ==
    /\ p \notin {home, whereAt} /\ (p = Elsewhere \/ (deed # NoDeed /\ p = Deeds[deed].on))
    /\ whereAt' = p /\ panelOpen' = FALSE
    /\ screenReads' =
          [n \in DOMAIN ReadsOf |-> IF OfMount(ReadsOf[n]) THEN Unread(FALSE) ELSE screenReads[n]]
    /\ UNCHANGED <<home, deed, role, capable, sent, recorded, unsettled>>

ReadIsServed(n) ==
    /\ screenReads[n].stage = "asked" /\ ~Served403(ReadsOf[n].call)
    /\ screenReads' = [screenReads EXCEPT ![n] = ReadAnswered(@, Answer(n))]
    /\ unsettled' = unsettled \ {n}
    /\ UNCHANGED <<home, deed, whereAt, panelOpen, role, capable, sent, recorded>>

(* A read that fails is tried once more where that can help; refusals are not. *)
ReadComes(n) ==
    /\ \/ screenReads[n].stage = "answered" /\ screenReads' = [screenReads EXCEPT ![n] = Arrived(@)]
       \/ Reading(screenReads[n]) /\ screenReads' = [screenReads EXCEPT ![n] = Failed(@)]
    /\ UNCHANGED <<home, deed, whereAt, panelOpen, role, capable, sent, recorded, unsettled>>

(* Retry after a failure, a poll, the window looked at again. *)
ReadsAgain(n) ==
    /\ whereAt = home /\ Enabled(n) /\ screenReads[n].stage \in {"idle", "failed"}
    /\ OfMount(ReadsOf[n]) => screenReads[n].stage = "failed"
    /\ screenReads' = [screenReads EXCEPT ![n] = Asked(@)]
    /\ UNCHANGED <<home, deed, whereAt, panelOpen, role, capable, sent, recorded, unsettled>>

(* GET /v1/me is asked again. *)
CapabilitiesCome ==
    /\ capable # role /\ capable' = role
    /\ UNCHANGED <<home, deed, whereAt, panelOpen, role, screenReads, sent, recorded, unsettled>>

(* The deed's control is drawn with the rows of its page; a package is edited in its panel. *)
DoesDeed ==
    /\ deed # NoDeed /\ sent = "unsent" /\ whereAt = Deeds[deed].on /\ can(Deeds[deed].shownTo)
    /\ whereAt = home =>
          \E n \in DOMAIN ReadsOf : RegionRows(n) /\ (deed = "kt_update" => ReadsOf[n].pressed)
    /\ sent' = "out"
    /\ UNCHANGED <<home, deed, whereAt, panelOpen, role, capable, screenReads, recorded, unsettled>>

DeedRecorded ==
    /\ sent = "out" /\ ~Served403(Deeds[deed].call)
    /\ sent' = "done" /\ recorded' = TRUE
    /\ UNCHANGED <<home, deed, whereAt, panelOpen, role, capable, screenReads, unsettled>>

(* Refused, or its answer lost: a sentence on screen, and nothing is asked again. *)
DeedFails ==
    /\ sent \in {"out", "done"} /\ sent' = "over"
    /\ unsettled' =
          IF sent = "done" THEN {n \in DOMAIN ReadsOf : screenReads[n].data # Answer(n)} ELSE {}
    /\ UNCHANGED <<home, deed, whereAt, panelOpen, role, capable, screenReads, recorded>>

(* invalidateQueries takes every key that begins with the one it is given. *)
Begins(prefix, key) == Len(prefix) <= Len(key) /\ SubSeq(key, 1, Len(prefix)) = prefix
Told(n) == ~OfMount(ReadsOf[n]) /\ \E p \in Deeds[deed].tells : Begins(p, ReadsOf[n].key)

DeedHeard ==
    /\ sent = "done" /\ sent' = "over"
    /\ LET on == whereAt = home IN
       /\ screenReads' = [n \in DOMAIN ReadsOf |->
             IF Told(n) THEN Invalidated(screenReads[n], on /\ Enabled(n)) ELSE screenReads[n]]
       /\ unsettled' = {n \in DOMAIN ReadsOf : Told(n) /\ Outrun(screenReads[n], on /\ Enabled(n))}
    /\ UNCHANGED <<home, deed, whereAt, panelOpen, role, capable, recorded>>

ScreensNext ==
    \/ OpensHome \/ PressesPanel \/ CapabilitiesCome
    \/ DoesDeed \/ DeedRecorded \/ DeedFails \/ DeedHeard
    \/ \E p \in {Elsewhere} \cup DOMAIN Pages : LeavesTo(p)
    \/ \E n \in DOMAIN ReadsOf : ReadIsServed(n) \/ ReadComes(n) \/ ReadsAgain(n)

ScreensSpec == ScreensInit /\ [][ScreensNext]_screenVars

-----------------------------------------------------------------------------
ScreensTypeOK ==
    /\ home \in DOMAIN Pages /\ deed \in {NoDeed} \cup DOMAIN Deeds
    /\ whereAt \in {Elsewhere} \cup DOMAIN Pages /\ {role, capable} \subseteq Role
    /\ sent \in {"unsent", "out", "done", "over"} /\ recorded \in BOOLEAN
    /\ unsettled \subseteq DOMAIN ReadsOf /\ panelOpen \in BOOLEAN
    /\ \A n \in DOMAIN ReadsOf :
          screenReads[n].stage \in {"never", "asked", "answered", "idle", "failed"}

(* The pairs of a write and a read it changes that nothing tells: the audit trail, of   *)
(* every write; the details left open over a revoked package; and those across screens. *)
Untold(d, call) ==
    \/ call = "audit"
    \/ <<d, call>> \in
          {<<"kt_revoke", "ktGet">>, <<"rename", "myOrganisation">>,
           <<"disconnect", "connectionSummary">>, <<"revoke_connection", "connectionSummary">>,
           <<"sync_now", "jobs">>, <<"sync_now", "jobStats">>,
           <<"upload", "jobs">>, <<"upload", "jobStats">>, <<"save_profile", "departments">>,
           <<"invite", "invitations">>, <<"invite", "overview">>, <<"import", "invitations">>,
           <<"import", "overview">>, <<"revoke_invitation", "overview">>,
           <<"resend_invitation", "overview">>}

(* Any other read at rest shows the write once it is answered, on whatever screen the     *)
(* write was made and whatever reads were in flight: the keys named in one file are those *)
(* another reads by.  A lost answer, and an answer on its way to a screen already left,   *)
(* are excepted.                                                                          *)
ToldListsCatchUp ==
    \A n \in DOMAIN ReadsOf :
       /\ whereAt = home /\ RegionRows(n) /\ ~Reading(screenReads[n]) /\ n \notin unsettled
       /\ sent = "over" /\ recorded /\ ~Untold(deed, ReadsOf[n].call) /\ ~OfMount(ReadsOf[n])
       => screenReads[n].data = Answer(n)

(* A reader whose capabilities are current is never offered a screen that refuses them, *)
(* a read the server refuses, or a control whose write it refuses: three tables, the    *)
(* navigation's, the pages' and the routers', agree for every role.                     *)
OfferedIsServed ==
    /\ capable = role /\ can(ConsoleSections[home])
    => /\ can(Pages[home].gate)
       /\ \A n \in DOMAIN ReadsOf : Enabled(n) => ~Served403(ReadsOf[n].call)
       /\ \A d \in DOMAIN Deeds : Deeds[d].on = home /\ can(Deeds[d].shownTo) => ~Served403(Deeds[d].call)

(* A screen at rest with a read that failed says so: no region is drawn in another's *)
(* shadow and left blank.                                                            *)
FailureIsSaid ==
    /\ whereAt = home
    /\ \A n \in DOMAIN ReadsOf : ~Reading(screenReads[n])
    /\ \E n \in DOMAIN ReadsOf : screenReads[n].stage = "failed" /\ ~ReadsOf[n].quiet /\ Enabled(n)
    => \E n \in DOMAIN ReadsOf : FailureShown(n)
=============================================================================
