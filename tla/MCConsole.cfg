CONSTANTS
    q1 = q1
    q2 = q2
    s1 = s1
    s2 = s2
    e1 = e1
    e2 = e2
    e3 = e3
    k1 = k1
    k2 = k2
    a1 = a1
    a2 = a2
    i1 = i1
    p1 = p1
    p2 = p2
    u1 = u1
    u2 = u2
    l1 = l1
    l2 = l2
    z1 = z1
    z2 = z2
    z3 = z3
    h1 = h1
    h2 = h2
    d1 = d1
    d2 = d2
    d3 = d3
    c1 = c1
    c2 = c2
    n1 = n1
    n2 = n2
    n3 = n3
    b1 = b1
    b2 = b2
    t1 = t1
    t2 = t2
    m1 = m1
    m2 = m2
    NoQuestionOut = NoQuestionOut
    NoOne = NoOne
    NoPack = NoPack
    Nobody = Nobody
    NoCase = NoCase
    NoRef = NoRef
    Unset = Unset
    NoIdentity = NoIdentity
    NoDomain = NoDomain
    NoControl = NoControl
    NoNode = NoNode
    NoPerson = NoPerson
    NoConnection = NoConnection
    Question <- MCQuestion
    Chunk <- MCChunk
    MaxAnswers = 3
    Convs = 3
    Kept = 2
    MaxTurns = 2
    MaxRows = 3
    Filter <- MCFilter
    MaxLoads = 4
    MaxRuns = 4
    Employee <- MCEmployee
    Subject = e3
    Pack <- MCPack
    Person <- MCPair
    Case <- MCPack
    MaxEdits = 2
    Address <- MCAddress
    Lists <- MCLists
    MaxSends = 2
    Item <- MCItem
    Given <- MCGiven
    MaxPresses = 2
    Ref <- MCPair
    MaxComposed = 3
    Practice <- MCPractice
    Title <- MCTitle
    Level <- MCLevel
    PracticeOf <- MCPracticeOf
    Admits <- MCAdmits
    Code <- MCCode
    Governance <- MCCode
    Version <- MCVersion
    Empty = NoQuestionOut
    Zone <- MCZone
    Listed <- MCListed
    FirstListed = z1
    Hour <- MCHour
    Identity <- MCPack
    MaxReadings = 2
    MaxChallenges = 2
    MaxAttempts = 2
    Domain <- MCDomain
    Readable <- MCReadable
    Admin <- MCAdmin
    Tab <- MCTab
    MaxLinks = 3
    Someone <- MCPair
    Typed <- MCTyped
    Unsearched = NoQuestionOut
    Found <- MCFound
    MaxSearches = 4
    Source <- MCPack
    Connection <- MCPack
    Control <- MCControl
    Drawn <- MCDrawn
    MinInterval = 1
    PointerEcho = 3
    ClickGap = 2
    MaxTime = 5
    MaxPressed = 2
    MaxCopies = 3
    Items = 4
    ItemHeight = 3
    RevealMargin = 1
    Heights <- MCHeights
    Sections = 3
    SectionHeight = 3
    BandHeight = 3
    Node <- MCNode
    Narrow <- MCNarrow
    MaxMics = 2
    MaxScenes = 3
    Passages = 5
    PageLen = 2
    Task <- MCPair
    StartHour = {0, 3}
    WindowLen = 12
    TickEvery = 3
    TaskLife = 2
    LeaseLen = 4
    LastStep = 17
    MaxKills = 1
SPECIFICATION ConsoleSpec
VIEW Picked
INVARIANTS ThreadHolds ListsFollowTheBox WalksAreWhole SourcesStay PackageIsItsHolders KeptBackStaysBack TeamIsInvitedOnce OneMember ListsCatchUp  AttemptsAreCounted RightSession GivenBack PageSaysSo NightHolds
PROPERTIES AnswersStay BoundForGood
CHECK_DEADLOCK FALSE
