SPECIFICATION PagesSpec
CONSTANTS
    Tabs = {"page", "api"}
    Pages = {"page"}
    UserOf <- Clients
    Ids = {"A", "B"}
    Invites = {"i"}
    Projects = {"p1", "p2"}
    DefaultProject = "p1"
    RepoFiles <- Files
    DiskFiles <- DiskFile
    Translatable <- DiskFile
    SearchNames = {"b"}
    Paths = {}
    GithubLinked = TRUE
    MaxUploads = 2
    MaxSubmits = 1
    TaskOrder <- Order
    CommitOf <- Commits
    HasProject = {"t1", "t2"}
    MaxRequests = 1
    TargetFiles <- Targets
    OwnPaths <- Own
    TypedPaths <- Typed
    Repos = {"a", "b"}
    Edited = {"a"}
    Fields = {"patterns"}
    Rejected = {}
    Calls = {1}
    MaxMade = 2
    Logins = {"u", "w"}
    Slots = {1, 2}
    MaxVersion = 1
CHECK_DEADLOCK FALSE
INVARIANTS
    PagesTypeOK
    RequestFromOneRepository
    
    SelectionOnScreen
    ClickedPathNamesFile
    DialogsFitPage
    UntouchedDraftIsStored
    OneRepositoryPerForm
    
    SessionLasts
    OwnerIsMember
    
    OwnTeamShown
    InvitesOfShownTeam
PROPERTY
    UploadClosesWhenAllCreated
