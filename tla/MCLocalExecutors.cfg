SPECIFICATION Spec
CONSTANTS
    c1 = c1
    c2 = c2
    p1 = p1
    p2 = p2
    plain = plain
    secret = secret
    bare = bare
    root = root
    dir = dir
    one = one
    two = two
    sub = sub
    top = top
    middle = middle
    leaf = leaf
    Executors = {"source", "package", "env", "resources", "permissions", "readiness",
                 "restart", "laravel", "rollback"}
    Calls <- MCCalls
    StampOf <- MCStampOf
    Torn = Torn
    NoFile = NoFile
    Restarts = {c1}
    InDocker = {c1}
    PackageOf <- MCPackageOf
    FragmentOf <- MCFragmentOf
    Sections = {"dependencies", "devDependencies"}
    Broken = Broken
    Good = Good
    Other = Other
    Absent = Absent
    NoCall = NoCall
    Names = {plain, secret, bare}
    Required <- MCRequired
    Secret = {secret}
    Defaultable = {plain, secret}
    Default = Default
    Custom = Custom
    Unset = Unset
    Directories = {top, middle, leaf}
    DirectoryOf <- MCDirectoryOf
    Policy <- MCPolicy
    Paths = {dir, one, two}
    Parent <- MCParent
    FilePaths = {two}
    PathOf <- MCPathOf
    TargetPaths = {dir, one, two, sub}
    TargetParent <- MCTargetParent
    Targets <- MCTargets
    TargetFiles = {one, two}
    Writable = {two}
    Manifests <- MCManifests
    Service = Service
    Action = Action
    Unnamed = Unnamed
INVARIANTS
    TypeOK
    TextIsRecoverable
    SourceReportIsTrue
    PackageChangeIsRecorded
    EnvIsRecoverable
    CreatedIsReversible
    ModesAreAccountedFor
    FailureRestoresWhatWasSeen
    RepairIsReversed
    RepairIsOnRecord
    RestartIsVerified
    StubIsMarkedOrGone
    RetryEndsAsOneExecution
CONSTRAINT SomeCallIsAlone
CHECK_DEADLOCK FALSE
