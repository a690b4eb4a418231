SPECIFICATION Spec
CONSTANTS
    Parts = {"machine", "managed", "init", "schedule", "gate"}
    None = None
    vaultV = vaultV
    vaultW = vaultW
    updateA = updateA
    updateB = updateB
    Vaults = {vaultV, vaultW}
    VaultPaths = {"here", "there", "other"}
    NameOf <- FolderNames
    MaxMoves = 4
    MaxStops = 1
    ManagedNames = {"hook", "note"}
    Stampable = {"note"}
    KitText <- ThreeKits
    UpdateRuns = {updateA, updateB}
    MaxPerson = 2
    MaxRuns = 3
    MaxCuts = 1
    Places <- TreePlaces
    Chain <- Tree
    Vault = "vault"
    State = "state"
    Machine = "machine"
    Git = "git"
    Hook = "hook"
    Manifest = "manifest"
    Plans <- CommandPlans
    MaxOthers = 1
    MaxFaults = 2
    Systems = {"linux", "darwin", "win32"}
    Failing = {"systemctl", "bootstrap", "schtasks", "powershell", "crontab"}
    MaxEdits = 2
    MaxStarts = 3
    MaxBreaks = 1
    Refs = {"main", "named"}
    NamedAs <- RefNames
    Chains <- TagChains
    MaxTagDepth = 2
    Changes <- OneChange
    MaxCommits = 3
    MaxOdd = 1
    MaxTheirs = 1
    MaxPushes = 1
    MaxLosses = 1
    Reuse = FALSE
    AcceptsUnseen = FALSE
    HalfMade = FALSE
    Unended = FALSE
 
PROPERTIES MachineStateIsKept   NothingMatchedLands
SYMMETRY Either
CHECK_DEADLOCK FALSE
