CONSTANTS
    Names <- MC_Names
    Vals <- MC_Vals
    Paths <- MC_SavePaths
    Contents <- MC_SaveContents
    Volumes <- MC_Volumes
    Hosts <- MC_SaveHosts
    Mems <- MC_SaveMems
    CredIDs = {1}
    SourceCreds = {1}
    NullID = NullID
    NotANumber = NotANumber
    ArgKeys = {}
    Blank = ""
    NoVolume = NoVolume
    NotLoaded = NotLoaded
    None = None
    Undefined = Undefined
    InitServer <- MC_SaveInitServer
    MaxEnv = 1
    MaxMounts = 2
    MaxPvs = 0
    MaxSaves = 1

SPECIFICATION Spec

INVARIANT NoDuplicateMountPathSent
