CONSTANTS
    Names <- MC_Names
    Vals <- MC_Vals
    Paths <- MC_Paths
    Contents <- MC_Contents
    Volumes <- MC_Volumes
    Hosts <- MC_Hosts
    Mems <- MC_Mems
    CredIDs = {1}
    SourceCreds = {0, 1}
    NullID = NullID
    NotANumber = NotANumber
    ArgKeys = {"VERSION"}
    Blank = ""
    NoVolume = NoVolume
    NotLoaded = NotLoaded
    None = None
    Undefined = Undefined
    InitServer <- MC_InitServer
    MaxEnv = 2
    MaxMounts = 2
    MaxPvs = 1
    MaxSaves = 1

SPECIFICATION Spec

PROPERTY BuildArgsChangedOnlyByUser
