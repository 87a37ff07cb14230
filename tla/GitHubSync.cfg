SPECIFICATION FilesSpec
CONSTANTS
    Hosts = {h1, h2}
    Tidied = {}
    Lines = {f, g}
    Broken = {}
    Misread = {}
    Noise = noise
    MaxLength = 2
PROPERTIES
    AutoSyncOnlyAdds
CHECK_DEADLOCK FALSE
