SPECIFICATION Spec
CONSTANTS
    MbxSizes = {36}
    Uploads <- MCUploads
    Downloads <- MCDownloads
    ListTypes = {0, 1, 3}
    DcConfigs = {"off", "sync0"}
    MayLackMemory = TRUE
INVARIANTS  DownloadIsWhole ConfigurationHolds ListIsWhole
