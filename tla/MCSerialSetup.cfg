CONSTANTS
    Names <- mc_Names
    Arguments <- mc_Arguments
    MAX_OPTIONS = 2
    Files <- mc_Files
SPECIFICATION SetupSpec
INVARIANTS GeometryFitsFile SectorsReachable OptionsOwnImage
PROPERTIES FilesKept
