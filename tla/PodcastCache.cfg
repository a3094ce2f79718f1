\* Three episodes, the older two of one date, and room for two of them: they push
\* each other out, and one can leave and come back within one feed.
SPECIFICATION FairSpec
CONSTANTS
    Episode <- MCEpisode
    Date <- MCDate
    MaxEpisodes = 2
    MaxPosition = 1
    WriteDelay = 1
    MaxReplies = 2
    MaxFeed = 3
    None = None
INVARIANTS
    TypeOK
    CacheFollows
    ListsAreProper
PROPERTIES
    DownloadKeepsNewest
    ReloadIsTransparent
    ChangesReachTheFile
