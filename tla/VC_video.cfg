SPECIFICATION Spec
CONSTANTS
    MinSpoken = 2
    MinSummed = 3
    MinPoints = 4
    Link <- MCLink
    NoLink <- MCNoLink
    Target <- MCTarget
    Status = {200, 401, 403, 404, 429, 503}
    Mime = {"video", "html", "octet", "pdf"}
    Mark = {"apps", "video", "denied"}
    Tracks <- MCTracks
    Text <- MCText
    Duration = {0, 6, 7, 90}
    RetryAttempts = 2
    SampleFrames = 6
    MinFrames = 4
    LongestYouTube = 6
    LongestInput = 60
    Kills = 1
  
PROPERTIES UnavailableIsCertain UnitEnds
CHECK_DEADLOCK FALSE
