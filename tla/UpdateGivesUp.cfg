\* A release that dies at every start is published and stays the newest; no mishap.
SPECIFICATION FairSpec
CONSTANTS
    Tag <- TwoReleases
    Installed <- V1
    Sick <- NoReleases
    Crashing <- NextCrashes
    Events = {}
    MaxEvents = 0
PROPERTIES UnconfirmedLeft
