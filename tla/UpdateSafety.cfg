\* Four releases, two of them with the same number, one sick, one crashing; two mishaps.
SPECIFICATION Spec
CONSTANTS
    Tag <- FourReleases
    Installed <- V1
    Sick <- NextSick
    Crashing <- LastCrashes
    Events = {"disk", "refused", "dies", "crashloop", "power"}
    MaxEvents = 2
INVARIANTS TypeOK CurrentRunnable RollbackTargetHasRun ConfirmsWhatRan NeverBehindConfirmed
PROPERTIES RollbackOncePerUpdate
