SPECIFICATION FullSpec
CONSTANTS
    Products <- ThreeProducts
    Rel = {"rhel7", "rhel9"}
    Rhel = "RHEL"
    Rhosp = "RHOSP"
    Flatpak = "Flatpak"
    NoFlatpakFor = {"rhel7"}
    NoVersion = NoVersion
    MaxFailures = 1
    Browser = {"chromium", "firefox"}
    Role = {"admin", "viewer"}
    NoBrowser = "no browser"
    Browsers <- TwoBrowsers
    Roles <- BothRoles
INVARIANTS
    PushCarries
    ContentArrives
    CleanupIsComplete
    ResultIsEarned
\* The experiment ends.
CHECK_DEADLOCK FALSE
