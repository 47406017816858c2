CONSTANTS
    PR <- MCPR
    File <- MCFile
    Unit = {"foreman", "dynflow", "proxy"}
    Tag = {"t1", "t2"}
    Dropin = {"10", "11"}
    Base = {"foreman", "gem"}
    BaseOf <- MCBaseOf
    FilesIn <- MCFilesIn
    Adds <- MCAdds
    Removes <- MCRemoves
    Excluded = {"spec"}
    Dangling = {"migrate", "log"}
    Migration = {"migrate"}
    GemFile = {"gemspec"}
    Gemspec = {"gemspec"}
    Quadlet = {"foreman", "dynflow"}
    Requests <- MCRequests
    MaxRuns = 3
    Gem <- MCGem
    Longer <- MCLonger
    Anchor = "faraday"
    Pull <- MCPull
    Change <- MCChange
    BaseSpec <- MCBaseSpec
    MaxPrs = 3
SPECIFICATION MCSpec
CHECK_DEADLOCK FALSE
INVARIANTS
    AppliedStays
    MigratedBeforeMounted
    ImageIsConsistent
