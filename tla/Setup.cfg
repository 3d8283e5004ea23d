SPECIFICATION Spec
CONSTANTS
    r1 = r1
    r2 = r2
    Runs = {r1, r2}
    Names = {"api", "admin"}
    Parts = {"timeouts", "404"}
    MaxConfig = 2
    Port <- Ports
    Cases <- SomeCases
    IPs <- AllIPs
    V6 <- SixIPs
    Zeros <- ZeroIPs
    Private <- PrivateIPs
INVARIANTS
    TypeOK
    Exclusive
    ServesWhatItAdded
    StopStopsOwn
    ListensWhereTold
    AdvertisedIsServed
SYMMETRY RunsAreAlike
CHECK_DEADLOCK FALSE
