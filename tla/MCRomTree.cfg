SPECIFICATION FairSpec
CONSTANTS
    pack = pack
    disc = disc
    arcade = arcade
    track = track
    single = single
    plain = plain
    apple = apple
    crlf = crlf
    lf = lf
    megadrive = megadrive
    gba = gba
    psx = psx
    macosx = macosx
    forks = forks
    kept = kept
    t1 = t1
    t2 = t2
    Contents = {pack, disc, single, plain, track, apple, crlf, lf}
    Holds <- HoldsValue
    NameOf <- NameOfValue
    ExtOf <- ExtOfValue
    Systems <- SystemsValue
    Skipped = {"zip", "7z"}
    Inbox = Inbox
    Ports = Ports
    Quarantine = Quarantine
    Elsewhere = {Ports, Quarantine}
    Temps = {t1, t2}
    JunkDirs = {macosx, forks, kept}
    Under <- UnderValue
    JunkSubs = {1}
    Aside = {kept}
    MaxDup = 2
    Bare = {single}
    SubOf <- SubOfValue
    Junk = {"._c.bin"}
    JunkNames = {"._c.bin"}
    Keep = FALSE
    MaxFaults = 1
    Unix <- UnixValue
    InitialCards <- CardsValue
INVARIANTS TypeOK NothingLost OverwritesOnlyRaced
PROPERTIES EverythingRouted
CHECK_DEADLOCK FALSE
