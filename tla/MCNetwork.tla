----------------------------- MODULE MCNetwork ------------------------------
(*****************************************************************************)
(* The components that talk over the network, each by itself: they have no   *)
(* state in common.  A behaviour is one of one component, whose variables are *)
(* the ones that are not 0.                                                  *)
(*****************************************************************************)
EXTENDS Naturals, Sequences, FiniteSets, TLC

CONSTANTS
    MaxRows, Clients, Limit,                                \* of EventStream
    Runs, Scripts, Window, MaxTime, MaxProgress,            \* of ActivityFeed
    Inodes, MaxUploads, MaxSize, Word, MaxBreaks,           \* of FileBrowser
    MaxTokens, MaxSetups, MaxLosses, MaxRounds,             \* of CloudPairing
    Devices, Matching, Sizes, MaxChanges, MaxScans,         \* of RomListing
    MaxRequests, MaxFaults,                                 \* of RomListing
    Paths                                                   \* of both FileBrowser and RomListing

\* Bounds are numbers, a file has fewer bytes than a word counts, and what stands for none
\* is not one.
ASSUME NetworkAssumption ==
    /\ {Window, MaxTime, MaxProgress, MaxUploads, MaxSize, MaxBreaks, MaxTokens, MaxSetups,
        MaxLosses, MaxRounds, MaxScans} \subseteq Nat
    /\ Word \in Nat /\ MaxSize < Word
    /\ 0 \notin Inodes /\ "no run" \notin Runs /\ "none" \notin Scripts
    /\ IsFiniteSet(Paths)

VARIABLES
    which, top, online, lastId, pushed, twice, clock, script, status,
    feedOutbox, feedRows, sent, told, missed, skipped, entry, content, uploads, stream,
    client, breaks, mixed, changed, pairingRow, good, submitted, setup,
    rounds, pairingAnswer, pairingLate, fed, conf, setups, pairingFaults,
    given, card, games, listingOutbox, batch, listingRows, wanted,
    listingAnswer, sweeping, swept, unmet, scans, listingChanges, requests,
    listingFaults, command, runs, presenceOutbox, sending, presenceLate,
    version, ip, server, catalog, events, snapshots, device, presenceChanges,
    presenceFaults, excused, dropped, refused, cut, seedCut

\* One path is the beginning of the other.
Alike == "sonic" :> {"sonic", "sonic2"} @@ "sonic2" :> {"sonic2"}

Stream == INSTANCE EventStream
StreamVars == <<top, online, lastId, pushed, twice>>
StreamOff ==
    /\ top = 0 /\ online = 0 /\ lastId = 0 /\ pushed = 0 /\ twice = 0

Feed == INSTANCE ActivityFeed WITH
    outbox <- feedOutbox, rows <- feedRows
FeedVars == <<clock, script, status, feedOutbox, feedRows, sent, told, missed,
      skipped>>
FeedOff ==
    /\ clock = 0 /\ script = 0 /\ status = 0 /\ feedOutbox = 0
    /\ feedRows = 0 /\ sent = 0 /\ told = 0 /\ missed = 0
    /\ skipped = 0

Browser == INSTANCE FileBrowser
BrowserVars == <<entry, content, uploads, stream, client, breaks, mixed, changed>>
BrowserOff ==
    /\ entry = 0 /\ content = 0 /\ uploads = 0 /\ stream = 0
    /\ client = 0 /\ breaks = 0 /\ mixed = 0 /\ changed = 0

Pairing == INSTANCE CloudPairing WITH
    MaxFaults <- MaxLosses, row <- pairingRow, answer <- pairingAnswer,
    late <- pairingLate, faults <- pairingFaults
PairingVars == <<pairingRow, good, submitted, setup, rounds, pairingAnswer, pairingLate,
      fed, conf, setups, pairingFaults, given>>
PairingOff ==
    /\ pairingRow = 0 /\ good = 0 /\ submitted = 0 /\ setup = 0
    /\ rounds = 0 /\ pairingAnswer = 0 /\ pairingLate = 0
    /\ fed = 0 /\ conf = 0 /\ setups = 0 /\ pairingFaults = 0
    /\ given = 0

Listing == INSTANCE RomListing WITH
    None <- "none", outbox <- listingOutbox, rows <- listingRows,
    answer <- listingAnswer, changes <- listingChanges,
    faults <- listingFaults
ListingVars == <<card, games, listingOutbox, batch, listingRows, wanted, listingAnswer,
      sweeping, swept, unmet, scans, listingChanges, requests, listingFaults>>
ListingOff ==
    /\ card = 0 /\ games = 0 /\ listingOutbox = 0 /\ batch = 0
    /\ listingRows = 0 /\ wanted = 0 /\ listingAnswer = 0
    /\ sweeping = 0 /\ swept = 0 /\ unmet = 0 /\ scans = 0
    /\ listingChanges = 0 /\ requests = 0 /\ listingFaults = 0

Presence == INSTANCE DeviceReports WITH
    Commands <- {"c"}, Severities <- {"critical"}, Counts <- {1}, Items <- 1,
    BatchSize <- 1, MaxRuns <- 1, MaxBeats <- 1, MaxChanges <- 1,
    MaxFaults <- 1, outbox <- presenceOutbox, late <- presenceLate,
    changes <- presenceChanges, faults <- presenceFaults
PresenceVars == <<command, runs, presenceOutbox, sending, presenceLate, version, ip,
      server, catalog, events, snapshots, device, presenceChanges,
      presenceFaults, excused, dropped, refused, cut, seedCut>>
PresenceOff ==
    /\ command = 0 /\ runs = 0 /\ presenceOutbox = 0 /\ sending = 0
    /\ presenceLate = 0 /\ version = 0 /\ ip = 0 /\ server = 0
    /\ catalog = 0 /\ events = 0 /\ snapshots = 0 /\ device = 0
    /\ presenceChanges = 0 /\ presenceFaults = 0 /\ excused = 0
    /\ dropped = 0 /\ refused = 0 /\ cut = 0 /\ seedCut = 0

all == <<which, StreamVars, FeedVars, BrowserVars, PairingVars, ListingVars,
         PresenceVars>>

ASSUME Assumptions ==
    /\ Stream!StreamAssumption
    /\ Listing!ListAssumption

Init ==
    /\ which \in {"stream", "feed", "browser", "pairing", "listing",
                  "presence"}
    /\ IF which = "stream" THEN Stream!Init ELSE StreamOff
    /\ IF which = "feed" THEN Feed!Init ELSE FeedOff
    /\ IF which = "browser" THEN Browser!Init ELSE BrowserOff
    /\ IF which = "pairing" THEN Pairing!Init ELSE PairingOff
    /\ IF which = "listing" THEN Listing!Init ELSE ListingOff
    /\ IF which = "presence" THEN Presence!Init ELSE PresenceOff

OnlyThis ==
    /\ UNCHANGED which
    /\ IF which = "stream" THEN TRUE ELSE UNCHANGED StreamVars
    /\ IF which = "feed" THEN TRUE ELSE UNCHANGED FeedVars
    /\ IF which = "browser" THEN TRUE ELSE UNCHANGED BrowserVars
    /\ IF which = "pairing" THEN TRUE ELSE UNCHANGED PairingVars
    /\ IF which = "listing" THEN TRUE ELSE UNCHANGED ListingVars
    /\ IF which = "presence" THEN TRUE ELSE UNCHANGED PresenceVars

Next ==
    \/ which = "stream" /\ Stream!Next /\ OnlyThis
    \/ which = "feed" /\ Feed!Next /\ OnlyThis
    \/ which = "browser" /\ Browser!Next /\ OnlyThis
    \/ which = "pairing" /\ Pairing!Next /\ OnlyThis
    \/ which = "listing" /\ Listing!Next /\ OnlyThis
    \/ which = "presence" /\ Presence!Next /\ OnlyThis

Spec == Init /\ [][Next]_all

\* What each component's FairSpec assumes.
FairSpec ==
    /\ Spec
    /\ \A c \in Clients : WF_all(which = "stream" /\ Stream!Poll(c) /\ OnlyThis)
    /\ WF_all(which = "feed" /\ Feed!Deliver /\ OnlyThis)
    /\ WF_all(which = "browser" /\ Browser!Download /\ OnlyThis)
    /\ WF_all(which = "pairing" /\ Pairing!AgentStep /\ OnlyThis)
    /\ WF_all(which = "listing" /\ Listing!Sweep /\ OnlyThis)
    /\ \A d \in Devices :
          /\ WF_all(which = "listing" /\ Listing!Cleanup(d) /\ OnlyThis)
          /\ WF_all(which = "listing" /\ Listing!Synchronise(d) /\ OnlyThis)
    /\ WF_all(which = "presence" /\ Presence!Round /\ OnlyThis)
    /\ WF_all(which = "presence" /\ Presence!NoServer /\ OnlyThis)
    /\ WF_all(which = "presence" /\ Presence!Open /\ OnlyThis)
    /\ WF_all(which = "presence" /\ Presence!SeedItem /\ OnlyThis)
    /\ WF_all(which = "presence" /\ Presence!Serve /\ OnlyThis)

-----------------------------------------------------------------------------
\* What the dashboard shows is what was reported.  routes.rs: what the live stream pushed
\* to a client has no gaps (NoGaps); how a run ended stays in the activity feed, in one row
\* of its script (OutcomesKept), and a script that is done does not stay "running" there
\* (RunningIsExplained), unless the server failed between the event and its row or a run
\* was killed or late.  dashboard.rs: a scanned ROM is on the list, unless a deletion took a
\* matching row (ScannedIsListed).
ShownIsTrue ==
    /\ which = "stream" =>
          /\ Stream!TypeOK
          /\ Stream!NoGaps
    /\ which = "feed" =>
          /\ Feed!TypeOK
          /\ Feed!OutcomesKept
          /\ Feed!RunningIsExplained
    /\ which = "listing" =>
          /\ Listing!TypeOK
          /\ Listing!ScannedIsListed

\* What one side hands over the other gets whole, once.  fileserver.rs: a file is one
\* upload, unless two of it were written at once (FileIsOneUpload), and a download put
\* together from ranges is the file (ResumedIsWhole).  routes.rs: two answers never carry
\* the same cloud token (TokenGivenOnce).  cloud.rs: a token the server has consumed has
\* reached rclone or is about to, unless its answer was lost (TokenNotWasted).
HandedOverWhole ==
    /\ which = "browser" =>
          /\ Browser!TypeOK
          /\ Browser!FileIsOneUpload
          /\ Browser!ResumedIsWhole
    /\ which = "pairing" =>
          /\ Pairing!TypeOK
          /\ Pairing!TokenGivenOnce
          /\ Pairing!TokenNotWasted

\* What is sent arrives.  routes.rs: a client that stays gets the first rows after its
\* connection; a ROM the dashboard asks to be deleted leaves the list, or it is known why
\* not; the row of a device comes to have its version and address (presence).  activity.rs:
\* the outcome of every run that ends gets into the feed, unless the server fails between
\* the event and its row.  fileserver.rs: a download that broke off comes to its end.
\* cloud.rs: a correct token pasted while a setup asks for it configures the cloud.
ArrivesInTheEnd ==
    /\ \A c \in Clients : []<>(which = "stream" => Stream!UpToDate(c))
    /\ \A r \in Runs : <>[](which = "feed" => Feed!EndShown(r))
    /\ []<>(which = "listing" => Listing!AllMet)
    /\ []<>(which = "presence" => Presence!Current)
    /\ (which = "browser" /\ Browser!Broken) ~> (which = "browser" /\ Browser!OverOrChanged)
    /\ \A t \in 1..MaxTokens :
        (which = "pairing" /\ Pairing!Offered(t)) ~> (which = "pairing" /\ Pairing!Settled(t))
=============================================================================
