------------------------------- MODULE MCParts -------------------------------
(***************************************************************************)
(* One instance of each smaller component.  The components have nothing to *)
(* do with each other: `part` says which of them a behaviour is about, and *)
(* all but the cache (which is extended) take their variables from one     *)
(* pool v1, v2, ... of which the rest stays 0.                             *)
(***************************************************************************)
EXTENDS SwrCache, TLC

CONSTANTS
  Parts,                         \* the components behaviours are about
  invoices, offers, positions,   \* keys of the cache
  Actor, Thing,                  \* two interchangeable requests, users, ... each
  Usernames,
  MaxFaults                      \* failed calls in a behaviour (bound)

VARIABLES part, v1, v2, v3, v4, v5, v6, v7, v8, v9, v10, v11, v12, v13

ByVersion(v) == v + 1
Invalidated == {{invoices}, {invoices, offers, positions}}
Symmetry == Permutations(Actor) \union Permutations(Thing)

-----------------------------------------------------------------------------
Ev(name, tx) ==
  [name |-> name, subject |-> "i1", tx |-> tx, value |-> <<>>, readable |-> tx # "bad"]
NoticeBursts == {<<>>, <<Ev("inv_ovd", "t1"), Ev("inv_reg", "bad"), Ev("inv_ovd", "t2")>>}
NoticeEvents == UNION {ToSet(b) : b \in NoticeBursts}

Notice == INSTANCE Notifications WITH
  Event <- NoticeEvents, Bursts <- NoticeBursts, EventTypes <- {"inv_reg", "inv_ovd"},
  PageLimit <- 2, ShortPages <- FALSE, Retention <- 1, MaxLedger <- 4, MaxErrors <- 1,
  SeenCap <- 2, SeededCap <- 1, User <- "user",
  log <- v1, latest <- v2, oldest <- v3, stream <- v4, delivered <- v5, since <- v6,
  cutOff <- v7, errors <- v8, hook <- v9, seeded <- v10, inserting <- v11, rows <- v12,
  answered <- v13

ReplayBursts == NoticeBursts \union {<<Ev("inv_reg", "t3")>>}
Replay == INSTANCE EventReplay WITH
  Event <- UNION {ToSet(b) : b \in ReplayBursts}, Bursts <- ReplayBursts,
  EventTypes <- {"inv_reg", "inv_ovd"}, PageLimit <- 2, ShortPages <- FALSE,
  Retention <- 1, MaxLedger <- 4, WindowSize <- 2,
  log <- v1, latest <- v2, oldest <- v3, replay <- v4, found <- v5, horizon <- v6

Rate == INSTANCE RateLimit WITH
  Keys <- Actor \union {"other"}, Limit <- 2, Window <- 3, MaxTracked <- 2, MaxTime <- 5,
  buckets <- v1, now <- v2, admitted <- v3

Login == INSTANCE WalletLogin WITH
  Wallets <- {"w1"}, Challenges <- Thing, Requests <- Actor, Validity <- 1, MaxCall <- 1,
  PurgeAge <- 2, MaxTime <- 3,
  now <- v1, challenge <- v2, used <- v3, request <- v4, profile <- v5, sessions <- v6,
  faults <- v7

Profile == INSTANCE ProfileSetup WITH
  Users <- Thing, Requests <- Actor,
  row <- v1, token <- v2, request <- v3, faults <- v4

Fraction == INSTANCE Securitization WITH
  Lenders <- {"l1", "l2"}, Pages <- Thing, Purchases <- Actor, Splits <- {2},
  Amounts <- {3}, Currencies <- {"USDC"}, MaxRecords <- 2, MaxDividends <- 1,
  records <- v1, held <- v2, points <- v3, dividends <- v4, page <- v5, purchase <- v6

Reminder == INSTANCE Reminders WITH
  Invoices <- {"i1"}, DueDate <- [i \in {"i1"} |-> 0], Offset <- [before |-> 0 - 1, today |-> 0],
  Jobs <- Actor, MaxDay <- 1, MaxAttempts <- 2,
  day <- v1, emailed <- v2, open <- v3, optedOut <- v4, config <- v5, log <- v6, job <- v7,
  delivered <- v8, faults <- v9, overlapped <- v10

Saving == INSTANCE Preferences WITH
  Prefs <- {"default", "mine"}, Default <- "default", Calls <- Actor, MaxCalls <- 2,
  MaxMounts <- 2,
  state <- v1, local <- v2, remote <- v3, signedIn <- v4, hydrate <- v5, call <- v6,
  latest <- v7, raced <- v8, calls <- v9, mounts <- v10, faults <- v11, serialized <- v12

Invoke == INSTANCE Invocation WITH
  Calls <- Actor, Ops <- {"repay"}, TxLife <- 1, Polls <- 1, CacheTtl <- 2, MaxTime <- 2,
  now <- v1, seq <- v2, fits <- v3, pool <- v4, status <- v5, simCache <- v6, call <- v7,
  faults <- v8

Dialog == INSTANCE Preview WITH
  Wallets <- Actor, CacheTtl <- 1, MaxTime <- 2, MaxOpens <- 3,
  now <- v1, wallet <- v2, fits <- v3, cache <- v4, open <- v5, flights <- v6, shown <- v7,
  loading <- v8, submitting <- v9, confirmed <- v10, opens <- v11, faults <- v12

V(major, minor, patch, pre) == <<major, minor, patch, pre>>
Table(from, to, status) == [from |-> from, to |-> to, status |-> status]
SomeVersions ==
  {V(0,1,0,0), V(0,2,0,0), V(0,3,0,0), V(1,0,0,0), V(1,0,0,1), V(1,2,3,0), V(1,2,1,0), V(2,0,0,0)}
CompatibilityMatrix ==
  {Table(V(0,1,0,0), V(0,2,0,0), "minor-update"), Table(V(0,2,0,0), V(0,3,0,0), "minor-update"),
   Table(V(0,3,0,0), V(1,0,0,0), "major-update")}
Version == INSTANCE Upgrade WITH
  Versions <- SomeVersions, Matrix <- CompatibilityMatrix, MaxRuns <- 2,
  deployed <- v1, expected <- v2, answers <- v3, detected <- v4, notices <- v5, plan <- v6,
  runs <- v7

Escrow == INSTANCE EscrowDelivery WITH
  MaxLoads <- 4,
  chain <- v1, index <- v2, page <- v3, flight <- v4, reads <- v5, paid <- v6, loads <- v7,
  faults <- v8

(* Lags at the bounds of what is tolerated, in 200 ms.                     *)
Resolve == INSTANCE EscrowResolve WITH
  Lags <- {0, 13, 32, 33, 60, 61, 1000}, Attempts <- 3, Base <- 5, MaxBackoff <- 10,
  Rounds <- 3, RoundBase <- 10, RoundMax <- 40, Latency <- 1,
  Within <- [f \in 0..1 |-> IF f = 0 THEN 60 ELSE 32],
  now <- v1, indexedAt <- v2, round <- v3, attempt <- v4, id <- v5, faults <- v6

Collector == INSTANCE Health WITH
  Contracts <- {"registry", "insurance"}, Known <- {"registry"}, Runs <- Actor, Hour <- 2,
  MaxTime <- 5, MaxEvents <- 1,
  now <- v1, events <- v2, run <- v3, metrics <- v4, snapshots <- v5, audit <- v6,
  stored <- v7, faults <- v8

Mock == INSTANCE MockClient WITH
  Offers <- {"o1", "o2"}, TotalDue <- 2, Balance <- 2,
  Configured <- <<[on |-> "rejectOffer", times |-> 1]>>, MaxCalls <- 5,
  book <- v1, balances <- v2, trustlines <- v3, events <- v4, rules <- v5, threw <- v6,
  calls <- v7

Invoice(xlm, currency, days, source) ==
  [id |-> "i1", originator |-> "a", xlm |-> xlm, currency |-> currency, days |-> days,
   source |-> source]
SomePreferences ==
  [risk : {"conservative", "moderate", "aggressive"}, currency : {"both"},
   minYield : {0, 500, 900}, min : {0}, max : {0}, maxDays : {0, 30}]
Match == INSTANCE Matching WITH
  Rows <- {Invoice(5000, "XLM", 0 - 1, "mock"), Invoice(60000, "XLM", 45, "mock"),
           Invoice(60000, "XLM", 45, "mirror"), Invoice(600000, "XLM", 200, "mock")},
  Prefs <- SomePreferences, Limit <- 2, MinScore <- 1, MaxOffers <- 11,
  prefs <- v1, rows <- v2, record <- v3

Session == INSTANCE WalletSession WITH
  Wallets <- {"freighter", "albedo"}, Silent <- {"freighter"}, Accounts <- Thing,
  Backends <- {"authjs", "supabase"}, Tasks <- Actor, MaxEvents <- 4,
  backend <- v1, wallet <- v2, page <- v3, load <- v4, shown <- v5, active <- v6, hint <- v7,
  session <- v8, task <- v9, connecting <- v10, touched <- v11, strayed <- v12, events <- v13

Register == INSTANCE Registration WITH
  Wallets <- Thing, MaxTyped <- 2, MaxSubmits <- 2,
  form <- v1, storage <- v2, job <- v3, registered <- v4, row <- v5, told <- v6, lost <- v7,
  saved <- v8, typed <- v9

Document == INSTANCE Documents WITH
  Lenders <- Thing, Files <- {"pdf", "other"}, MaxUploads <- 1, MaxVerdicts <- 2,
  upload <- v1, row <- v2, offers <- v3, list <- v4, busy <- v5, flights <- v6, seen <- v7,
  verdicts <- v8

Client == INSTANCE ClientMethods WITH
  Offers <- {"o1"}, Holders <- {"l1", "l2"}, Lender <- [o \in {"o1"} |-> "l1"], Total <- 2,
  Calls <- Actor, Testnet <- TRUE, MaxCalls <- 2,
  ledger <- v1, due <- v2, holder <- v3, exists <- v4, outdated <- v5, call <- v6, calls <- v7

-----------------------------------------------------------------------------
(* The variables from the k-th of the pool on: unused, they are and stay 0. *)
pool == <<v1, v2, v3, v4, v5, v6, v7, v8, v9, v10, v11, v12, v13>>
all == <<part, pool, vars>>

Zero(k) ==
  /\ IF k <= 1 THEN v1 = 0 ELSE TRUE
  /\ IF k <= 2 THEN v2 = 0 ELSE TRUE
  /\ IF k <= 3 THEN v3 = 0 ELSE TRUE
  /\ IF k <= 4 THEN v4 = 0 ELSE TRUE
  /\ IF k <= 5 THEN v5 = 0 ELSE TRUE
  /\ IF k <= 6 THEN v6 = 0 ELSE TRUE
  /\ IF k <= 7 THEN v7 = 0 ELSE TRUE
  /\ IF k <= 8 THEN v8 = 0 ELSE TRUE
  /\ IF k <= 9 THEN v9 = 0 ELSE TRUE
  /\ IF k <= 10 THEN v10 = 0 ELSE TRUE
  /\ IF k <= 11 THEN v11 = 0 ELSE TRUE
  /\ IF k <= 12 THEN v12 = 0 ELSE TRUE
  /\ IF k <= 13 THEN v13 = 0 ELSE TRUE

Still(k) ==
  /\ IF k <= 1 THEN UNCHANGED v1 ELSE TRUE
  /\ IF k <= 2 THEN UNCHANGED v2 ELSE TRUE
  /\ IF k <= 3 THEN UNCHANGED v3 ELSE TRUE
  /\ IF k <= 4 THEN UNCHANGED v4 ELSE TRUE
  /\ IF k <= 5 THEN UNCHANGED v5 ELSE TRUE
  /\ IF k <= 6 THEN UNCHANGED v6 ELSE TRUE
  /\ IF k <= 7 THEN UNCHANGED v7 ELSE TRUE
  /\ IF k <= 8 THEN UNCHANGED v8 ELSE TRUE
  /\ IF k <= 9 THEN UNCHANGED v9 ELSE TRUE
  /\ IF k <= 10 THEN UNCHANGED v10 ELSE TRUE
  /\ IF k <= 11 THEN UNCHANGED v11 ELSE TRUE
  /\ IF k <= 12 THEN UNCHANGED v12 ELSE TRUE
  /\ IF k <= 13 THEN UNCHANGED v13 ELSE TRUE

(* Which component the behaviour is about, and how it starts.              *)
PartInit ==
  \/ part = "cache" /\ Zero(1)
  \/ part = "notices" /\ Notice!Init /\ Zero(14)
  \/ part = "replay" /\ Replay!Init /\ Zero(7)
  \/ part = "limiter" /\ Rate!Init /\ Zero(4)
  \/ part = "login" /\ Login!Init /\ Zero(8)
  \/ part = "profile" /\ Profile!Init /\ Zero(5)
  \/ part = "fractions" /\ Fraction!Init /\ Zero(7)
  \/ part = "reminders" /\ Reminder!Init /\ Zero(11)
  \/ part = "preferences" /\ Saving!Init /\ Zero(13)
  \/ part = "matching" /\ Match!Init /\ Zero(4)
  \/ part = "calls" /\ Invoke!Init /\ Zero(9)
  \/ part = "preview" /\ Dialog!Init /\ Zero(13)
  \/ part = "versions" /\ Version!Init /\ Zero(8)
  \/ part = "escrow" /\ Escrow!Init /\ Zero(9)
  \/ part = "resolve" /\ Resolve!Init /\ Zero(7)
  \/ part = "health" /\ Collector!Init /\ Zero(9)
  \/ part = "mock" /\ Mock!Init /\ Zero(8)
  \/ part = "session" /\ Session!Init /\ Zero(14)
  \/ part = "register" /\ Register!Init /\ Zero(10)
  \/ part = "documents" /\ Document!Init /\ Zero(9)
  \/ part = "client" /\ Client!Init /\ Zero(8)

MCInit == part \in Parts /\ Init /\ PartInit

PoolStep ==
  \/ part = "notices" /\ Notice!Next /\ Still(14)
  \/ part = "replay" /\ Replay!Next /\ Still(7)
  \/ part = "limiter" /\ Rate!Next /\ Still(4)
  \/ part = "login" /\ Login!Next /\ Still(8)
  \/ part = "profile" /\ Profile!Next /\ Still(5)
  \/ part = "fractions" /\ Fraction!Next /\ Still(7)
  \/ part = "reminders" /\ Reminder!Next /\ Still(11)
  \/ part = "preferences" /\ Saving!Next /\ Still(13)
  \/ part = "matching" /\ Match!Next /\ Still(4)
  \/ part = "calls" /\ Invoke!Next /\ Still(9)
  \/ part = "preview" /\ Dialog!Next /\ Still(13)
  \/ part = "versions" /\ Version!Next /\ Still(8)
  \/ part = "escrow" /\ Escrow!Next /\ Still(9)
  \/ part = "resolve" /\ Resolve!Next /\ Still(7)
  \/ part = "health" /\ Collector!Next /\ Still(9)
  \/ part = "mock" /\ Mock!Next /\ Still(8)
  \/ part = "session" /\ Session!Next /\ Still(14)
  \/ part = "register" /\ Register!Next /\ Still(10)
  \/ part = "documents" /\ Document!Next /\ Still(9)
  \/ part = "client" /\ Client!Next /\ Still(8)

MCNext ==
  /\ UNCHANGED part
  /\ \/ part = "cache" /\ Next /\ Still(1)
     \/ PoolStep /\ UNCHANGED vars

MCSpec == MCInit /\ [][MCNext]_all

-----------------------------------------------------------------------------
(* Each component's properties, of the behaviours that are about it; the   *)
(* last two are what the code says of itself and does not do.              *)

(* The type invariants of all parts. *)
TypesOK ==
  /\ TypeOK
  /\ part = "notices" => Notice!TypeOK
  /\ part = "replay" => Replay!TypeOK
  /\ part = "limiter" => Rate!TypeOK
  /\ part = "login" => Login!TypeOK
  /\ part = "profile" => Profile!TypeOK
  /\ part = "fractions" => Fraction!TypeOK
  /\ part = "reminders" => Reminder!TypeOK
  /\ part = "preferences" => Saving!TypeOK
  /\ part = "matching" => Match!TypeOK
  /\ part = "calls" => Invoke!TypeOK
  /\ part = "preview" => Dialog!TypeOK
  /\ part = "versions" => Version!TypeOK
  /\ part = "escrow" => Escrow!TypeOK
  /\ part = "resolve" => Resolve!TypeOK
  /\ part = "health" => Collector!TypeOK
  /\ part = "mock" => Mock!TypeOK
  /\ part = "session" => Session!TypeOK
  /\ part = "register" => Register!TypeOK
  /\ part = "documents" => Document!TypeOK
  /\ part = "client" => Client!TypeOK

(* What listenToEvents delivers and replayEvents returns: each event once, *)
(* in order, none lost but those a full page cut off.                      *)
(* A poll under way at the unmount seeds no notification.                  *)
EventsAreComplete ==
  /\ [](part = "notices" => Notice!DeliversOnceInOrder /\ Notice!LosesOnlyCutOff)
  /\ [](part = "replay" => Replay!ReplayIsComplete)
  /\ [][part = "notices" => Notice!SeedsNothing]_all

(* Fewer than twice the limit in any stretch of a window, and never more   *)
(* keys than the cap.                                                      *)
RateIsBounded ==
  part = "limiter" => Rate!RateIsBounded /\ Rate!CapHolds

(* No window of a tracked key is dropped or started over before it ends.   *)
WindowsLast ==
  [][part = "limiter" => \A k \in Actor \union {"other"} : Rate!WindowStays(k)]_all

(* A challenge yields one session, however requests overlap and fail.      *)
OneSessionPerChallenge ==
  part = "login" => Login!OneSessionPerChallenge

(* A login leaves a verified profile; a username is claimed once and       *)
(* stays; a token is never ahead of its profile.                           *)
ProfilesAreKept ==
  /\ [](part = "login" => Login!LoginLeavesProfile)
  /\ [](part = "profile" => Profile!TokenNeverAhead)
  /\ [][part = "profile" => Profile!ClaimsOnce]_all

(* Fractions are conserved, nothing is sold of a closed record, dividends  *)
(* are covered.                                                            *)
FractionsAreConserved ==
  /\ [](part = "fractions" => Fraction!SupplyIsConserved /\ Fraction!DividendsAreCovered)
  /\ [][part = "fractions" => Fraction!StaysClosed]_all

(* A reminder that is due is sent once and is on record.                   *)
RemindersAreKept ==
  part = "reminders" => Reminder!RemindersAreKept

(* What the lender saved is what the page shows.                           *)
SavedIsKept ==
  part = "preferences" => Saving!SavedIsKept

(* A score is a percentage and moves the right way.                        *)
ScoringIsSound ==
  part = "matching" => Match!ScoringIsSound

(* A call signs and reports its own transaction; what is confirmed was     *)
(* previewed by the wallet that confirms it.                               *)
CallsAreTheirOwn ==
  /\ part = "calls" => Invoke!CallsAreTheirOwn
  /\ part = "preview" => Dialog!ConfirmedWasPreviewed

(* Updates go forward, downgrades deploy nothing.                          *)
UpdatesGoForward ==
  part = "versions" => Version!UpdatesGoForward

(* An escrow is found unless the read model lags beyond what the retries   *)
(* are meant for; its funds leave only after delivery and approval.        *)
EscrowRailHolds ==
  /\ part = "escrow" => Escrow!ReleaseFollowsDelivery
  /\ part = "resolve" => Resolve!LagIsTolerated

(* No gap between timely runs; a breach has its rows.                      *)
MetricsAreComplete ==
  part = "health" => Collector!MetricsAreComplete

(* The mock's log, maps and balances agree.                                *)
MockIsConsistent ==
  part = "mock" => Mock!MockIsConsistent

(* The cache stays within its budget, evicts the oldest first, and keeps   *)
(* nothing a method of the client has changed.                             *)
CacheIsKept ==
  /\ []BudgetIsKept
  /\ EvictsOldestFirst
  /\ [](part = "client" => Client!OwnChangesShow)

(* Signatures are asked of the wallet that is shown, a load opens no       *)
(* window, and the session follows the wallet.                             *)
WalletIsShown ==
  part = "session" => Session!SignerIsShown /\ Session!LoadIsQuiet /\ Session!SessionFollows

(* An invoice only on the ledger is reported, drafts stay with their       *)
(* wallet and go with their invoice; a document shows its bytes to all and *)
(* is judged by lenders.                                                   *)
InvoicePapersHold ==
  /\ part = "register" =>
       Register!RowsAreRegistered /\ Register!DraftsStayApart /\ Register!SubmittedDraftIsGone
  /\ part = "documents" => Document!EverybodySeesTheSame /\ Document!VerdictsAreLenders

(* "persists a notification whenever a relevant event arrives".            *)
NotificationIsPersisted == part = "notices" => Notice!NotificationIsPersisted

(* A row of the mirror is suggested like the same row of the mock store.   *)
MirrorRowsAreMatched == part = "matching" => Match!MirrorRowsAreMatched
=============================================================================
