-------------------------- MODULE WebPlatformProofs --------------------------
(* What is proved of the page's surroundings (MCWebPlatform): the offline shell
   is whole, the idle supervisor serves the newest sources, the log panel skips
   nothing, the status the preview's buttons go by is the server's, the list of
   files is fresh, notifications that are on arrive, and the squares of the game
   add up. *)
EXTENDS HostLogs, HostPreview, DevStack, AppShell, PushNotices, FileBrowser,
        BlocksGame, FiniteSetTheorems, WellFoundedInduction, TLAPS

-----------------------------------------------------------------------------
(* The offline shell is whole for any builds, assets and requests, whatever is
   deployed, lost or stopped, and in any order.

   Two facts keep each other up.  What the cache holds only grows, so a shell
   that was whole stays so (Whole).  And a fetch that has its answer knows what
   is still missing (Accounted): whatever its build names is cached or is among
   "missing", so when nothing is missing the shell may be put.  Assets that
   are cached for others meanwhile do no harm. *)

FetchRecords == [at : {"idle", "asked", "answered", "assets"}, build : Nat, version : Nat,
                 missing : SUBSET UNION {AssetsOf(b) : b \in Nat}]

ShellTypeOK ==
  /\ deployed \in Nat /\ shell \in Nat /\ version \in Nat
  /\ fetches \in [Requests -> FetchRecords]

Whole == shell # 0 => AssetsOf(shell) \subseteq assets

Accounted ==
  \A r \in Requests :
    fetches[r].at = "assets" => AssetsOf(fetches[r].build) \subseteq assets \cup fetches[r].missing

ShellIInv == ShellTypeOK /\ Whole /\ Accounted /\ opened.missing = {}

-----------------------------------------------------------------------------
LEMMA ShellInitInvariant == ShellInit => ShellIInv
BY DEF ShellInit, ShellIInv, ShellTypeOK, Whole, Accounted, FetchRecords, NoFetch

(* A step of one request: the cache does not shrink, and the request's new state
   is accounted for. *)
LEMMA OneFetch ==
  ASSUME ShellIInv, NEW r \in Requests, NEW f \in FetchRecords,
         Set(r, f), assets \subseteq assets',
         f.at = "assets" => AssetsOf(f.build) \subseteq assets' \cup f.missing
  PROVE  fetches' \in [Requests -> FetchRecords] /\ Accounted'
<1>1. fetches' \in [Requests -> FetchRecords]
  BY DEF ShellIInv, ShellTypeOK, Set
<1>2. ASSUME NEW q \in Requests, fetches'[q].at = "assets"
      PROVE  AssetsOf(fetches'[q].build) \subseteq assets' \cup fetches'[q].missing
  <2>1. CASE q = r
    BY <1>2, <2>1 DEF ShellIInv, ShellTypeOK, Set
  <2>2. CASE q # r
    <3>1. fetches'[q] = fetches[q]
      BY <2>2 DEF ShellIInv, ShellTypeOK, Set
    <3> QED BY <1>2, <3>1 DEF ShellIInv, Accounted
  <2> QED BY <2>1, <2>2
<1> QED BY <1>1, <1>2 DEF Accounted

LEMMA Numbered ==
  ASSUME NEW v \in Nat
  PROVE  /\ [NoFetch EXCEPT !.at = "asked", !.version = v] \in FetchRecords
         /\ [NoFetch EXCEPT !.at = "asked", !.version = v].at = "asked"
BY DEF NoFetch, FetchRecords

LEMMA PrecacheStep == ASSUME ShellIInv, NEW r \in Requests, Precache(r) PROVE ShellIInv'
<1>1. PICK v \in Nat : v = version'
  BY DEF Precache, ShellIInv, ShellTypeOK
<1> DEFINE f == [NoFetch EXCEPT !.at = "asked", !.version = v]
<1>2. Set(r, f) /\ UNCHANGED <<deployed, shell, assets, opened>>
  BY <1>1 DEF Precache
<1>3. f \in FetchRecords /\ f.at = "asked"
  BY Numbered
<1>4. fetches' \in [Requests -> FetchRecords] /\ Accounted'
  BY <1>2, <1>3, OneFetch
<1> QED BY <1>1, <1>2, <1>4 DEF ShellIInv, ShellTypeOK, Whole

LEMMA NavigateStep == ASSUME ShellIInv, NEW r \in Requests, Navigate(r) PROVE ShellIInv'
<1> DEFINE f == [NoFetch EXCEPT !.at = "asked"]
<1>1. f \in FetchRecords /\ f.at = "asked"
  BY DEF NoFetch, FetchRecords
<1>2. Set(r, f) /\ UNCHANGED <<deployed, shell, assets, version, opened>>
  BY DEF Navigate
<1>3. fetches' \in [Requests -> FetchRecords] /\ Accounted'
  BY <1>1, <1>2, OneFetch
<1> QED BY <1>2, <1>3 DEF ShellIInv, ShellTypeOK, Whole

LEMMA ServeStep == ASSUME ShellIInv, NEW r \in Requests, Serve(r) PROVE ShellIInv'
<1> DEFINE f == [fetches[r] EXCEPT !.at = "answered", !.build = deployed]
<1>1. f \in FetchRecords /\ f.at = "answered"
  BY DEF FetchRecords, ShellIInv, ShellTypeOK
<1>2. Set(r, f) /\ UNCHANGED <<deployed, shell, assets, version, opened>>
  BY DEF Serve
<1>3. fetches' \in [Requests -> FetchRecords] /\ Accounted'
  BY <1>1, <1>2, OneFetch
<1> QED BY <1>2, <1>3 DEF ShellIInv, ShellTypeOK, Whole

(* What is missing is what the build names and the cache lacks. *)
LEMMA HeardStep == ASSUME ShellIInv, NEW r \in Requests, Heard(r) PROVE ShellIInv'
<1> DEFINE g == fetches[r]
           number == IF g.version = 0 THEN version + 1 ELSE g.version
           f == [g EXCEPT !.at = "assets", !.version = number,
                         !.missing = AssetsOf(g.build) \ assets]
<1>1. g \in FetchRecords /\ number \in Nat /\ version' \in Nat
  BY DEF FetchRecords, ShellIInv, ShellTypeOK, Heard
<1>2. AssetsOf(g.build) \ assets \in SUBSET UNION {AssetsOf(b) : b \in Nat}
  BY <1>1 DEF FetchRecords
<1>3. f \in FetchRecords /\ f.build = g.build /\ f.missing = AssetsOf(g.build) \ assets
  BY <1>1, <1>2 DEF FetchRecords
<1>4. Set(r, f) /\ UNCHANGED <<deployed, shell, assets>>
  BY DEF Heard
<1>5. fetches' \in [Requests -> FetchRecords] /\ Accounted'
  BY <1>3, <1>4, OneFetch
<1>6. opened'.missing = {}
  BY DEF Heard, ShellIInv
<1> QED BY <1>1, <1>4, <1>5, <1>6 DEF ShellIInv, ShellTypeOK, Whole

(* The request is given up. *)
LEMMA GivenUp ==
  ASSUME ShellIInv, NEW r \in Requests, Set(r, NoFetch), assets \subseteq assets'
  PROVE  fetches' \in [Requests -> FetchRecords] /\ Accounted'
<1>1. NoFetch \in FetchRecords /\ NoFetch.at = "idle"
  BY DEF NoFetch, FetchRecords
<1> QED BY <1>1, OneFetch

LEMMA OfflineStep == ASSUME ShellIInv, NEW r \in Requests, Offline(r) PROVE ShellIInv'
<1>1. Set(r, NoFetch) /\ UNCHANGED <<deployed, shell, assets, version>>
  BY DEF Offline
<1>2. fetches' \in [Requests -> FetchRecords] /\ Accounted'
  BY <1>1, GivenUp
<1>3. opened'.missing = {}
  <2>1. CASE fetches[r].version = 0 /\ shell # 0
    BY <2>1 DEF Offline, ShellIInv, Whole
  <2>2. CASE ~(fetches[r].version = 0 /\ shell # 0)
    BY <2>2 DEF Offline, ShellIInv
  <2> QED BY <2>1, <2>2
<1> QED BY <1>1, <1>2, <1>3 DEF ShellIInv, ShellTypeOK, Whole

LEMMA CacheAssetStep ==
  ASSUME ShellIInv, NEW r \in Requests, NEW asset, CacheAsset(r, asset) PROVE ShellIInv'
<1> DEFINE f == [fetches[r] EXCEPT !.missing = @ \ {asset}]
<1>1. assets \subseteq assets' /\ UNCHANGED <<deployed, shell, version, opened>>
  BY DEF CacheAsset
<1>2. fetches' \in [Requests -> FetchRecords] /\ Accounted'
  <2>1. CASE asset \in AssetsOf(deployed)
    <3>1. Set(r, f) /\ assets' = assets \cup {asset} /\ fetches[r].at = "assets"
      BY <2>1 DEF CacheAsset
    <3>2. f \in FetchRecords /\ f.build = fetches[r].build
          /\ f.missing = fetches[r].missing \ {asset}
      BY DEF FetchRecords, ShellIInv, ShellTypeOK
    <3>3. AssetsOf(f.build) \subseteq assets' \cup f.missing
      BY <3>1, <3>2 DEF ShellIInv, Accounted
    <3> QED BY <1>1, <3>1, <3>2, <3>3, OneFetch
  <2>2. CASE asset \notin AssetsOf(deployed)
    BY <2>2, <1>1, GivenUp DEF CacheAsset
  <2> QED BY <2>1, <2>2
<1> QED BY <1>1, <1>2 DEF ShellIInv, ShellTypeOK, Whole

LEMMA AssetLostStep == ASSUME ShellIInv, NEW r \in Requests, AssetLost(r) PROVE ShellIInv'
<1>1. Set(r, NoFetch) /\ UNCHANGED <<deployed, shell, assets, version, opened>>
  BY DEF AssetLost
<1>2. fetches' \in [Requests -> FetchRecords] /\ Accounted'
  BY <1>1, GivenUp
<1> QED BY <1>1, <1>2 DEF ShellIInv, ShellTypeOK, Whole

(* Nothing is missing: what is accounted for is cached. *)
LEMMA PutShellStep == ASSUME ShellIInv, NEW r \in Requests, PutShell(r) PROVE ShellIInv'
<1> DEFINE f == fetches[r]
<1>1. /\ Set(r, NoFetch) /\ UNCHANGED <<deployed, assets, version, opened>>
      /\ f.at = "assets" /\ f.missing = {}
      /\ shell' = IF f.version = version THEN f.build ELSE shell
  BY DEF PutShell
<1>2. fetches' \in [Requests -> FetchRecords] /\ Accounted'
  BY <1>1, GivenUp
<1>3. f \in FetchRecords /\ AssetsOf(f.build) \subseteq assets
  BY <1>1 DEF ShellIInv, ShellTypeOK, Accounted
<1>4. shell' \in Nat
  BY <1>1, <1>3 DEF ShellIInv, ShellTypeOK, FetchRecords
<1>5. Whole'
  <2>1. CASE f.version = version
    BY <1>1, <1>3, <2>1 DEF Whole
  <2>2. CASE f.version # version
    BY <1>1, <2>2 DEF ShellIInv, Whole
  <2> QED BY <2>1, <2>2
<1> QED BY <1>1, <1>2, <1>4, <1>5 DEF ShellIInv, ShellTypeOK

LEMMA StopStep == ASSUME ShellIInv, Stop PROVE ShellIInv'
<1>1. NoFetch \in FetchRecords /\ NoFetch.at = "idle"
  BY DEF NoFetch, FetchRecords
<1>2. fetches' = [r \in Requests |-> NoFetch] /\ version' = 0
      /\ UNCHANGED <<deployed, shell, assets, opened>>
  BY DEF Stop
<1>3. Accounted'
  BY <1>1, <1>2 DEF Accounted
<1> QED BY <1>1, <1>2, <1>3 DEF ShellIInv, ShellTypeOK, Whole

LEMMA ShellNextInvariant == ShellIInv /\ [ShellNext]_shellVars => ShellIInv'
<1> SUFFICES ASSUME ShellIInv, [ShellNext]_shellVars PROVE ShellIInv'
  OBVIOUS
<1>1. CASE Deploy
  BY <1>1 DEF Deploy, ShellIInv, ShellTypeOK, Whole, Accounted
<1>2. CASE Stop
  BY <1>2, StopStep
<1>3. ASSUME NEW r \in Requests,
             \/ Precache(r) \/ Navigate(r) \/ Serve(r) \/ Heard(r) \/ Offline(r)
             \/ AssetLost(r) \/ PutShell(r)
             \/ \E asset \in AssetsOf(deployed) \cup fetches[r].missing : CacheAsset(r, asset)
      PROVE  ShellIInv'
  BY <1>3, PrecacheStep, NavigateStep, ServeStep, HeardStep, OfflineStep, AssetLostStep,
     PutShellStep, CacheAssetStep
<1>4. ASSUME NEW asset, PageAsset(asset) PROVE ShellIInv'
  BY <1>4 DEF PageAsset, ShellIInv, ShellTypeOK, Whole, Accounted
<1>5. CASE UNCHANGED shellVars
  BY <1>5 DEF shellVars, ShellIInv, ShellTypeOK, Whole, Accounted
<1> QED BY <1>1, <1>2, <1>3, <1>4, <1>5 DEF ShellNext

(* The cached shell is complete, and a page that is opened from it is: for any
   builds and assets, any number of requests, and any failures. *)
THEOREM ShellIsWhole == ShellSpec => []OfflineShellIsWhole
<1>1. ShellSpec => []ShellIInv
  BY ShellInitInvariant, ShellNextInvariant, PTL DEF ShellSpec
<1>2. ShellIInv => OfflineShellIsWhole
  BY DEF ShellIInv, Whole, OfflineShellIsWhole
<1> QED BY <1>1, <1>2, PTL

-----------------------------------------------------------------------------
(* The idle supervisor serves the newest sources, for any bounds.

   While it is up, something always remembers a change that is not served:
   the watcher, a timer, a restart that has not read the tree, the refresh that
   put assets the watcher does not see, or a build that failed (Remembered).
   That a change is visible to the watcher needs that the signature only grows
   (Growing); that no timer is lost while the supervisor starts needs that it
   has none then, and that a refresh which finds its assets served is right needs
   that a backend under construction serves nothing (Phases). *)

Refreshes == [at : {"idle", "building", "staged", "nudged", "waiting", "updated", "queued",
                    "told", "timed out"},
              expects : Nat]

StackTypeOK ==
  /\ source \in Nat /\ signature \in Nat /\ seen \in Nat
  /\ reading \in Nat \cup {-1} /\ backend \in Nat \cup {-1} /\ building \in Nat
  /\ job \in {"off", "starting", "up", "stopping"}
  /\ timer \in [armed : BOOLEAN, stray : BOOLEAN]
  /\ restart \in {"idle", "asking", "stopping", "building", "read"}
  /\ refresh \in Refreshes /\ missed \in BOOLEAN

(* What is read is not newer than what is there, and a poll that has read
   something has read a change. *)
Growing ==
  /\ seen <= signature /\ reading <= signature /\ backend <= source /\ building <= source
  /\ reading # -1 => reading # seen

Phases ==
  /\ job = "off" => backend = -1 /\ reading = -1 /\ restart = "idle"
  /\ job \in {"off", "starting"} => timer = NoTimer /\ reading = -1
  /\ job = "starting" => restart \in {"building", "read"}
  /\ restart \in {"building", "read"} => backend = -1

Pending ==
  \/ signature # seen \/ reading # -1 \/ timer # NoTimer \/ missed
  \/ restart \in {"asking", "stopping", "building"}

Remembered ==
  \/ Pending
  \/ refresh.at = "staged" /\ source = refresh.expects
  \/ restart = "read" /\ building = source
  \/ restart = "idle" /\ backend \in {-1, source}

StackIInv ==
  /\ StackTypeOK /\ Growing /\ Phases
  /\ job \in {"starting", "up"} => Remembered

-----------------------------------------------------------------------------
LEMMA StackInitInvariant == StackInit => StackIInv
<1> SUFFICES ASSUME StackInit PROVE StackIInv
  OBVIOUS
<1>1. refresh \in Refreshes /\ timer \in [armed : BOOLEAN, stray : BOOLEAN] /\ missed \in BOOLEAN
  BY DEF StackInit, Refreshes, NoTimer
<1>2. StackTypeOK
  BY <1>1 DEF StackInit, StackTypeOK
<1>3. Growing /\ Phases
  BY DEF StackInit, Growing, Phases
<1> QED BY <1>2, <1>3 DEF StackInit, StackIInv

LEMMA StartStep == ASSUME StackIInv, Start PROVE StackIInv'
<1>1. /\ job = "off" /\ job' = "starting" /\ seen' = signature /\ restart' = "building"
      /\ missed' \in BOOLEAN
      /\ UNCHANGED <<source, signature, reading, timer, building, backend, refresh>>
  BY DEF Start
<1>2. StackTypeOK'
  BY <1>1 DEF StackIInv, StackTypeOK
<1>3. Growing' /\ Phases'
  BY <1>1 DEF StackIInv, StackTypeOK, Growing, Phases
<1> QED BY <1>1, <1>2, <1>3 DEF StackIInv, Remembered, Pending

LEMMA GoneStep == ASSUME StackIInv, Gone, UNCHANGED <<source, signature>> PROVE StackIInv'
<1>1. /\ job' = "off" /\ reading' = -1 /\ timer' = NoTimer /\ restart' = "idle" /\ backend' = -1
      /\ UNCHANGED <<source, signature, seen, building, refresh, missed>>
  BY DEF Gone
<1>2. NoTimer \in [armed : BOOLEAN, stray : BOOLEAN]
  BY DEF NoTimer
<1>3. StackTypeOK'
  BY <1>1, <1>2 DEF StackIInv, StackTypeOK
<1>4. Growing' /\ Phases'
  BY <1>1 DEF StackIInv, StackTypeOK, Growing, Phases
<1> QED BY <1>1, <1>3, <1>4 DEF StackIInv

LEMMA ShutdownStep == ASSUME StackIInv, Shutdown PROVE StackIInv'
<1>1. /\ job' = "stopping" /\ backend' = -1 /\ timer' \in [armed : BOOLEAN, stray : BOOLEAN]
      /\ UNCHANGED <<source, signature, reading, seen, restart, building, refresh, missed>>
  BY DEF Shutdown, StackIInv, StackTypeOK
<1>2. StackTypeOK'
  BY <1>1 DEF StackIInv, StackTypeOK
<1>3. Growing' /\ Phases'
  BY <1>1 DEF StackIInv, StackTypeOK, Growing, Phases
<1> QED BY <1>1, <1>2, <1>3 DEF StackIInv

LEMMA EditStep == ASSUME StackIInv, Edit PROVE StackIInv'
BY DEF Edit, watcher, StackIInv, StackTypeOK, Growing, Phases, Remembered, Pending

LEMMA SessionStep == ASSUME StackIInv, SessionStarts \/ SessionEnds PROVE StackIInv'
BY DEF SessionStarts, SessionEnds, watcher, tree, StackIInv, StackTypeOK, Growing, Phases, Remembered,
       Pending

LEMMA PollStep == ASSUME StackIInv, Poll PROVE StackIInv'
BY DEF Poll, tree, StackIInv, StackTypeOK, Growing, Phases, Remembered, Pending

(* What a poll has read is a change, so a timer is armed. *)
LEMMA CompareStep == ASSUME StackIInv, Compare PROVE StackIInv'
<1>1. /\ timer' \in [armed : BOOLEAN, stray : BOOLEAN] /\ timer'.armed
      /\ reading \in Nat /\ reading' = -1 /\ seen' = reading
      /\ UNCHANGED <<source, signature, job, restart, building, backend, refresh, missed>>
  BY DEF Compare, tree, StackIInv, StackTypeOK, Growing
<1>2. timer' # NoTimer
  BY <1>1 DEF NoTimer
<1>3. job # "off" /\ job # "starting"
  BY DEF Compare, StackIInv, Phases
<1> QED BY <1>1, <1>2, <1>3 DEF StackIInv, StackTypeOK, Growing, Phases, Remembered, Pending

LEMMA FiresStep ==
  ASSUME StackIInv, NEW which \in {"armed", "stray"}, Fires(which)
  PROVE  StackIInv'
<1>1. /\ timer[which] /\ timer' \in [armed : BOOLEAN, stray : BOOLEAN]
      /\ UNCHANGED <<source, signature, job, reading, seen, building, backend, refresh>>
  BY DEF Fires, tree, StackIInv, StackTypeOK
<1>2. timer # NoTimer /\ job \in {"up", "stopping"}
  BY <1>1 DEF NoTimer, StackIInv, StackTypeOK, Phases
<1>3. CASE job = "up" /\ restart = "idle"
  BY <1>1, <1>2, <1>3 DEF Fires, StackIInv, StackTypeOK, Growing, Phases, Remembered, Pending
<1>4. CASE ~(job = "up" /\ restart = "idle")
  <2>1. restart' = restart /\ missed' \in BOOLEAN /\ (job = "up" => missed')
    BY <1>4 DEF Fires, StackIInv, StackTypeOK
  <2> QED BY <1>1, <1>2, <2>1 DEF StackIInv, StackTypeOK, Growing, Phases, Remembered, Pending
<1> QED BY <1>3, <1>4

LEMMA AskedStep == ASSUME StackIInv, Asked PROVE StackIInv'
<1>1. /\ restart = "asking" /\ restart' \in {"idle", "stopping"}
      /\ UNCHANGED <<source, signature, job, reading, seen, building, backend, refresh, missed>>
  BY DEF Asked, tree
<1>2. job \in {"up", "stopping"}
  BY <1>1 DEF StackIInv, StackTypeOK, Phases
<1>3. CASE restart' = "stopping"
  <2>1. timer' = timer
    BY <1>3 DEF Asked
  <2> QED BY <1>1, <1>2, <1>3, <2>1 DEF StackIInv, StackTypeOK, Growing, Phases, Remembered, Pending
<1>4. CASE restart' = "idle"
  <2>1. timer' = [armed |-> TRUE, stray |-> timer.armed \/ timer.stray]
    BY <1>4 DEF Asked, PutOff
  <2>2. timer' \in [armed : BOOLEAN, stray : BOOLEAN] /\ timer' # NoTimer
    BY <2>1 DEF NoTimer
  <2> QED BY <1>1, <1>2, <1>4, <2>2 DEF StackIInv, StackTypeOK, Growing, Phases, Remembered, Pending
<1> QED BY <1>1, <1>3, <1>4

LEMMA StopBackendStep == ASSUME StackIInv, StopBackend PROVE StackIInv'
BY DEF StopBackend, tree, watcher, StackIInv, StackTypeOK, Growing, Phases, Remembered, Pending

LEMMA BuildReadsStep == ASSUME StackIInv, BuildReads PROVE StackIInv'
BY DEF BuildReads, tree, watcher, StackIInv, StackTypeOK, Growing, Phases, Remembered, Pending

LEMMA BuiltStep == ASSUME StackIInv, Built PROVE StackIInv'
BY DEF Built, tree, watcher, StackIInv, StackTypeOK, Growing, Phases, Remembered, Pending

-----------------------------------------------------------------------------
(* A refresh changes the tree, and where it stands. *)
LEMMA RefreshSteps ==
  ASSUME StackIInv, NEW from, RefreshStep(from), refresh' \in Refreshes,
         source' \in Nat, signature' \in Nat, source <= source', signature <= signature',
         job \in {"starting", "up"} => Remembered'
  PROVE  StackIInv'
BY DEF RefreshStep, watcher, StackIInv, StackTypeOK, Growing, Phases

LEMMA AtStep ==
  ASSUME StackIInv, NEW place \in {"idle", "building", "nudged", "waiting", "updated", "queued", "told",
                              "timed out"}, At(place)
  PROVE  refresh' \in Refreshes
BY DEF At, StackIInv, StackTypeOK, Refreshes

LEMMA OffStage ==
  ASSUME StackIInv, NEW from, from # "staged", RefreshStep(from), refresh' \in Refreshes,
         source' = source, signature' = signature
  PROVE  StackIInv'
<1>1. source \in Nat /\ signature \in Nat
  BY DEF StackIInv, StackTypeOK
<1>2. job \in {"starting", "up"} => Remembered'
  BY DEF RefreshStep, watcher, StackIInv, Remembered, Pending
<1> QED BY <1>1, <1>2, RefreshSteps

LEMMA StageStep == ASSUME StackIInv, Stage PROVE StackIInv'
<1>1. /\ RefreshStep("building") /\ source' = source + 1 /\ signature' = signature
      /\ refresh' = [at |-> "staged", expects |-> source'] /\ source \in Nat /\ signature \in Nat
  BY DEF Stage, StackIInv, StackTypeOK
<1>2. refresh' \in Refreshes /\ refresh'.at = "staged" /\ refresh'.expects = source'
  BY <1>1 DEF Refreshes
<1> QED BY <1>1, <1>2, RefreshSteps DEF Remembered

(* What is served has everything that was there when the assets were put, and
   later changes are remembered by the watcher. *)
LEMMA ServedStep == ASSUME StackIInv, Served PROVE StackIInv'
<1>0. source' = source /\ signature' = signature /\ source \in Nat /\ signature \in Nat
  BY DEF Served, tree, StackIInv, StackTypeOK
<1>1. /\ RefreshStep("staged") /\ UNCHANGED tree /\ refresh.at = "staged"
      /\ backend >= refresh.expects
  BY DEF Served, RefreshStep
<1>2. refresh' \in Refreshes
  BY AtStep DEF Served
<1>3. refresh.expects \in Nat /\ backend \in Nat /\ restart \notin {"building", "read"}
  <2>1. refresh \in Refreshes /\ backend \in Nat \cup {-1}
    BY DEF StackIInv, StackTypeOK
  <2>2. refresh.expects \in Nat
    BY <2>1 DEF Refreshes
  <2>3. backend # -1
    BY <1>1, <2>1, <2>2
  <2> QED BY <2>1, <2>2, <2>3 DEF StackIInv, Phases
<1>4. job \in {"starting", "up"} => Remembered'
  BY <1>1, <1>3 DEF RefreshStep, tree, watcher, StackIInv, StackTypeOK, Growing, Remembered, Pending
<1> QED BY <1>0, <1>1, <1>2, <1>4, RefreshSteps

LEMMA NudgeStep == ASSUME StackIInv, Nudge PROVE StackIInv'
<1>1. /\ RefreshStep("staged") /\ source' = source /\ signature' = signature + 1
      /\ source \in Nat /\ signature \in Nat
  BY DEF Nudge, StackIInv, StackTypeOK
<1>2. refresh' \in Refreshes
  BY AtStep DEF Nudge
<1>3. signature' # seen'
  BY <1>1 DEF RefreshStep, watcher, StackIInv, StackTypeOK, Growing
<1> QED BY <1>1, <1>2, <1>3, RefreshSteps DEF Remembered, Pending

LEMMA RefreshInvariant ==
  ASSUME StackIInv,
         Require \/ Stage \/ Served \/ Nudge \/ PutOffTold \/ Await \/ Promotion \/ NewRefresh
  PROVE  StackIInv'
<1>1. CASE Require
  BY <1>1, AtStep, OffStage DEF Require, tree
<1>2. CASE Stage \/ Served \/ Nudge
  BY <1>2, StageStep, ServedStep, NudgeStep
<1>3. CASE PutOffTold
  BY <1>3, AtStep, OffStage DEF PutOffTold, tree
<1>4. CASE Await
  BY <1>4, AtStep, OffStage DEF Await, tree
<1>5. CASE Promotion
  <2>1. RefreshStep("waiting") /\ source' = source /\ signature' = signature
        /\ (At("updated") \/ At("queued") \/ At("told") \/ At("timed out"))
    BY <1>5 DEF Promotion, tree
  <2>2. refresh' \in Refreshes
    BY <2>1, AtStep
  <2> QED BY <2>1, <2>2, OffStage
<1>6. CASE NewRefresh
  BY <1>6, AtStep, OffStage DEF NewRefresh, tree
<1> QED BY <1>1, <1>2, <1>3, <1>4, <1>5, <1>6

LEMMA StackNextInvariant == StackIInv /\ [StackNext]_stackVars => StackIInv'
<1> SUFFICES ASSUME StackIInv, [StackNext]_stackVars PROVE StackIInv'
  OBVIOUS
<1>1. CASE Start \/ Shutdown \/ Edit
  BY <1>1, StartStep, ShutdownStep, EditStep
<1>2. CASE StopEarly \/ Exit
  <2>1. Gone /\ UNCHANGED <<source, signature>>
    BY <1>2 DEF StopEarly, Exit, Gone
  <2> QED BY <2>1, GoneStep
<1>3. CASE SessionStarts \/ SessionEnds
  BY <1>3, SessionStep
<1>4. CASE Poll \/ Compare \/ Asked
  BY <1>4, PollStep, CompareStep, AskedStep
<1>5. CASE Fires("armed") \/ Fires("stray")
  BY <1>5, FiresStep
<1>6. CASE StopBackend \/ BuildReads \/ Built
  BY <1>6, StopBackendStep, BuildReadsStep, BuiltStep
<1>7. CASE Require \/ Stage \/ Served \/ Nudge \/ PutOffTold \/ Await \/ Promotion \/ NewRefresh
  BY <1>7, RefreshInvariant
<1>8. CASE UNCHANGED stackVars
  BY <1>8 DEF stackVars, watcher, tree, StackIInv, StackTypeOK, Growing, Phases, Remembered, Pending
<1> QED BY <1>1, <1>2, <1>3, <1>4, <1>5, <1>6, <1>7, <1>8 DEF StackNext

(* The idle supervisor serves the newest sources: for any number of edits,
   sessions, failed builds, refreshes and stops. *)
THEOREM IdleIsNewest == StackSpec => []IdleServesNewest
<1>1. StackSpec => []StackIInv
  BY StackInitInvariant, StackNextInvariant, PTL DEF StackSpec
<1>2. StackIInv => IdleServesNewest
  BY DEF StackIInv, Remembered, Pending, IdleServesNewest, Idle
<1> QED BY <1>1, <1>2, PTL

-----------------------------------------------------------------------------
(* What the log panel shows has no gap, for any sizes of the ring, the channel
   and the panel, and however often the stream breaks, the panel is opened again
   and the preview writes.

   Nothing is known of a panel whose server was started again, with numbers that
   begin anew; until then, and from when it is taken up anew (Following), the
   chunks are followed from where they are written to where they are shown.  A read has what the ring held at one moment,
   an interval up to what was the newest one (Window).  On an open stream what
   is neither shown nor lost is under way (RestComes), and what is under way is
   in order and newer than what was read (InTransit), so the panel, which takes
   what is newer than all it read, leaves nothing out.  Hence between the oldest
   chunk that is shown and the newest that was read none is missing that is
   retained, unless the channel was full (ShownWhole). *)

(* What the ring had when it was read: an interval that ends at what was newest. *)
Window(S, n) == n \in 0 .. nextSeq /\ S = Newest(1 .. n, Ring)

LogsTypeOK ==
  /\ nextSeq \in Nat /\ lastLogSeq \in 0 .. nextSeq /\ logs \in SUBSET (1 .. lastLogSeq)
  /\ wire \in Seq(Nat) /\ channel \in Seq(Nat)

(* A load closes the stream, and nothing is shown before its answer is there. *)
Loading ==
  /\ load.is # "none" => ~ready /\ stream # "open" /\ logs = {}
  /\ load.is = "read" => \E n \in 0 .. nextSeq : Window(load.chunks, n)

(* What is on its way is in order, and newer than what was read. *)
InTransit ==
  /\ stream # "open" => wire = <<>> /\ channel = <<>>
  /\ \A i \in 1 .. Len(wire) : wire[i] > lastLogSeq /\ wire[i] <= nextSeq
  /\ \A i \in 1 .. Len(channel) : channel[i] > lastLogSeq /\ channel[i] <= nextSeq
  /\ \A i, j \in 1 .. Len(wire) : i < j => wire[i] < wire[j]
  /\ \A i, j \in 1 .. Len(channel) : i < j => channel[i] < channel[j]
  /\ \A i \in 1 .. Len(wire), j \in 1 .. Len(channel) : wire[i] < channel[j]

Underway(c) ==
  (\E i \in 1 .. Len(wire) : wire[i] = c) \/ (\E i \in 1 .. Len(channel) : channel[i] = c)
Missed(c) == c \in dropped \/ c \notin Retained

(* From the oldest chunk that is shown to the newest that was read, none is
   missing that is retained; and on an open stream the rest is on its way. *)
ShownWhole == \A m \in logs : \A c \in m .. lastLogSeq : c \in logs \/ Missed(c)
RestComes == stream = "open" => \A c \in lastLogSeq + 1 .. nextSeq : Underway(c) \/ Missed(c)

Following == LogsTypeOK /\ Loading /\ InTransit /\ ShownWhole /\ RestComes
LogsIInv == nextSeq \in Nat /\ (restarted \/ Following)

-----------------------------------------------------------------------------
(* A set of numbers up to n has a least and a greatest one. *)
Below == OpToRel(<, Nat)

LEMMA LeastExists ==
  ASSUME NEW S \in SUBSET Nat, S # {}
  PROVE  \E x \in S : \A y \in S : x <= y
<1>1. IsWellFoundedOn(Below, Nat)
  BY NatLessThanWellFounded DEF Below
<1>2. PICK x \in S : \A y \in S : ~(<<y, x>> \in Below)
  BY <1>1, WFMin
<1>3. ASSUME NEW y \in S PROVE x <= y
  <2>1. y < x => <<y, x>> \in Below
    BY DEF Below, OpToRel
  <2> QED BY <1>2, <2>1
<1> QED BY <1>3

(* The least of a set of numbers is in it. *)
LEMMA MinFacts ==
  ASSUME NEW S \in SUBSET Nat, S # {}
  PROVE  Min(S) \in S
BY LeastExists DEF Min

(* The greatest of a bounded set of numbers is in it. *)
LEMMA MaxFacts ==
  ASSUME NEW n \in Nat, NEW S \in SUBSET (0 .. n), S # {}
  PROVE  Max(S) \in S /\ \A y \in S : y <= Max(S)
<1> DEFINE T == {n - x : x \in S}
<1>1. T \in SUBSET Nat /\ T # {}
  <2>1. \A x \in S : n - x \in Nat
    OBVIOUS
  <2> QED BY <2>1
<1>2. PICK z \in T : \A y \in T : z <= y
  BY <1>1, LeastExists
<1>3. PICK x \in S : z = n - x
  OBVIOUS
<1>4. \A y \in S : x >= y
  <2>1. \A y \in S : z <= n - y
    BY <1>2
  <2> QED BY <1>3, <2>1
<1>5. \A y \in S : Max(S) \in S /\ Max(S) >= y
  BY <1>4 DEF Max
<1> QED BY <1>5

(* The newest n of a set are its upper end. *)
LEMMA NewestFacts ==
  ASSUME NEW S, IsFiniteSet(S), S \subseteq Int, NEW n \in Nat
  PROVE  /\ Newest(S, n) \subseteq S
         /\ \A c \in Newest(S, n), d \in S : d >= c => d \in Newest(S, n)
<1>1. ASSUME NEW c \in Newest(S, n), NEW d \in S, d >= c
      PROVE  d \in Newest(S, n)
  <2> DEFINE C == {e \in S : e > c}
             D == {e \in S : e > d}
  <2>1. IsFiniteSet(C) /\ IsFiniteSet(D)
    BY FS_Subset
  <2>2. D \in SUBSET C
    <3>1. c \in Int /\ d \in Int /\ \A e \in S : e \in Int
      BY DEF Newest
    <3>2. \A e \in S : e > d => e > c
      BY <1>1, <3>1
    <3> QED BY <3>2
  <2>3. Cardinality(D) <= Cardinality(C)
    BY <2>1, <2>2, FS_Subset
  <2>4. Cardinality(C) \in Nat /\ Cardinality(D) \in Nat
    BY <2>1, FS_CardinalityType
  <2>5. Cardinality(C) < n
    BY DEF Newest
  <2>6. Cardinality(D) < n
    BY <2>3, <2>4, <2>5
  <2> QED BY <2>6 DEF Newest
<1> QED BY <1>1 DEF Newest

(* What left the ring does not come back. *)
LEMMA RingOnlyLoses ==
  ASSUME NEW n \in Nat, NEW c \in 1 .. n, c \in Newest(1 .. n + 1, Ring)
  PROVE  c \in Newest(1 .. n, Ring)
<1> DEFINE C == {e \in 1 .. n : e > c}
           D == {e \in 1 .. n + 1 : e > c}
<1>1. IsFiniteSet(1 .. n + 1)
  BY FS_Interval
<1>2. IsFiniteSet(D) /\ IsFiniteSet(C) /\ C \in SUBSET D
  BY <1>1, FS_Subset
<1>3. Cardinality(C) <= Cardinality(D) /\ Cardinality(C) \in Nat /\ Cardinality(D) \in Nat
  BY <1>2, FS_Subset, FS_CardinalityType
<1>4. Cardinality(D) < Ring
  BY DEF Newest
<1>5. Cardinality(C) < Ring
  BY <1>3, <1>4, LogsAssumption
<1> QED BY <1>5 DEF Newest

(* An interval is finite. *)
LEMMA IntervalsFinite == ASSUME NEW a \in Int, NEW b \in Int PROVE IsFiniteSet(a .. b)
BY FS_Interval

(* An interval, written in order. *)
LEMMA InOrderFacts ==
  ASSUME NEW a \in Nat, NEW b \in Nat, a <= b + 1
  PROVE  /\ Len(InOrder(a .. b)) = b - a + 1 /\ InOrder(a .. b) \in Seq(Nat)
         /\ \A i \in 1 .. b - a + 1 : InOrder(a .. b)[i] = a + i - 1
<1>1. Cardinality(a .. b) = b - a + 1
  BY FS_Interval
<1>2. ASSUME NEW i \in 1 .. b - a + 1
      PROVE  (CHOOSE c \in a .. b : Cardinality({d \in a .. b : d < c}) = i - 1) = a + i - 1
  <2>1. ASSUME NEW c \in a .. b PROVE Cardinality({d \in a .. b : d < c}) = c - a
    <3>1. {d \in a .. b : d < c} = a .. c - 1
      OBVIOUS
    <3>2. Cardinality(a .. c - 1) = c - a
      <4>1. a \in Int /\ c - 1 \in Int /\ Cardinality(a .. c - 1) = IF a > c - 1 THEN 0 ELSE c - 1 - a + 1
        BY FS_Interval
      <4>2. a <= c
        OBVIOUS
      <4> QED BY <4>1, <4>2
    <3> QED BY <3>1, <3>2
  <2>2. a + i - 1 \in a .. b
    OBVIOUS
  <2>3. \A c \in a .. b : Cardinality({d \in a .. b : d < c}) = i - 1 <=> c = a + i - 1
    BY <2>1
  <2> QED BY <2>2, <2>3
<1>3. InOrder(a .. b)
        = [i \in 1 .. b - a + 1 |-> CHOOSE c \in a .. b : Cardinality({d \in a .. b : d < c}) = i - 1]
  BY <1>1 DEF InOrder
<1>4. \A i \in 1 .. b - a + 1 : InOrder(a .. b)[i] = a + i - 1
  BY <1>2, <1>3
<1>5. \A i \in 1 .. b - a + 1 : InOrder(a .. b)[i] \in Nat
  BY <1>4
<1> HIDE DEF InOrder
<1>6. InOrder(a .. b) \in [1 .. b - a + 1 -> Nat] /\ b - a + 1 \in Nat
  BY <1>3, <1>5
<1>7. InOrder(a .. b) \in Seq(Nat) /\ Len(InOrder(a .. b)) = b - a + 1
  BY <1>6
<1> QED BY <1>4, <1>7

(* What a new stream is given is an interval, from what is retained or was asked for. *)
LEMMA ReplayIsInterval ==
  ASSUME nextSeq \in Nat, lastLogSeq \in 0 .. nextSeq
  PROVE  \E a \in lastLogSeq + 1 .. nextSeq + 1 : Replay = a .. nextSeq
<1>1. /\ Retained \subseteq 1 .. nextSeq
      /\ \A c \in Retained, d \in 1 .. nextSeq : d >= c => d \in Retained
  BY IntervalsFinite, NewestFacts, LogsAssumption DEF Retained
<1>2. CASE Replay = {}
  <2>1. nextSeq + 1 .. nextSeq = {}
    OBVIOUS
  <2> QED BY <1>2, <2>1
<1>3. CASE Replay # {}
  <2>1. Replay \in SUBSET Nat
    <3>1. 1 .. nextSeq \subseteq Nat
      OBVIOUS
    <3> QED BY <1>1, <3>1 DEF Replay
  <2>2. PICK a \in Replay : \A c \in Replay : a <= c
    BY <1>3, <2>1, LeastExists
  <2>3. a \in Retained /\ a \in lastLogSeq + 1 .. nextSeq
    BY <1>1 DEF Replay
  <2>4. ASSUME NEW c \in Replay PROVE c \in a .. nextSeq
    BY <1>1, <2>2 DEF Replay
  <2>5. ASSUME NEW c \in a .. nextSeq PROVE c \in Replay
    <3>1. c \in 1 .. nextSeq /\ c >= a /\ c > lastLogSeq
      BY <2>3
    <3>2. c \in Retained
      BY <1>1, <2>3, <3>1
    <3> QED BY <3>1, <3>2 DEF Replay
  <2>6. Replay = a .. nextSeq
    BY <2>4, <2>5
  <2>7. a \in lastLogSeq + 1 .. nextSeq + 1
    BY <2>3
  <2> QED BY <2>6, <2>7
<1> QED BY <1>2, <1>3

-----------------------------------------------------------------------------
LEMMA LogsInitInvariant == LogInit => LogsIInv
BY DEF LogInit, LogsIInv, Following, LogsTypeOK, Loading, InTransit, ShownWhole, RestComes, NoAnswer

(* The preview writes: the ring moves on, and the chunk goes to the channel, or is dropped. *)
LEMMA OutputKeeps == ASSUME Following, Output PROVE Following'
<1>1. /\ nextSeq' = nextSeq + 1 /\ nextSeq \in Nat
      /\ UNCHANGED <<stream, wire, logs, lastLogSeq, load, ready>>
      /\ dropped \subseteq dropped'
  BY DEF Following, LogsTypeOK, Output
<1>2. \A c \in 1 .. nextSeq : Missed(c) => Missed(c)'
  BY <1>1, RingOnlyLoses DEF Missed, Retained
<1>3. Loading'
  BY <1>1 DEF Following, Loading, Window
<1>4. LogsTypeOK' /\ InTransit'
  <2>1. CASE channel' = channel
    <3>1. \A i \in 1 .. Len(wire) : wire[i] \in Nat
      BY DEF Following, LogsTypeOK
    <3>2. \A i \in 1 .. Len(channel) : channel[i] \in Nat
      BY DEF Following, LogsTypeOK
    <3>3. LogsTypeOK'
      BY <1>1, <2>1 DEF Following, LogsTypeOK
    <3>4. InTransit'
      BY <1>1, <2>1, <3>1, <3>2 DEF Following, InTransit
    <3> QED BY <3>3, <3>4
  <2>2. CASE channel' = Append(channel, nextSeq + 1)
    <3>1. /\ channel' \in Seq(Nat) /\ Len(channel') = Len(channel) + 1
          /\ \A i \in 1 .. Len(channel) : channel'[i] = channel[i]
          /\ channel'[Len(channel) + 1] = nextSeq + 1
      BY <1>1, <2>2 DEF Following, LogsTypeOK
    <3>2. LogsTypeOK'
      BY <1>1, <3>1 DEF Following, LogsTypeOK
    <3>3. Len(channel) \in Nat /\ Len(wire) \in Nat /\ channel \in Seq(Nat) /\ wire \in Seq(Nat)
      BY DEF Following, LogsTypeOK
    <3>4. \A j \in 1 .. Len(channel') : j \in 1 .. Len(channel) \/ j = Len(channel) + 1
      BY <3>1, <3>3
    <3>5. \A i \in 1 .. Len(channel) : channel[i] <= nextSeq /\ channel[i] > lastLogSeq
      BY DEF Following, InTransit
    <3>6. \A i \in 1 .. Len(wire) : wire[i] <= nextSeq /\ wire[i] > lastLogSeq
      BY DEF Following, InTransit
    <3>7. lastLogSeq \in Nat /\ lastLogSeq <= nextSeq
      BY DEF Following, LogsTypeOK
    <3>8. /\ \A i \in 1 .. Len(channel) : channel[i] \in Nat
          /\ \A i \in 1 .. Len(wire) : wire[i] \in Nat
      BY <3>3
    <3>9. \A i \in 1 .. Len(wire) : wire'[i] > lastLogSeq' /\ wire'[i] <= nextSeq'
      BY <1>1, <3>6, <3>7, <3>8
    <3>10. \A i \in 1 .. Len(channel') : channel'[i] > lastLogSeq' /\ channel'[i] <= nextSeq'
      BY <1>1, <3>1, <3>4, <3>5, <3>7, <3>8
    <3>11. \A i, j \in 1 .. Len(channel') : i < j => channel'[i] < channel'[j]
      <4> SUFFICES ASSUME NEW i \in 1 .. Len(channel'), NEW j \in 1 .. Len(channel'), i < j
                   PROVE  channel'[i] < channel'[j]
        OBVIOUS
      <4>1. i \in 1 .. Len(channel) /\ channel'[i] = channel[i]
        BY <3>1, <3>3, <3>4
      <4>2. CASE j \in 1 .. Len(channel)
        BY <3>1, <4>1, <4>2 DEF Following, InTransit
      <4>3. CASE j = Len(channel) + 1
        BY <1>1, <3>1, <3>5, <3>8, <4>1, <4>3
      <4> QED BY <3>4, <4>2, <4>3
    <3>12. \A i \in 1 .. Len(wire'), j \in 1 .. Len(channel') : wire'[i] < channel'[j]
      <4> SUFFICES ASSUME NEW i \in 1 .. Len(wire), NEW j \in 1 .. Len(channel')
                   PROVE  wire[i] < channel'[j]
        BY <1>1
      <4>1. CASE j \in 1 .. Len(channel)
        BY <3>1, <4>1 DEF Following, InTransit
      <4>2. CASE j = Len(channel) + 1
        BY <1>1, <3>1, <3>6, <3>8, <4>2
      <4> QED BY <3>4, <4>1, <4>2
    <3>13. stream' = "open"
      BY <1>1, <2>2, <3>1, <3>3 DEF Output
    <3>14. InTransit'
      BY <1>1, <3>9, <3>10, <3>11, <3>12, <3>13 DEF Following, InTransit
    <3> QED BY <3>2, <3>14
  <2> QED BY <1>1, <2>1, <2>2 DEF Output
<1>5. ShownWhole'
  BY <1>1, <1>2 DEF Following, LogsTypeOK, ShownWhole
<1>6. RestComes'
  <2>1. \A c : Underway(c) => Underway(c)'
    <3>1. CASE channel' = channel
      BY <1>1, <3>1 DEF Underway
    <3>2. CASE channel' = Append(channel, nextSeq + 1)
      <4>1. Len(channel) \in Nat /\ Len(channel') = Len(channel) + 1
        BY <3>2 DEF Following, LogsTypeOK
      <4>2. \A i \in 1 .. Len(channel) : i \in 1 .. Len(channel') /\ channel'[i] = channel[i]
        BY <1>1, <3>2, <4>1 DEF Following, LogsTypeOK
      <4> QED BY <1>1, <4>2 DEF Underway
    <3> QED BY <1>1, <3>1, <3>2 DEF Output
  <2>2. ASSUME stream = "open", NEW c, c = nextSeq + 1 PROVE Underway(c)' \/ Missed(c)'
    <3>1. CASE channel' = Append(channel, nextSeq + 1)
      <4>1. Len(channel') = Len(channel) + 1 /\ channel'[Len(channel) + 1] = nextSeq + 1
            /\ Len(channel) \in Nat
        BY <1>1, <3>1 DEF Following, LogsTypeOK
      <4>2. Len(channel) + 1 \in 1 .. Len(channel')
        BY <4>1
      <4> QED BY <2>2, <4>1, <4>2 DEF Underway
    <3>2. CASE nextSeq + 1 \in dropped'
      BY <2>2, <3>2 DEF Missed
    <3> QED BY <1>1, <2>2, <3>1, <3>2 DEF Output
  <2>3. \A c \in lastLogSeq + 1 .. nextSeq' : c \in lastLogSeq + 1 .. nextSeq \/ c = nextSeq + 1
    BY <1>1 DEF Following, LogsTypeOK
  <2>4. \A c \in lastLogSeq + 1 .. nextSeq : c \in 1 .. nextSeq
    BY DEF Following, LogsTypeOK
  <2>5. ASSUME stream = "open", NEW c \in lastLogSeq + 1 .. nextSeq' PROVE Underway(c)' \/ Missed(c)'
    <3>1. CASE c \in lastLogSeq + 1 .. nextSeq
      BY <1>2, <2>1, <2>4, <2>5, <3>1 DEF Following, RestComes
    <3>2. CASE c = nextSeq + 1
      BY <2>2, <2>5, <3>2
    <3> QED BY <2>3, <3>1, <3>2
  <2> QED BY <1>1, <2>5 DEF RestComes
<1> QED BY <1>3, <1>4, <1>5, <1>6 DEF Following

(* The channel is written to the wire, in order. *)
LEMMA WriteKeeps == ASSUME Following, Write PROVE Following'
<1>1. /\ UNCHANGED <<nextSeq, stream, logs, lastLogSeq, load, ready, dropped>>
      /\ channel \in Seq(Nat) /\ wire \in Seq(Nat) /\ channel # <<>>
      /\ wire' = Append(wire, Head(channel)) /\ channel' = Tail(channel)
  BY DEF Following, LogsTypeOK, Write
<1>2. /\ wire' \in Seq(Nat) /\ Len(wire') = Len(wire) + 1 /\ wire'[Len(wire) + 1] = channel[1]
      /\ \A i \in 1 .. Len(wire) : wire'[i] = wire[i]
      /\ Len(wire) \in Nat
  BY <1>1
<1>3. /\ channel' \in Seq(Nat) /\ Len(channel') = Len(channel) - 1 /\ Len(channel) \in Nat \ {0}
      /\ \A i \in 1 .. Len(channel') : channel'[i] = channel[i + 1]
  BY <1>1
<1>4. \A i \in 1 .. Len(wire') : i \in 1 .. Len(wire) \/ i = Len(wire) + 1
  BY <1>2
<1>5. \A i \in 1 .. Len(channel') : i + 1 \in 1 .. Len(channel) /\ 1 < i + 1
  BY <1>3
<1>6. 1 \in 1 .. Len(channel)
  BY <1>3
<1>7. LogsTypeOK' /\ Loading'
  BY <1>1, <1>2, <1>3 DEF Following, LogsTypeOK, Loading, Window
<1>8. InTransit'
  <2>1. \A i \in 1 .. Len(wire') : wire'[i] > lastLogSeq /\ wire'[i] <= nextSeq
    BY <1>2, <1>4, <1>6 DEF Following, InTransit
  <2>2. \A i \in 1 .. Len(channel') : channel'[i] > lastLogSeq /\ channel'[i] <= nextSeq
    BY <1>3, <1>5 DEF Following, InTransit
  <2>3. \A i, j \in 1 .. Len(wire') : i < j => wire'[i] < wire'[j]
    <3> SUFFICES ASSUME NEW i \in 1 .. Len(wire'), NEW j \in 1 .. Len(wire'), i < j
                 PROVE  wire'[i] < wire'[j]
      OBVIOUS
    <3>1. i \in 1 .. Len(wire) /\ wire'[i] = wire[i]
      BY <1>2, <1>4
    <3>2. CASE j \in 1 .. Len(wire)
      BY <1>2, <3>1, <3>2 DEF Following, InTransit
    <3>3. CASE j = Len(wire) + 1
      BY <1>2, <1>6, <3>1, <3>3 DEF Following, InTransit
    <3> QED BY <1>4, <3>2, <3>3
  <2>4. \A i, j \in 1 .. Len(channel') : i < j => channel'[i] < channel'[j]
    <3>1. \A i, j \in 1 .. Len(channel') : i < j => i + 1 < j + 1
      BY <1>3
    <3> QED BY <1>3, <1>5, <3>1 DEF Following, InTransit
  <2>5. \A i \in 1 .. Len(wire'), j \in 1 .. Len(channel') : wire'[i] < channel'[j]
    <3> SUFFICES ASSUME NEW i \in 1 .. Len(wire'), NEW j \in 1 .. Len(channel')
                 PROVE  wire'[i] < channel[j + 1]
      BY <1>3
    <3>1. j + 1 \in 1 .. Len(channel) /\ 1 < j + 1
      BY <1>5
    <3>2. CASE i \in 1 .. Len(wire)
      BY <1>2, <3>1, <3>2 DEF Following, InTransit
    <3>3. CASE i = Len(wire) + 1
      BY <1>2, <1>6, <3>1, <3>3 DEF Following, InTransit
    <3> QED BY <1>4, <3>2, <3>3
  <2>6. stream' = "open"
    BY <1>1 DEF Write
  <2> QED BY <1>1, <2>1, <2>2, <2>3, <2>4, <2>5, <2>6 DEF InTransit
<1>9. ShownWhole' /\ RestComes'
  <2>1. \A c : Missed(c)' <=> Missed(c)
    BY <1>1 DEF Missed, Retained
  <2>2. \A c : Underway(c) => Underway(c)'
    <3>1. ASSUME NEW c, NEW i \in 1 .. Len(wire), wire[i] = c PROVE Underway(c)'
      BY <1>2, <3>1 DEF Underway
    <3>2. ASSUME NEW c, NEW i \in 1 .. Len(channel), channel[i] = c PROVE Underway(c)'
      <4>1. CASE i = 1
        BY <1>2, <3>2, <4>1 DEF Underway
      <4>2. CASE i # 1
        <5>1. i - 1 \in 1 .. Len(channel') /\ (i - 1) + 1 = i
          BY <1>3, <4>2
        <5>2. channel'[i - 1] = c
          BY <1>3, <3>2, <5>1
        <5> QED BY <5>1, <5>2 DEF Underway
      <4> QED BY <4>1, <4>2
    <3> QED BY <3>1, <3>2 DEF Underway
  <2> QED BY <1>1, <2>1, <2>2 DEF Following, ShownWhole, RestComes
<1> QED BY <1>7, <1>8, <1>9 DEF Following

(* A load closes the stream before it reads. *)
LEMMA LoadKeeps == ASSUME Following \/ (nextSeq \in Nat /\ Load), Load \/ ServeLoad PROVE Following'
<1>1. CASE Load
  <2>1. /\ nextSeq' = nextSeq /\ nextSeq \in Nat /\ lastLogSeq' = 0 /\ logs' = {}
        /\ wire' = <<>> /\ channel' = <<>> /\ stream' = "closed" /\ ready' = FALSE
        /\ load'.is = "asked"
    BY <1>1 DEF Load, Following, LogsTypeOK
  <2> QED BY <2>1 DEF Following, LogsTypeOK, Loading, InTransit, ShownWhole, RestComes
<1>2. CASE ServeLoad /\ Following
  <2>1. Loading'
    BY <1>2 DEF ServeLoad, Following, LogsTypeOK, Loading, Window, Retained
  <2>2. LogsTypeOK' /\ InTransit' /\ ShownWhole' /\ RestComes'
    BY <1>2 DEF ServeLoad, Following, LogsTypeOK, Loading, InTransit, ShownWhole, RestComes
  <2> QED BY <2>1, <2>2 DEF Following
<1> QED BY <1>1, <1>2

(* What was read is shown, from its newest chunks. *)
LEMMA LoadedKeeps == ASSUME Following, Loaded PROVE Following'
<1> DEFINE chunks == load.chunks
<1>1. /\ UNCHANGED <<nextSeq, stream, channel, wire, dropped>> /\ nextSeq \in Nat
      /\ stream # "open" /\ load' = NoAnswer
      /\ logs' = Newest(chunks, Rendered) /\ lastLogSeq' = Max(chunks \cup {0})
  BY DEF Following, LogsTypeOK, Loading, Loaded
<1>2. PICK n \in 0 .. nextSeq : chunks = Newest(1 .. n, Ring)
  BY DEF Following, Loading, Loaded, Window
<1> HIDE DEF chunks
<1>3. /\ chunks \subseteq 1 .. n
      /\ \A c \in chunks, d \in 1 .. n : d >= c => d \in chunks
  BY <1>1, <1>2, IntervalsFinite, NewestFacts, LogsAssumption
<1>4. IsFiniteSet(chunks) /\ chunks \subseteq Int
  <2>1. n \in Int /\ 1 \in Int
    BY <1>1
  <2>2. IsFiniteSet(1 .. n)
    BY <2>1, IntervalsFinite
  <2>3. chunks \in SUBSET (1 .. n)
    BY <1>3
  <2>4. IsFiniteSet(chunks)
    BY <2>2, <2>3, FS_Subset
  <2> QED BY <2>1, <2>3, <2>4
<1>5. /\ logs' \subseteq chunks
      /\ \A c \in logs', d \in chunks : d >= c => d \in logs'
  BY <1>1, <1>4, NewestFacts, LogsAssumption
<1>6. lastLogSeq' \in 0 .. n /\ \A c \in chunks : c <= lastLogSeq'
  <2>1. chunks \cup {0} \in SUBSET (0 .. n) /\ chunks \cup {0} # {} /\ n \in Nat
    BY <1>1, <1>3
  <2>2. Max(chunks \cup {0}) \in chunks \cup {0} /\ \A c \in chunks \cup {0} : c <= Max(chunks \cup {0})
    BY <2>1, MaxFacts
  <2> QED BY <1>1, <2>1, <2>2
<1>7. LogsTypeOK'
  <2>1. lastLogSeq' \in 0 .. nextSeq' /\ logs' \in SUBSET (1 .. lastLogSeq')
    <3>1. lastLogSeq' \in 0 .. nextSeq'
      BY <1>1, <1>6
    <3>2. \A c \in logs' : c \in chunks /\ c \in 1 .. n
      BY <1>3, <1>5
    <3>3. \A c \in logs' : c \in 1 .. lastLogSeq'
      BY <1>1, <1>6, <3>2
    <3> QED BY <3>1, <3>3
  <2> QED BY <1>1, <2>1 DEF Following, LogsTypeOK
<1>8. ShownWhole'
  <2> SUFFICES ASSUME NEW m \in logs', NEW c \in m .. lastLogSeq' PROVE c \in logs'
    BY DEF ShownWhole
  <2>1. m \in chunks /\ c \in 1 .. n /\ c >= m
    BY <1>1, <1>3, <1>5, <1>6
  <2> QED BY <1>3, <1>5, <2>1
<1>9. Loading' /\ RestComes'
  BY <1>1 DEF Loading, RestComes, NoAnswer
<1>10. InTransit'
  <2>1. wire' = <<>> /\ channel' = <<>>
    BY <1>1 DEF Following, InTransit
  <2> QED BY <2>1 DEF InTransit
<1> QED BY <1>7, <1>8, <1>9, <1>10 DEF Following

(* A stream replays what came after the newest chunk that was read. *)
LEMMA ConnectKeeps == ASSUME Following, Connect PROVE Following'
<1>1. /\ UNCHANGED <<nextSeq, logs, lastLogSeq, load, ready, dropped>>
      /\ nextSeq \in Nat /\ lastLogSeq \in 0 .. nextSeq /\ ready
      /\ stream' = "open" /\ channel' = <<>> /\ wire' = InOrder(Replay)
  BY DEF Following, LogsTypeOK, Connect
<1>2. PICK a \in lastLogSeq + 1 .. nextSeq + 1 : Replay = a .. nextSeq
  BY <1>1, ReplayIsInterval
<1>3. a \in Nat /\ a <= nextSeq + 1 /\ a > lastLogSeq /\ nextSeq - a + 1 \in Nat
  BY <1>1
<1>4. /\ Len(wire') = nextSeq - a + 1 /\ wire' \in Seq(Nat)
      /\ \A i \in 1 .. nextSeq - a + 1 : wire'[i] = a + i - 1
  BY <1>1, <1>2, <1>3, InOrderFacts
<1>5. LogsTypeOK'
  BY <1>1, <1>4 DEF Following, LogsTypeOK
<1>6. Loading'
  BY <1>1 DEF Following, Loading, Window
<1>7. InTransit'
  BY <1>1, <1>3, <1>4 DEF InTransit
<1>8. ShownWhole' /\ RestComes'
  <2>1. \A c : Missed(c)' <=> Missed(c)
    BY <1>1 DEF Missed, Retained
  <2>2. ASSUME NEW c \in lastLogSeq + 1 .. nextSeq, ~Missed(c) PROVE Underway(c)'
    <3>1. c \in a .. nextSeq
      BY <1>1, <1>2, <2>2 DEF Missed, Replay
    <3>2. c - a + 1 \in 1 .. Len(wire') /\ wire'[c - a + 1] = c
      BY <1>1, <1>3, <1>4, <3>1
    <3> QED BY <3>2 DEF Underway
  <2> QED BY <1>1, <2>1, <2>2 DEF Following, ShownWhole, RestComes
<1> QED BY <1>5, <1>6, <1>7, <1>8 DEF Following

(* What a broken stream had under way is asked for again. *)
LEMMA LosesKeeps == ASSUME Following, LoadFails \/ Disconnect PROVE Following'
<1>1. CASE LoadFails
  BY <1>1 DEF LoadFails, Following, LogsTypeOK, Loading, InTransit, ShownWhole, RestComes, NoAnswer
<1>2. CASE Disconnect
  <2>1. \A c : Missed(c)' <=> Missed(c)
    BY <1>2 DEF Disconnect, Missed, Retained
  <2> QED BY <1>2, <2>1 DEF Disconnect, Following, LogsTypeOK, Loading, Window, InTransit, ShownWhole, RestComes
<1> QED BY <1>1, <1>2

(* A chunk is shown in its place; none was left out before it. *)
LEMMA ReadKeeps == ASSUME Following, Read PROVE Following'
<1> DEFINE h == Head(wire)
<1>1. /\ UNCHANGED <<nextSeq, stream, channel, load, ready, dropped>> /\ stream = "open"
      /\ wire \in Seq(Nat) /\ wire # <<>> /\ h = wire[1] /\ wire' = Tail(wire)
      /\ logs' = Newest(logs \cup {h}, Rendered) /\ lastLogSeq' = Max({lastLogSeq, h})
      /\ nextSeq \in Nat /\ lastLogSeq \in 0 .. nextSeq /\ logs \in SUBSET (1 .. lastLogSeq)
      /\ channel \in Seq(Nat)
  BY DEF Read, Following, LogsTypeOK
<1>2. /\ wire' \in Seq(Nat) /\ Len(wire') = Len(wire) - 1 /\ Len(wire) \in Nat \ {0}
      /\ \A i \in 1 .. Len(wire') : wire'[i] = wire[i + 1] /\ i + 1 \in 1 .. Len(wire) /\ 1 < i + 1
      /\ 1 \in 1 .. Len(wire)
  BY <1>1
<1>3. /\ h > lastLogSeq /\ h <= nextSeq /\ h \in Nat
      /\ \A i \in 1 .. Len(wire') : h < wire'[i] /\ wire'[i] <= nextSeq
      /\ \A i \in 1 .. Len(channel) : h < channel[i]
  BY <1>1, <1>2 DEF Following, InTransit
<1> HIDE DEF h
<1>4. lastLogSeq' = h
  <2>1. {lastLogSeq, h} \in SUBSET (0 .. nextSeq) /\ {lastLogSeq, h} # {}
    BY <1>1, <1>3
  <2>2. lastLogSeq' \in {lastLogSeq, h} /\ \A y \in {lastLogSeq, h} : y <= lastLogSeq'
    BY <1>1, <2>1, MaxFacts
  <2> QED BY <1>1, <1>3, <2>2
<1>5. /\ logs' \subseteq logs \cup {h}
      /\ \A c \in logs', d \in logs \cup {h} : d >= c => d \in logs'
  <2>1. \A c \in logs \cup {h} : c \in 0 .. nextSeq
    BY <1>1, <1>3
  <2>2. IsFiniteSet(logs \cup {h}) /\ logs \cup {h} \subseteq Int
    <3>1. nextSeq \in Int /\ 0 \in Int
      BY <1>1
    <3>2. IsFiniteSet(0 .. nextSeq)
      BY <3>1, IntervalsFinite
    <3>3. logs \cup {h} \in SUBSET (0 .. nextSeq)
      BY <2>1
    <3>4. IsFiniteSet(logs \cup {h})
      BY <3>2, <3>3, FS_Subset
    <3> QED BY <2>1, <3>1, <3>4
  <2> QED BY <1>1, <2>2, NewestFacts, LogsAssumption
<1>6. LogsTypeOK' /\ Loading'
  <2>1. \A c \in logs' : c \in 1 .. h
    <3>1. \A c \in logs : c \in 1 .. h
      BY <1>1, <1>3
    <3>2. h \in 1 .. h
      BY <1>1, <1>3
    <3> QED BY <1>5, <3>1, <3>2
  <2>2. LogsTypeOK'
    <3>1. lastLogSeq' \in 0 .. nextSeq' /\ logs' \in SUBSET (1 .. lastLogSeq')
      <4>1. lastLogSeq' \in 0 .. nextSeq'
        <5>1. h \in 0 .. nextSeq
          <6>1. nextSeq \in Nat
            BY <1>1
          <6>2. h \in Nat /\ h <= nextSeq
            BY <1>3
          <6> QED BY <6>1, <6>2
        <5>2. nextSeq' = nextSeq
          BY <1>1
        <5> QED BY <1>4, <5>1, <5>2
      <4>2. \A c \in logs' : c \in 1 .. lastLogSeq'
        BY <1>4, <2>1
      <4> QED BY <4>1, <4>2
    <3> QED BY <1>1, <1>2, <3>1 DEF LogsTypeOK
  <2>3. Loading'
    BY <1>1 DEF Following, Loading, Window
  <2> QED BY <2>2, <2>3
<1>7. InTransit'
  <2>1. \A i, j \in 1 .. Len(wire') : i < j => wire'[i] < wire'[j]
    <3>1. \A i, j \in 1 .. Len(wire') : i < j => i + 1 < j + 1
      BY <1>2
    <3> QED BY <1>2, <3>1 DEF Following, InTransit
  <2>2. \A i \in 1 .. Len(wire'), j \in 1 .. Len(channel) : wire'[i] < channel[j]
    BY <1>2 DEF Following, InTransit
  <2> QED BY <1>1, <1>3, <1>4, <2>1, <2>2 DEF Following, InTransit
<1>8. \A c : Missed(c)' <=> Missed(c)
  BY <1>1 DEF Missed, Retained
<1>9. \A c : Underway(c) => c = h \/ Underway(c)'
  <2>1. ASSUME NEW c, NEW i \in 1 .. Len(wire), wire[i] = c PROVE c = h \/ Underway(c)'
    <3>1. CASE i = 1
      BY <1>1, <2>1, <3>1 DEF h
    <3>2. CASE i # 1
      <4>1. i - 1 \in 1 .. Len(wire') /\ (i - 1) + 1 = i
        BY <1>2, <3>2
      <4>2. wire'[i - 1] = c
        BY <1>2, <2>1, <4>1
      <4> QED BY <4>1, <4>2 DEF Underway
    <3> QED BY <3>1, <3>2
  <2> QED BY <1>1, <2>1 DEF Underway
<1>10. \A c : Underway(c) => c >= h
  <2>1. \A i \in 1 .. Len(channel) : channel[i] \in Nat
    BY <1>1
  <2>2. \A i \in 1 .. Len(channel) : channel[i] >= h
    BY <1>3, <2>1
  <2>3. \A i \in 1 .. Len(wire') : wire'[i] \in Nat
    BY <1>2
  <2>4. \A i \in 1 .. Len(wire) : wire[i] >= h
    <3> SUFFICES ASSUME NEW i \in 1 .. Len(wire) PROVE wire[i] >= h
      OBVIOUS
    <3>1. CASE i = 1
      BY <1>1, <1>3, <3>1
    <3>2. CASE i # 1
      <4>1. i - 1 \in 1 .. Len(wire') /\ (i - 1) + 1 = i
        BY <1>2, <3>2
      <4>2. wire'[i - 1] = wire[i]
        BY <1>2, <4>1
      <4> QED BY <1>3, <2>3, <4>1, <4>2
    <3> QED BY <3>1, <3>2
  <2> QED BY <2>2, <2>4 DEF Underway
<1>11. ShownWhole'
  <2> SUFFICES ASSUME NEW m \in logs', NEW c \in m .. h, ~Missed(c) PROVE c \in logs'
    BY <1>4, <1>8 DEF ShownWhole
  <2>0. m \in logs \cup {h} /\ \A d \in logs : d \in Nat
    <3>1. \A d \in logs : d \in 1 .. lastLogSeq
      BY <1>1
    <3> QED BY <1>5, <3>1
  <2>1. m \in logs \cup {h} /\ m \in Nat /\ c \in Nat /\ c >= m /\ c <= h
    BY <1>3, <2>0
  <2>2. CASE c = h
    BY <1>5, <2>1, <2>2
  <2>3. CASE c < h /\ c > lastLogSeq
    <3>1. c \in lastLogSeq + 1 .. nextSeq
      BY <1>1, <1>3, <2>1, <2>3
    <3>2. Underway(c)
      BY <1>1, <3>1 DEF Following, RestComes
    <3>3. c >= h
      BY <1>10, <3>2
    <3> QED BY <1>3, <2>1, <2>3, <3>3
  <2>4. CASE c < h /\ c <= lastLogSeq
    <3>1. m \in logs /\ c \in m .. lastLogSeq
      BY <1>1, <1>3, <2>1, <2>4
    <3>2. c \in logs
      BY <3>1 DEF Following, ShownWhole
    <3> QED BY <1>5, <2>1, <3>2
  <2> QED BY <1>1, <1>3, <2>1, <2>2, <2>3, <2>4
<1>12. RestComes'
  <2> SUFFICES ASSUME NEW c \in h + 1 .. nextSeq PROVE Underway(c)' \/ Missed(c)'
    BY <1>1, <1>4 DEF RestComes
  <2>1. c \in lastLogSeq + 1 .. nextSeq /\ c # h
    BY <1>1, <1>3
  <2> QED BY <1>1, <1>8, <1>9, <2>1 DEF Following, RestComes
<1> QED BY <1>6, <1>7, <1>11, <1>12 DEF Following

(* No step breaks the invariant. *)
LEMMA LogsNextInvariant == LogsIInv /\ [LogNext]_logVars => LogsIInv'
<1>0. ASSUME LogsIInv, [LogNext]_logVars PROVE nextSeq' \in Nat
  <2>1. nextSeq' \in {nextSeq, nextSeq + 1, 0}
    BY <1>0 DEF LogNext, logVars, Output, Write, ServerRestarts, Load, ServeLoad, Loaded, LoadFails,
       Connect, Disconnect, Read
  <2> QED BY <1>0, <2>1 DEF LogsIInv
<1> SUFFICES ASSUME LogsIInv, [LogNext]_logVars, ~restarted', ~Load PROVE Following'
  BY <1>0, LoadKeeps DEF LogsIInv
<1>1. ~restarted /\ ~ServerRestarts
  <2>1. ~ServerRestarts
    BY DEF ServerRestarts
  <2>2. restarted' = restarted
    BY <2>1 DEF LogNext, logVars, Output, Write, ServeLoad, Loaded, LoadFails, Connect, Disconnect,
       Read
  <2> QED BY <2>1, <2>2
<1>2. Following
  BY <1>1 DEF LogsIInv
<1>3. CASE UNCHANGED logVars
  <2>1. \A c : Missed(c)' <=> Missed(c)
    BY <1>3 DEF logVars, Missed, Retained
  <2>2. \A c : Underway(c)' <=> Underway(c)
    BY <1>3 DEF logVars, Underway
  <2> QED BY <1>2, <1>3, <2>1, <2>2 DEF logVars, Following, LogsTypeOK, Loading, Window, InTransit,
          ShownWhole, RestComes
<1> QED BY <1>1, <1>2, <1>3, OutputKeeps, WriteKeeps, LoadKeeps, LoadedKeeps, ConnectKeeps, LosesKeeps,
        ReadKeeps DEF LogNext

\* A panel that has caught up shows every retained chunk from its oldest one on
\* that did not find the channel full: for any ring, buffer and losses.
THEOREM LogsAreWhole == LogSpec => []NoChunkIsSkipped
<1>1. LogsIInv => NoChunkIsSkipped
  <2> SUFFICES ASSUME Following, CaughtUp, logs # {},
                      NEW c \in Newest(Retained, Rendered) \ dropped, c >= Min(logs)
               PROVE  c \in logs
    BY DEF LogsIInv, NoChunkIsSkipped, CaughtUp
  <2>1. logs \in SUBSET (1 .. lastLogSeq) /\ lastLogSeq \in 0 .. nextSeq /\ nextSeq \in Nat
    BY DEF Following, LogsTypeOK
  <2>2. Min(logs) \in logs
    <3>1. logs \in SUBSET Nat
      BY <2>1
    <3> QED BY <3>1, MinFacts
  <2>3. c \in Retained /\ c \in 1 .. nextSeq /\ ~Missed(c)
    <3>1. c \in Retained /\ c \in 1 .. nextSeq
      BY DEF Newest, Retained
    <3> QED BY <3>1 DEF Missed
  <2>4. CASE c <= lastLogSeq
    <3>1. c \in Min(logs) .. lastLogSeq
      BY <2>1, <2>2, <2>3, <2>4
    <3> QED BY <2>2, <2>3, <3>1 DEF Following, ShownWhole
  <2>5. CASE c > lastLogSeq
    <3>1. c \in lastLogSeq + 1 .. nextSeq
      BY <2>1, <2>3, <2>5
    <3>2. Len(wire) = 0 /\ Len(channel) = 0
      BY DEF CaughtUp
    <3>3. ~Underway(c)
      BY <3>2 DEF Underway
    <3> QED BY <2>3, <3>1, <3>3 DEF CaughtUp, Following, RestComes
  <2> QED BY <2>1, <2>3, <2>4, <2>5
<1> QED BY <1>1, LogsInitInvariant, LogsNextInvariant, PTL DEF LogSpec

-----------------------------------------------------------------------------
(* The status at rest is the preview's, for any number of presses, polls, failed
   requests and of what others do to the preview.

   Every answer is numbered as the server gives it, and "newer" than an answer
   is what was answered after it, or will be (Newer).  A status that is not the
   preview's own any more is one that it left by itself (an active one, which
   the poll asks for again), or that somebody else changed, or something newer
   than it is shown, on its way or lost (Holds).  This holds of every answer
   that is on its way (Answers) and of what is shown (ShownHolds), and when
   nothing is on its way nothing newer can be. *)

Statuses == {"stopped", "starting", "running", "stopping", "failed"}
Purposes == Actions \cup {"load", "poll", "refresh"}

PreviewTypeOK ==
  /\ runtime \in Statuses /\ shown \in Statuses \cup {"none"}
  /\ elsewhere \in BOOLEAN /\ overtaken \in BOOLEAN
  /\ asked \in [last : Nat, shown : Nat] /\ deaf \in Nat
  /\ \A r \in requests :
       /\ r \in [for : {r.for}, n : {r.n}, answer : {r.answer}, at : {r.at}]
       /\ r.for \in Purposes /\ r.answer \in Statuses \cup {Asking, "refused"} /\ r.at \in Nat

(* The numbers of the answers. *)
Ordered ==
  /\ asked.shown <= asked.last /\ deaf <= asked.last
  /\ shown # "none" => asked.shown >= 1
  /\ \A r \in requests : r.at <= asked.last /\ (r.answer \in Statuses => r.at >= 1)

(* Something newer than an answer was shown, or is on its way, or was lost. *)
Newer(n) ==
  \/ asked.shown > n \/ deaf >= n
  \/ \E r \in requests :
       /\ r.for \in Actions \cup {"refresh"}
       /\ r.at > n \/ (r.for = "refresh" /\ r.answer = Asking)
Holds(was, n) == was \in Active \/ was = runtime \/ elsewhere \/ Newer(n)
Answers == \A r \in requests : r.answer \in Statuses => Holds(r.answer, r.at)
ShownHolds == shown # "none" /\ ~overtaken => Holds(shown, asked.shown)

PreviewIInv == PreviewTypeOK /\ Ordered /\ Answers /\ ShownHolds

-----------------------------------------------------------------------------
LEMMA PreviewInitInvariant == PreviewInit => PreviewIInv
<1>1. ASSUME PreviewInit PROVE PreviewTypeOK
  <2>1. requests = {[for |-> "load", n |-> 0, answer |-> Asking, at |-> 0]}
    BY <1>1 DEF PreviewInit, Request
  <2>2. asked \in [last : Nat, shown : Nat] /\ deaf \in Nat
    BY <1>1 DEF PreviewInit
  <2>3. \A r \in requests :
          /\ r \in [for : {r.for}, n : {r.n}, answer : {r.answer}, at : {r.at}]
          /\ r.for = "load" /\ r.answer = Asking /\ r.at = 0
    BY <2>1
  <2> QED BY <1>1, <2>2, <2>3 DEF PreviewInit, PreviewTypeOK, Statuses, Purposes
<1>2. ASSUME PreviewInit PROVE Ordered /\ Answers /\ ShownHolds
  BY <1>2 DEF PreviewInit, Ordered, Answers, ShownHolds, Request, Asking, Statuses
<1> QED BY <1>1, <1>2 DEF PreviewIInv

\* What a button does to a preview changes its status, or nothing.
LEMMA EffectFacts ==
  ASSUME PreviewTypeOK, NEW what, Effect(what)
  PROVE  runtime' \in Statuses /\ (what \notin Actions => runtime' = runtime)
BY DEF PreviewTypeOK, Effect, Statuses, Actions, manager

\* What was known of a status stays so while newer ones stay, and the preview
\* changes by itself only when it is up.
LEMMA HoldsKept ==
  ASSUME NEW s, NEW n, Holds(s, n), elsewhere => elsewhere', Newer(n) => Newer(n)',
         runtime' = runtime \/ runtime \in Active \/ elsewhere' \/ Newer(n)'
  PROVE  Holds(s, n)'
BY DEF Holds

\* Steps of the preview itself, or of another client.
LEMMA ServerKeeps ==
  ASSUME PreviewIInv, Launched \/ Stopped \/ Fails \/ StartedElsewhere \/ Restored
  PROVE  PreviewIInv'
<1>1. /\ runtime' \in Statuses /\ UNCHANGED <<shown, requests, overtaken, deaf, asked>>
      /\ elsewhere' \in BOOLEAN /\ (elsewhere => elsewhere')
      /\ runtime \in Active \/ elsewhere'
  BY EffectFacts DEF PreviewIInv, PreviewTypeOK, Launched, Stopped, Fails, StartedElsewhere, Restored,
     ServerStep, Statuses, Active
<1>2. PreviewTypeOK' /\ Ordered'
  BY <1>1 DEF PreviewIInv, PreviewTypeOK, Ordered
<1>3. \A n : Newer(n) => Newer(n)'
  BY <1>1 DEF Newer
<1>4. \A s, n : Holds(s, n) => Holds(s, n)'
  BY <1>1, <1>3, HoldsKept
<1>5. Answers' /\ ShownHolds'
  BY <1>1, <1>4 DEF PreviewIInv, Answers, ShownHolds
<1> QED BY <1>2, <1>5 DEF PreviewIInv

\* Steps of the page that ask, or change nothing that is known.
LEMMA AskingKeeps ==
  ASSUME PreviewIInv,
         (\E what \in Actions : RunAction(what)) \/ PollStatus \/ Retry \/ ScrollLogs
  PROVE  PreviewIInv'
<1>1. /\ UNCHANGED <<runtime, shown, elsewhere, overtaken, deaf, asked>>
      /\ requests \subseteq requests'
      /\ \A r \in requests' \ requests :
           /\ r \in [for : {r.for}, n : {r.n}, answer : {r.answer}, at : {r.at}]
           /\ r.for \in Purposes /\ r.answer = Asking /\ r.at = 0
  BY DEF RunAction, PollStatus, Retry, ScrollLogs, manager, Request, Purposes, Actions
<1>2. PreviewTypeOK' /\ Ordered'
  BY <1>1 DEF PreviewIInv, PreviewTypeOK, Ordered, Asking, Statuses
<1>3. \A n : Newer(n) => Newer(n)'
  BY <1>1 DEF Newer
<1>4. \A s, n : Holds(s, n) => Holds(s, n)'
  BY <1>1, <1>3, HoldsKept
<1>5. Answers' /\ ShownHolds'
  BY <1>1, <1>4 DEF PreviewIInv, Answers, ShownHolds, Asking, Statuses
<1> QED BY <1>2, <1>5 DEF PreviewIInv

\* The server answers with the status it has then; what it changes makes this
\* answer newer than all that is known.
LEMMA ServeKeeps ==
  ASSUME PreviewIInv, NEW r \in requests, ServeStatus(r)
  PROVE  PreviewIInv'
<1>0. /\ UNCHANGED <<shown, elsewhere, overtaken, deaf>> /\ r.answer = Asking
      /\ asked' = [asked EXCEPT !.last = @ + 1]
      /\ r \in [for : {r.for}, n : {r.n}, answer : {r.answer}, at : {r.at}]
      /\ r.for \in Purposes /\ r.at \in Nat /\ r.at <= asked.last
  BY DEF PreviewIInv, PreviewTypeOK, Ordered, ServeStatus, Tick
<1>1. asked'.last = asked.last + 1 /\ asked'.shown = asked.shown /\ asked' \in [last : Nat, shown : Nat]
  BY <1>0 DEF PreviewIInv, PreviewTypeOK
<1>2. CASE Refused(r.for)
  <2> DEFINE a == [r EXCEPT !.answer = "refused"]
  <2>1. requests' = (requests \ {r}) \cup {a} /\ runtime' = runtime /\ r.for \in Actions
    BY <1>2 DEF ServeStatus, manager, Refused, Actions
  <2>2. a \in [for : {r.for}, n : {r.n}, answer : {"refused"}, at : {r.at}]
    BY <1>0
  <2> HIDE DEF a
  <2>3. PreviewTypeOK' /\ Ordered'
    BY <1>0, <1>1, <2>1, <2>2 DEF PreviewIInv, PreviewTypeOK, Ordered, Statuses
  <2>4. \A n : Newer(n) => Newer(n)'
    BY <1>0, <1>1, <2>1, <2>2 DEF Newer, Actions
  <2>5. \A s, n : Holds(s, n) => Holds(s, n)'
    BY <1>0, <2>1, <2>4, HoldsKept
  <2>6. Answers' /\ ShownHolds'
    BY <1>0, <1>1, <2>1, <2>2, <2>5 DEF PreviewIInv, Answers, ShownHolds, Statuses
  <2> QED BY <2>3, <2>6 DEF PreviewIInv
<1>3. CASE ~Refused(r.for)
  <2>1. /\ requests' = (requests \ {r}) \cup {[r EXCEPT !.answer = runtime', !.at = asked'.last]}
        /\ runtime' \in Statuses /\ (r.for \notin Actions => runtime' = runtime)
    BY <1>3, EffectFacts DEF ServeStatus, PreviewIInv
  <2>2. PICK a \in requests' :
          /\ a \in [for : {r.for}, n : {r.n}, answer : {runtime'}, at : {asked'.last}]
          /\ \A x \in requests' : x = a \/ x \in requests
          /\ \A x \in requests : x = r \/ x \in requests'
    <3>1. \A x, y : [r EXCEPT !.answer = x, !.at = y]
                      \in [for : {r.for}, n : {r.n}, answer : {x}, at : {y}]
      BY <1>0
    <3>2. [r EXCEPT !.answer = runtime', !.at = asked'.last]
            \in [for : {r.for}, n : {r.n}, answer : {runtime'}, at : {asked'.last}]
      BY <3>1
    <3> QED BY <2>1, <3>2
  <2>3. PreviewTypeOK' /\ Ordered'
    BY <1>0, <1>1, <2>1, <2>2 DEF PreviewIInv, PreviewTypeOK, Ordered, Statuses
  <2>4. r.for \in Actions \cup {"refresh"} => \A n \in Nat : n <= asked.last => Newer(n)'
    BY <1>0, <1>1, <2>2 DEF Newer, PreviewIInv, PreviewTypeOK
  <2>5. \A n \in Nat : n <= asked.last /\ Newer(n) => Newer(n)'
    BY <1>0, <1>1, <2>2, <2>4 DEF Newer
  <2>6. \A s : \A n \in Nat : n <= asked.last /\ Holds(s, n) => Holds(s, n)'
    BY <1>0, <2>1, <2>4, <2>5, HoldsKept
  <2>7. Answers'
    <3>1. \A x \in requests : x.answer \in Statuses => Holds(x.answer, x.at)'
      BY <2>6 DEF PreviewIInv, PreviewTypeOK, Ordered, Answers
    <3>2. a.answer = runtime'
      BY <2>2
    <3> QED BY <2>2, <3>1, <3>2 DEF Answers, Holds
  <2>8. ShownHolds'
    BY <1>0, <1>1, <2>6 DEF PreviewIInv, PreviewTypeOK, Ordered, ShownHolds
  <2> QED BY <2>3, <2>7, <2>8 DEF PreviewIInv
<1> QED BY <1>2, <1>3

\* An answer that is shown takes the place of what it was known by.
LEMMA AnsweredKeeps ==
  ASSUME PreviewIInv, NEW r \in requests, Answered(r)
  PROVE  PreviewIInv'
<1>1. /\ UNCHANGED <<runtime, elsewhere>> /\ requests' = requests \ {r}
      /\ r.answer \in Statuses /\ shown' = r.answer /\ overtaken' = (r.at < asked.shown)
      /\ r.at \in Nat /\ asked \in [last : Nat, shown : Nat] /\ deaf \in Nat
      /\ asked' = [asked EXCEPT !.shown = IF r.at > @ THEN r.at ELSE @]
      /\ deaf' = (IF r.at > deaf THEN 0 ELSE deaf)
      /\ r.at <= asked.last /\ r.at >= 1 /\ asked.shown <= asked.last
  BY DEF PreviewIInv, PreviewTypeOK, Ordered, Answered, Apply, manager
<1>2. /\ asked' \in [last : Nat, shown : Nat] /\ asked'.last = asked.last
      /\ asked'.shown = IF r.at > asked.shown THEN r.at ELSE asked.shown
  BY <1>1
<1>3. PreviewTypeOK' /\ Ordered'
  BY <1>1, <1>2 DEF PreviewIInv, PreviewTypeOK, Ordered
<1>4. \A n \in Nat : Newer(n) => Newer(n)'
  BY <1>1, <1>2 DEF Newer, Asking, Statuses
<1>5. \A s : \A n \in Nat : Holds(s, n) => Holds(s, n)'
  BY <1>1, <1>4, HoldsKept
<1>6. Answers'
  BY <1>1, <1>5 DEF PreviewIInv, PreviewTypeOK, Answers
<1>7. ShownHolds'
  <2>1. Holds(r.answer, r.at)'
    BY <1>1, <1>5 DEF PreviewIInv, Answers
  <2>2. ~overtaken' => asked'.shown = r.at
    <3>1. asked.shown \in Nat
      <4>1. asked \in [last : Nat, shown : Nat]
        BY DEF PreviewIInv, PreviewTypeOK
      <4> QED BY <4>1
    <3>2. ~overtaken' => ~(r.at < asked.shown)
      BY <1>1, Zenon
    <3>3. r.at \in Nat /\ asked'.shown = IF r.at > asked.shown THEN r.at ELSE asked.shown
      BY <1>1, <1>2
    <3> QED BY <3>1, <3>2, <3>3
  <2> QED BY <1>1, <2>1, <2>2 DEF ShownHolds
<1> QED BY <1>3, <1>6, <1>7 DEF PreviewIInv

\* A lost answer of an action has the status asked for; when that is lost as
\* well, nothing is heard any more.
LEMMA UnansweredKeeps ==
  ASSUME PreviewIInv, NEW r \in requests, Unanswered(r)
  PROVE  PreviewIInv'
<1>1. /\ UNCHANGED <<runtime, shown, elsewhere, overtaken, asked>>
      /\ requests' = (requests \ {r}) \cup {Request("refresh") : x \in {r.for} \cap Actions}
      /\ deaf' = (IF r.for = "refresh" THEN asked.last ELSE deaf)
      /\ asked.last \in Nat /\ deaf \in Nat /\ deaf <= asked.last /\ asked.shown \in Nat
      /\ asked.shown <= asked.last
  BY DEF PreviewIInv, PreviewTypeOK, Ordered, Unanswered, manager
<1>2. /\ Request("refresh") = [for |-> "refresh", n |-> 0, answer |-> Asking, at |-> 0]
      /\ requests' \subseteq requests \cup {Request("refresh")}
      /\ r.for \in Actions => Request("refresh") \in requests'
  BY <1>1 DEF Request
<1>3. PreviewTypeOK' /\ Ordered'
  <2>1. \A x \in requests' : x \in requests \/ x = Request("refresh")
    BY <1>2
  <2>2. PreviewTypeOK'
    BY <1>1, <1>2, <2>1 DEF PreviewIInv, PreviewTypeOK, Purposes
  <2>3. Ordered'
    BY <1>1, <1>2, <2>1 DEF PreviewIInv, Ordered, Asking, Statuses
  <2> QED BY <2>2, <2>3
<1>4. \A n \in Nat : n <= asked.last /\ Newer(n) => Newer(n)'
  <2>1. CASE r.for \in Actions
    BY <1>2, <2>1 DEF Newer
  <2>2. CASE r.for = "refresh"
    BY <1>1, <2>2 DEF Newer
  <2>3. CASE r.for \notin Actions \cup {"refresh"}
    BY <1>1, <2>3 DEF Newer
  <2> QED BY <2>1, <2>2, <2>3
<1>5. \A s : \A n \in Nat : n <= asked.last /\ Holds(s, n) => Holds(s, n)'
  BY <1>1, <1>4, HoldsKept
<1>6. Answers'
  BY <1>2, <1>5 DEF PreviewIInv, PreviewTypeOK, Ordered, Answers, Asking, Statuses
<1>7. ShownHolds'
  BY <1>1, <1>5 DEF PreviewIInv, ShownHolds
<1> QED BY <1>3, <1>6, <1>7 DEF PreviewIInv

(* No step breaks the invariant. *)
LEMMA PreviewNextInvariant == PreviewIInv /\ [PreviewNext]_previewVars => PreviewIInv'
<1>1. ASSUME PreviewIInv, UNCHANGED previewVars PROVE PreviewIInv'
  BY <1>1 DEF PreviewIInv, previewVars, manager, PreviewTypeOK, Ordered, Answers, ShownHolds, Holds,
     Newer
<1> QED BY <1>1, ServerKeeps, AskingKeeps, ServeKeeps, AnsweredKeeps, UnansweredKeeps DEF PreviewNext

\* A status that is shown and no longer asked for is the preview's: for any
\* number of presses, polls, lost answers, failures and other clients.
THEOREM StatusIsTrue == PreviewSpec => []RestingStatusIsTrue
<1>1. PreviewIInv => RestingStatusIsTrue
  BY DEF PreviewIInv, PreviewTypeOK, Ordered, ShownHolds, Holds, Newer, RestingStatusIsTrue, Polled
<1> QED BY <1>1, PreviewInitInvariant, PreviewNextInvariant, PTL DEF PreviewSpec

-----------------------------------------------------------------------------
(* A page that says notifications are on has a subscription the server pushes to:
   for any number of subscriptions, events, reloads and lost requests.

   While nothing excuses it, the page is right or a task is under way that will
   set it right: a restore or an enable that has yet to save, or one of the
   three that will change the status when it ends (Remedied).  That a saved
   subscription is the registered one (Certain) needs that switching off does not
   run beside another task unnoticed (Alone), and that the stored flag is
   dropped with the subscription (Flagged), since the page is sure of itself
   again when it loads.

   A page that acknowledges an event had it, since what is acknowledged is
   not to be heard of again (NoticesOK). *)
Ats == {"idle", "get", "save", "saved", "delete", "unsubscribe", "failed"}
Tasks == [at : Ats, sub : Nat]

NoticesTypeOK ==
  /\ permission \in {"default", "granted", "denied"}
  /\ current \in Nat /\ made \in Nat /\ registered \subseteq Nat \ {0}
  /\ tasks \in [Ops -> Tasks] /\ happened \in Nat
  /\ \A op \in Ops : tasks[op].at = "save" => tasks[op].sub # 0

Restore == tasks["restore"]
Enable == tasks["enable"]
Disable == tasks["disable"]
Registered == current \in registered

Remedied ==
  \/ Disable # IdleTask \/ Restore.at = "failed" \/ Enable.at \in {"get", "save", "failed"}
  \/ Restore.at = "save" /\ Restore.sub = current

Certain(task) ==
  (task.at = "save" /\ task.sub # current) \/ task.at = "saved" => Registered
Alone ==
  Disable # IdleTask => status = "enabled" /\ Restore = IdleTask /\ Enable = IdleTask
Flagged == flag => current # Nothing
OnIsTrue == page # "closed" /\ status = "enabled" => Registered \/ Remedied

SwitchOK == excused = {} => Certain(Restore) /\ Certain(Enable) /\ Alone /\ Flagged /\ OnIsTrue

NoticesOK ==
  /\ hearing \subseteq noticed /\ \A seq \in hearing : seq \in Nat /\ seq <= happened
  /\ \A a \in acked : /\ a.seq \in noticed \cup alerted /\ a.seq \notin hearing
                      /\ a.seq \in Nat /\ a.seq <= happened

NoticesIInv == NoticesTypeOK /\ SwitchOK /\ NoticesOK

LEMMA Three == Ops = {"restore", "enable", "disable"} /\ IdleTask \in Tasks /\ Nothing = 0
               /\ IdleTask.at = "idle" /\ IdleTask.sub = 0
BY DEF Ops, IdleTask, Tasks, Ats, Nothing

(* What one task does leaves the others as they are. *)
LEMMA OneTask ==
  ASSUME NoticesTypeOK, NEW op \in Ops, NEW t \in Tasks, tasks' = [tasks EXCEPT ![op] = t],
         t.at = "save" => t.sub # 0
  PROVE  /\ tasks' \in [Ops -> Tasks] /\ tasks'[op] = t
         /\ \A other \in Ops \ {op} : tasks'[other] = tasks[other]
         /\ \A o \in Ops : tasks'[o].at = "save" => tasks'[o].sub # 0
BY DEF NoticesTypeOK

LEMMA NoticesRest ==
  ASSUME NoticesOK, UNCHANGED notices
  PROVE  NoticesOK'
BY DEF NoticesOK, notices

LEMMA NoticesStart == NoticesInit => NoticesIInv
<1> SUFFICES ASSUME NoticesInit PROVE NoticesIInv
  OBVIOUS
<1>1. NoticesTypeOK
  BY Three DEF NoticesInit, NoticesTypeOK
<1>2. Restore = IdleTask /\ Enable = IdleTask /\ Disable = IdleTask
  BY Three DEF NoticesInit, Restore, Enable, Disable
<1>3. SwitchOK
  BY <1>2, Three DEF NoticesInit, SwitchOK, Certain, Alone, Flagged, OnIsTrue
<1>4. NoticesOK
  BY DEF NoticesInit, NoticesOK
<1> QED BY <1>1, <1>3, <1>4 DEF NoticesIInv

-----------------------------------------------------------------------------
(* The page. *)
LEMMA Loads ==
  ASSUME NoticesIInv, LoadPage
  PROVE  NoticesIInv'
<1>1. /\ UNCHANGED <<permission, current, made, flag, registered, excused, happened, acked,
                     noticed, alerted>>
      /\ hearing' = {} /\ status' = StatusAtLoad
  BY DEF LoadPage
<1>2. /\ tasks' \in [Ops -> Tasks] /\ Enable' = IdleTask /\ Disable' = IdleTask
      /\ Restore' = IF permission = "granted" /\ current # 0
                    THEN [at |-> "save", sub |-> current] ELSE IdleTask
  BY Three DEF LoadPage, NoticesIInv, NoticesTypeOK, Tasks, Ats, Restore, Enable, Disable
<1>3. NoticesTypeOK'
  BY <1>1, <1>2, Three DEF NoticesIInv, NoticesTypeOK, Restore, Enable, Disable
<1>4. status' = "enabled" => permission = "granted" /\ flag
  BY <1>1 DEF StatusAtLoad
<1>5. SwitchOK'
  BY <1>1, <1>2, <1>4, Three
     DEF NoticesIInv, SwitchOK, Certain, Alone, Flagged, OnIsTrue, Remedied
<1>6. NoticesOK'
  BY <1>1 DEF NoticesIInv, NoticesOK
<1> QED BY <1>3, <1>5, <1>6 DEF NoticesIInv

LEMMA PageChanges ==
  ASSUME NoticesIInv, Hide \/ Show \/ CloseTab
  PROVE  NoticesIInv'
<1>1. CASE Hide \/ Show
  <2>1. UNCHANGED <<switch, notices>> /\ page # "closed"
    BY <1>1 DEF Hide, Show
  <2>2. SwitchOK'
    BY <2>1 DEF NoticesIInv, SwitchOK, Certain, Alone, Flagged, OnIsTrue, Remedied, switch,
                Restore, Enable, Disable, Registered
  <2> QED BY <2>1, <2>2, NoticesRest DEF NoticesIInv, NoticesTypeOK, switch, notices
<1>2. CASE CloseTab
  <2>1. /\ UNCHANGED <<permission, current, made, flag, registered, status, excused, happened,
                       acked, noticed, alerted>>
        /\ hearing' = {} /\ page' = "closed" /\ tasks' = [op \in Ops |-> IdleTask]
    BY <1>2 DEF CloseTab
  <2>2. Restore' = IdleTask /\ Enable' = IdleTask /\ Disable' = IdleTask
    BY <2>1, Three DEF Restore, Enable, Disable
  <2>3. NoticesTypeOK'
    BY <2>1, Three DEF NoticesIInv, NoticesTypeOK
  <2>4. SwitchOK'
    BY <2>1, <2>2, Three DEF NoticesIInv, SwitchOK, Certain, Alone, Flagged, OnIsTrue
  <2>5. NoticesOK'
    BY <2>1 DEF NoticesIInv, NoticesOK
  <2> QED BY <2>3, <2>4, <2>5 DEF NoticesIInv
<1> QED BY <1>1, <1>2

-----------------------------------------------------------------------------
(* Switching on and off. *)
LEMMA Others ==
  ASSUME NoticesTypeOK, NEW op \in Ops, NEW t \in Tasks, tasks' = [tasks EXCEPT ![op] = t],
         t.at = "save" => t.sub # 0
  PROVE  /\ Restore' = IF op = "restore" THEN t ELSE Restore
         /\ Enable' = IF op = "enable" THEN t ELSE Enable
         /\ Disable' = IF op = "disable" THEN t ELSE Disable
BY OneTask, Three DEF Restore, Enable, Disable

LEMMA TurnsOn ==
  ASSUME NoticesIInv, EnableStart
  PROVE  NoticesIInv'
<1> USE DEF NoticesIInv
<1>0. /\ UNCHANGED <<current, made, registered, excused, page, notices>> /\ status # "enabled"
      /\ \A p \in {permission, permission'} : p \in {"default", "granted", "denied"}
  BY DEF EnableStart, SwitchIs, NoticesTypeOK
<1>1. CASE status' = "enabling" /\ Task("enable", "get", Nothing) /\ UNCHANGED flag
  <2> DEFINE t == [at |-> "get", sub |-> Nothing]
  <2>1. t \in Tasks /\ t.at = "get" /\ tasks' = [tasks EXCEPT !["enable"] = t]
    BY <1>1, Three DEF Task, Tasks, Ats
  <2> HIDE DEF t
  <2>2. Restore' = Restore /\ Enable' = t /\ Disable' = Disable
    BY <2>1, Others, Three
  <2>3. NoticesTypeOK'
    BY <1>0, <2>1, OneTask, Three DEF NoticesTypeOK, notices
  <2>4. SwitchOK'
    BY <1>0, <1>1, <2>1, <2>2 DEF SwitchOK, Certain, Alone, Flagged, OnIsTrue, Registered
  <2> QED BY <1>0, <2>3, <2>4, NoticesRest
<1>2. CASE status' \in {"default", "denied"} /\ flag' = FALSE /\ UNCHANGED tasks
  <2>1. NoticesTypeOK'
    BY <1>0, <1>2 DEF NoticesTypeOK, notices
  <2>2. SwitchOK'
    BY <1>0, <1>2 DEF SwitchOK, Certain, Alone, Flagged, OnIsTrue, Registered,
                      Restore, Enable, Disable
  <2> QED BY <1>0, <2>1, <2>2, NoticesRest
<1>3. PICK answer \in IF permission = "default" THEN {"default", "granted", "denied"}
                      ELSE {permission} :
        IF answer = "granted"
        THEN status' = "enabling" /\ Task("enable", "get", Nothing) /\ UNCHANGED flag
        ELSE status' = answer /\ flag' = FALSE /\ UNCHANGED tasks
  BY DEF EnableStart
<1> QED BY <1>0, <1>1, <1>2, <1>3

LEMMA Subscribes ==
  ASSUME NoticesIInv, Subscribe
  PROVE  NoticesIInv'
<1> USE DEF NoticesIInv
<1>0. /\ UNCHANGED <<permission, flag, registered, status, excused, page, notices>>
      /\ Enable.at = "get"
  BY DEF Subscribe, Enable
<1>1. current' # 0 /\ current' \in Nat /\ made' \in Nat /\ (current # 0 => current' = current)
  BY Three DEF Subscribe, NoticesTypeOK
<1> DEFINE t == [at |-> "save", sub |-> current']
<1>2. tasks' = [tasks EXCEPT !["enable"] = t]
  BY Three DEF Subscribe, Task
<1>3. t \in Tasks /\ t.at = "save" /\ t.sub = current'
  BY <1>1 DEF Tasks, Ats
<1> HIDE DEF t
<1>4. Restore' = Restore /\ Enable' = t /\ Disable' = Disable
  BY <1>1, <1>2, <1>3, Others, Three
<1>5. NoticesTypeOK'
  BY <1>0, <1>1, <1>2, <1>3, OneTask, Three DEF NoticesTypeOK, notices
<1>6. current = 0 => ~Registered /\ (Restore.at = "save" => Restore.sub # current)
  BY Three DEF NoticesTypeOK, Registered, Restore
<1>7. SwitchOK'
  <2> SUFFICES ASSUME excused = {} PROVE SwitchOK'
    BY <1>0 DEF SwitchOK
  <2>1. Certain(Restore) /\ Certain(Enable) /\ Alone /\ Flagged
    BY DEF SwitchOK
  <2>2. Certain(Restore)'
    BY <1>0, <1>1, <1>4, <1>6, <2>1 DEF Certain, Registered
  <2>3. Certain(Enable)' /\ OnIsTrue'
    BY <1>3, <1>4 DEF Certain, OnIsTrue, Remedied
  <2>4. Alone' /\ Flagged'
    BY <1>0, <1>1, <1>4, <2>1, Three DEF Alone, Flagged
  <2> QED BY <2>2, <2>3, <2>4 DEF SwitchOK
<1> QED BY <1>0, <1>5, <1>7, NoticesRest

LEMMA Saves ==
  ASSUME NoticesIInv, NEW op \in {"restore", "enable"}, ServeSave(op)
  PROVE  NoticesIInv'
<1> USE DEF NoticesIInv
<1> DEFINE t == [at |-> "saved", sub |-> tasks[op].sub]
<1>0. /\ UNCHANGED <<permission, current, made, flag, status, page, notices>>
      /\ tasks[op].at = "save" /\ registered' = registered \cup {tasks[op].sub}
      /\ tasks' = [tasks EXCEPT ![op] = t]
      /\ excused' = IF tasks[op].sub = current /\ Disable = IdleTask THEN {} ELSE excused
  BY DEF ServeSave, Task, Disable
<1>1. tasks[op].sub \in Nat \ {0} /\ op \in Ops
  BY <1>0, Three DEF NoticesTypeOK, Tasks
<1>2. t \in Tasks /\ t.at = "saved" /\ t.sub = tasks[op].sub
  BY <1>1 DEF Tasks, Ats
<1> HIDE DEF t
<1>3. /\ Restore' = IF op = "restore" THEN t ELSE Restore
      /\ Enable' = IF op = "enable" THEN t ELSE Enable
      /\ Disable' = Disable
  BY <1>0, <1>1, <1>2, Others, Three
<1>4. NoticesTypeOK'
  BY <1>0, <1>1, <1>2, OneTask, Three DEF NoticesTypeOK, notices
<1>5. Registered => Registered'
  BY <1>0 DEF Registered
<1>6. CASE tasks[op].sub = current /\ Disable = IdleTask
  <2>1. Registered' /\ current' # 0 /\ Disable' = IdleTask
    BY <1>0, <1>1, <1>3, <1>6 DEF Registered
  <2>2. SwitchOK'
    BY <2>1, Three DEF SwitchOK, Certain, Alone, Flagged, OnIsTrue
  <2> QED BY <1>0, <1>4, <2>2, NoticesRest
<1>7. CASE ~(tasks[op].sub = current /\ Disable = IdleTask)
  <2> SUFFICES ASSUME excused = {} PROVE SwitchOK'
    BY <1>0, <1>4, <1>7, NoticesRest DEF SwitchOK
  <2>1. Certain(Restore) /\ Certain(Enable) /\ Alone /\ Flagged
    BY DEF SwitchOK
  <2>2. Disable = IdleTask
    BY <1>0, <2>1, Three DEF Alone, Restore, Enable
  <2>3. Registered
    BY <1>0, <1>7, <2>1, <2>2 DEF Certain, Restore, Enable
  <2> QED BY <1>0, <1>3, <1>5, <2>1, <2>2, <2>3, Three
          DEF SwitchOK, Certain, Alone, Flagged, OnIsTrue
<1> QED BY <1>6, <1>7

LEMMA Deletes ==
  ASSUME NoticesIInv, ServeDelete
  PROVE  NoticesIInv'
<1> USE DEF NoticesIInv
<1> DEFINE t == [at |-> "unsubscribe", sub |-> Disable.sub]
<1>0. /\ UNCHANGED <<permission, current, made, flag, status, excused, page, notices>>
      /\ Disable.at = "delete" /\ registered' = registered \ {Disable.sub}
      /\ tasks' = [tasks EXCEPT !["disable"] = t]
  BY DEF ServeDelete, Task, Disable
<1>1. t \in Tasks /\ t.at = "unsubscribe" /\ Disable.sub \in Nat
  BY Three DEF NoticesTypeOK, Tasks, Ats, Disable
<1> HIDE DEF t
<1>2. Restore' = Restore /\ Enable' = Enable /\ Disable' = t
  BY <1>0, <1>1, Others, Three
<1>3. NoticesTypeOK'
  BY <1>0, <1>1, OneTask, Three DEF NoticesTypeOK, notices
<1>4. SwitchOK'
  <2> SUFFICES ASSUME excused = {} PROVE SwitchOK'
    BY <1>0 DEF SwitchOK
  <2>1. status = "enabled" /\ Restore = IdleTask /\ Enable = IdleTask /\ Flagged
    BY <1>0, Three DEF SwitchOK, Alone
  <2> QED BY <1>0, <1>1, <1>2, <2>1, Three
          DEF SwitchOK, Certain, Alone, Flagged, OnIsTrue, Remedied
<1> QED BY <1>0, <1>3, <1>4, NoticesRest

LEMMA TaskGivesUp ==
  ASSUME NoticesIInv, NEW op \in Ops, TaskFails(op)
  PROVE  NoticesIInv'
<1> USE DEF NoticesIInv
<1> DEFINE t == [at |-> "failed", sub |-> tasks[op].sub]
<1>0. /\ UNCHANGED <<permission, current, made, flag, registered, status, excused, page, notices>>
      /\ tasks[op].at # "idle" /\ tasks' = [tasks EXCEPT ![op] = t]
  BY DEF TaskFails, Task
<1>1. t \in Tasks /\ t.at = "failed" /\ tasks[op] # IdleTask
  BY <1>0, Three DEF NoticesTypeOK, Tasks, Ats
<1> HIDE DEF t
<1>2. /\ Restore' = IF op = "restore" THEN t ELSE Restore
      /\ Enable' = IF op = "enable" THEN t ELSE Enable
      /\ Disable' = IF op = "disable" THEN t ELSE Disable
  BY <1>0, <1>1, Others
<1>3. NoticesTypeOK'
  BY <1>0, <1>1, OneTask, Three DEF NoticesTypeOK, notices
<1>4. SwitchOK'
  <2> SUFFICES ASSUME excused = {} PROVE SwitchOK'
    BY <1>0 DEF SwitchOK
  <2>1. Certain(Restore) /\ Certain(Enable) /\ Alone /\ Flagged /\ OnIsTrue
    BY DEF SwitchOK
  <2>2. Certain(Restore)' /\ Certain(Enable)' /\ Flagged'
    BY <1>0, <1>1, <1>2, <2>1 DEF Certain, Registered, Flagged
  <2>3. Alone'
    BY <1>0, <1>1, <1>2, <2>1, Three DEF Alone, Restore, Enable, Disable
  <2>4. OnIsTrue'
    <3> SUFFICES ASSUME page # "closed", status = "enabled", ~Registered PROVE Remedied'
      BY <1>0 DEF OnIsTrue, Registered
    <3>1. Remedied
      BY <2>1 DEF OnIsTrue
    <3>2. op = "disable" => Disable' # IdleTask
      BY <1>1, <1>2, Three
    <3> QED BY <1>0, <1>1, <1>2, <3>1, <3>2, Three DEF Remedied
  <2> QED BY <2>2, <2>3, <2>4 DEF SwitchOK
<1> QED BY <1>0, <1>3, <1>4, NoticesRest

LEMMA Finished ==
  ASSUME NoticesIInv, NEW op \in {"restore", "enable"}, TaskSaved(op)
  PROVE  NoticesIInv'
<1> USE DEF NoticesIInv
<1>0. /\ UNCHANGED <<permission, current, made, registered, excused, page, notices>>
      /\ tasks[op].at = "saved" /\ tasks' = [tasks EXCEPT ![op] = IdleTask] /\ op \in Ops
  BY Three DEF TaskSaved, Finish
<1>1. /\ Restore' = IF op = "restore" THEN IdleTask ELSE Restore
      /\ Enable' = IF op = "enable" THEN IdleTask ELSE Enable
      /\ Disable' = Disable
  BY <1>0, Others, Three
<1>2. NoticesTypeOK'
  BY <1>0, OneTask, Three DEF NoticesTypeOK, notices
<1>3. SwitchOK'
  <2> SUFFICES ASSUME excused = {} PROVE SwitchOK'
    BY <1>0 DEF SwitchOK
  <2>1. Certain(Restore) /\ Certain(Enable) /\ Alone
    BY DEF SwitchOK
  <2>2. Registered /\ Disable = IdleTask
    BY <1>0, <2>1, Three DEF Certain, Alone, Restore, Enable
  <2>3. Registered' /\ current' # 0
    BY <1>0, <2>2 DEF Registered, NoticesTypeOK
  <2> QED BY <1>1, <2>2, <2>3, Three DEF SwitchOK, Certain, Alone, Flagged, OnIsTrue
<1> QED BY <1>0, <1>2, <1>3, NoticesRest

LEMMA TurnsOff ==
  ASSUME NoticesIInv, DisableStart
  PROVE  NoticesIInv'
<1> USE DEF NoticesIInv
<1> DEFINE t == [at |-> "delete", sub |-> current]
<1>0. /\ UNCHANGED <<permission, current, made, registered, page, notices>>
      /\ status = "enabled" /\ excused' = IF ~Quiet THEN excused \cup {"raced"} ELSE excused
  BY DEF DisableStart, SwitchIs
<1>1. CASE status' = "default" /\ flag' = FALSE /\ UNCHANGED tasks /\ current = Nothing
  <2>1. NoticesTypeOK'
    BY <1>0, <1>1 DEF NoticesTypeOK, notices
  <2>2. SwitchOK'
    <3> SUFFICES ASSUME excused' = {} PROVE SwitchOK'
      BY DEF SwitchOK
    <3>1. Quiet
      BY <1>0
    <3>2. Restore' = IdleTask /\ Enable' = IdleTask /\ Disable' = IdleTask
      BY <1>1, <3>1, Three DEF Quiet, Restore, Enable, Disable
    <3> QED BY <1>1, <3>2, Three DEF SwitchOK, Certain, Alone, Flagged, OnIsTrue
  <2> QED BY <1>0, <2>1, <2>2, NoticesRest
<1>2. CASE tasks' = [tasks EXCEPT !["disable"] = t] /\ UNCHANGED <<status, flag>>
           /\ current # Nothing
  <2>1. t \in Tasks /\ t.at = "delete"
    BY DEF NoticesTypeOK, Tasks, Ats
  <2> HIDE DEF t
  <2>2. Restore' = Restore /\ Enable' = Enable /\ Disable' = t
    BY <1>2, <2>1, Others, Three
  <2>3. NoticesTypeOK'
    BY <1>0, <1>2, <2>1, OneTask, Three DEF NoticesTypeOK, notices
  <2>4. SwitchOK'
    <3> SUFFICES ASSUME excused' = {} PROVE SwitchOK'
      BY DEF SwitchOK
    <3>1. Quiet
      BY <1>0
    <3>2. Restore = IdleTask /\ Enable = IdleTask
      BY <3>1, Three DEF Quiet, Restore, Enable
    <3> QED BY <1>0, <1>2, <2>1, <2>2, <3>2, Three
            DEF SwitchOK, Certain, Alone, Flagged, OnIsTrue, Remedied
  <2> QED BY <1>0, <2>3, <2>4, NoticesRest
<1> QED BY <1>1, <1>2 DEF DisableStart, Task

LEMMA Unsubscribes ==
  ASSUME NoticesIInv, Unsubscribe
  PROVE  NoticesIInv'
<1> USE DEF NoticesIInv
<1>0. /\ UNCHANGED <<permission, made, registered, excused, page, notices>>
      /\ Disable.at = "unsubscribe" /\ tasks' = [tasks EXCEPT !["disable"] = IdleTask]
      /\ current' \in {current, 0} /\ flag' = FALSE /\ status' = "default"
  BY Three DEF Unsubscribe, Finish, Disable
<1>1. Restore' = Restore /\ Enable' = Enable /\ Disable' = IdleTask
  BY <1>0, Others, Three
<1>2. NoticesTypeOK'
  BY <1>0, OneTask, Three DEF NoticesTypeOK, notices
<1>3. SwitchOK'
  <2> SUFFICES ASSUME excused = {} PROVE SwitchOK'
    BY <1>0 DEF SwitchOK
  <2>1. Restore = IdleTask /\ Enable = IdleTask
    BY <1>0, Three DEF SwitchOK, Alone
  <2> QED BY <1>0, <1>1, <2>1, Three DEF SwitchOK, Certain, Alone, Flagged, OnIsTrue
<1> QED BY <1>0, <1>2, <1>3, NoticesRest

LEMMA Reports ==
  ASSUME NoticesIInv, NEW op \in Ops, TaskFailed(op)
  PROVE  NoticesIInv'
<1> USE DEF NoticesIInv
<1>0. /\ UNCHANGED <<permission, current, made, registered, page, notices>>
      /\ tasks[op].at = "failed" /\ tasks' = [tasks EXCEPT ![op] = IdleTask]
      /\ status' = IF op = "restore" THEN status ELSE "error"
      /\ flag' = IF op = "enable" THEN FALSE ELSE flag
      /\ excused' = IF op = "restore" THEN excused \cup {"unrestored"} ELSE excused
  BY DEF TaskFailed, Finish
<1>1. /\ Restore' = IF op = "restore" THEN IdleTask ELSE Restore
      /\ Enable' = IF op = "enable" THEN IdleTask ELSE Enable
      /\ Disable' = IF op = "disable" THEN IdleTask ELSE Disable
  BY <1>0, Others, Three
<1>2. NoticesTypeOK'
  BY <1>0, OneTask, Three DEF NoticesTypeOK, notices
<1>3. SwitchOK'
  <2> SUFFICES ASSUME excused = {}, op # "restore" PROVE SwitchOK'
    BY <1>0 DEF SwitchOK
  <2>1. Certain(Restore) /\ Certain(Enable) /\ Alone /\ Flagged
    BY DEF SwitchOK
  <2>2. Disable' = IdleTask
    BY <1>0, <1>1, <2>1, Three DEF Alone, Restore, Enable, Disable
  <2> QED BY <1>0, <1>1, <2>1, <2>2, Three
          DEF SwitchOK, Certain, Registered, Alone, Flagged, OnIsTrue
<1> QED BY <1>0, <1>2, <1>3, NoticesRest

LEMMA Drops ==
  ASSUME NoticesIInv, Dropped
  PROVE  NoticesIInv'
<1> USE DEF NoticesIInv
<1>0. /\ UNCHANGED <<permission, made, flag, status, tasks, page, notices>> /\ excused' # {}
      /\ current' \in Nat /\ registered' \subseteq registered
  BY Three DEF Dropped, NoticesTypeOK
<1>1. NoticesTypeOK'
  BY <1>0 DEF NoticesTypeOK, notices
<1> QED BY <1>0, <1>1, NoticesRest DEF SwitchOK

-----------------------------------------------------------------------------
(* Events, acknowledgements and pushes: the switch is not touched. *)
LEMMA SwitchRests ==
  ASSUME SwitchOK, UNCHANGED <<switch, page>>
  PROVE  SwitchOK'
BY DEF SwitchOK, Certain, Alone, Flagged, OnIsTrue, Remedied, switch,
       Restore, Enable, Disable, Registered

LEMMA EventHappens ==
  ASSUME NoticesIInv, Happens
  PROVE  NoticesIInv'
<1> USE DEF NoticesIInv
<1>0. UNCHANGED <<switch, page, acked, alerted>> /\ happened' = happened + 1 /\ happened \in Nat
  BY DEF Happens, NoticesTypeOK
<1>1. \/ hearing' = hearing \cup {happened + 1} /\ noticed' = noticed \cup {happened + 1}
      \/ UNCHANGED <<hearing, noticed>>
  BY DEF Happens
<1>2. NoticesTypeOK'
  BY <1>0 DEF NoticesTypeOK, switch
<1>3. hearing' \subseteq noticed' /\ \A seq \in hearing' : seq \in Nat /\ seq <= happened'
  BY <1>0, <1>1 DEF NoticesOK
<1>4. \A a \in acked' : /\ a.seq \in noticed' \cup alerted' /\ a.seq \notin hearing'
                        /\ a.seq \in Nat /\ a.seq <= happened'
  <2> SUFFICES ASSUME NEW a \in acked
               PROVE  /\ a.seq \in noticed' \cup alerted' /\ a.seq \notin hearing'
                      /\ a.seq \in Nat /\ a.seq <= happened'
    BY <1>0
  <2>1. /\ a.seq \in noticed \cup alerted /\ a.seq \notin hearing
        /\ a.seq \in Nat /\ a.seq <= happened
    BY DEF NoticesOK
  <2>2. a.seq <= happened + 1 /\ a.seq # happened + 1
    BY <1>0, <2>1
  <2> QED BY <1>0, <1>1, <2>1, <2>2
<1> QED BY <1>0, <1>2, <1>3, <1>4, SwitchRests DEF NoticesOK

LEMMA PageAcknowledges ==
  ASSUME NoticesIInv, NEW seq, Acknowledge(seq)
  PROVE  NoticesIInv'
<1> USE DEF NoticesIInv
<1>0. /\ UNCHANGED <<switch, page, happened, alerted>>
      /\ seq \in hearing /\ hearing' = hearing \ {seq}
  BY DEF Acknowledge
<1>1. \/ acked' = acked \cup {[seq |-> seq, sub |-> current]} /\ noticed' = noticed
      \/ acked' = acked /\ noticed' \in {noticed, noticed \ {seq}}
  BY DEF Acknowledge
<1>2. NoticesTypeOK'
  BY <1>0 DEF NoticesTypeOK, switch
<1>3. /\ hearing \subseteq noticed /\ \A s \in hearing : s \in Nat /\ s <= happened
      /\ \A a \in acked : /\ a.seq \in noticed \cup alerted /\ a.seq \notin hearing
                          /\ a.seq \in Nat /\ a.seq <= happened
  BY DEF NoticesOK
<1>4. \A a \in acked : a.seq # seq
  BY <1>0, <1>3
<1>5. NoticesOK'
  BY <1>0, <1>1, <1>3, <1>4 DEF NoticesOK
<1> QED BY <1>0, <1>2, <1>5, SwitchRests

LEMMA Pushes ==
  ASSUME NoticesIInv, (\E notice \in waiting : Push(notice)) \/ Look
  PROVE  NoticesIInv'
<1> USE DEF NoticesIInv
<1>0. /\ UNCHANGED <<switch, page, happened, hearing, acked>>
      /\ noticed \subseteq noticed' /\ alerted \subseteq alerted'
  BY DEF Push, Look
<1>1. NoticesTypeOK'
  BY <1>0 DEF NoticesTypeOK, switch
<1>2. NoticesOK'
  BY <1>0 DEF NoticesOK
<1> QED BY <1>0, <1>1, <1>2, SwitchRests

-----------------------------------------------------------------------------
LEMMA NoticesStep == NoticesIInv /\ [NoticesNext]_noticesVars => NoticesIInv'
<1> SUFFICES ASSUME NoticesIInv, [NoticesNext]_noticesVars PROVE NoticesIInv'
  OBVIOUS
<1>1. CASE UNCHANGED noticesVars
  BY <1>1, NoticesRest, SwitchRests DEF NoticesIInv, NoticesTypeOK, noticesVars, switch, notices
<1>2. CASE LoadPage \/ Hide \/ Show \/ CloseTab
  BY <1>2, Loads, PageChanges
<1>3. CASE EnableStart \/ Subscribe \/ DisableStart \/ ServeDelete \/ Unsubscribe \/ Dropped
  BY <1>3, TurnsOn, Subscribes, TurnsOff, Deletes, Unsubscribes, Drops
<1>4. CASE \E op \in {"restore", "enable"} : ServeSave(op) \/ TaskSaved(op)
  BY <1>4, Saves, Finished
<1>5. CASE \E op \in Ops : TaskFails(op) \/ TaskFailed(op)
  BY <1>5, TaskGivesUp, Reports
<1>6. CASE Happens \/ \E seq \in Events : Acknowledge(seq)
  BY <1>6, EventHappens, PageAcknowledges
<1>7. CASE (\E notice \in waiting : Push(notice)) \/ Look
  BY <1>7, Pushes
<1> QED BY <1>1, <1>2, <1>3, <1>4, <1>5, <1>6, <1>7 DEF NoticesNext

LEMMA NoticesHold == NoticesIInv => NoticesReachTheUser
<1> SUFFICES ASSUME NoticesIInv PROVE NoticesReachTheUser
  OBVIOUS
<1>1. SkippedWasNoticed
  BY DEF SkippedWasNoticed, NoticesIInv, NoticesOK
<1>2. OnMeansSubscribed
  <2> SUFFICES ASSUME page # "closed", Quiet, status = "enabled", excused = {} PROVE Registered
    BY DEF OnMeansSubscribed, Registered
  <2>1. Restore = IdleTask /\ Enable = IdleTask /\ Disable = IdleTask
    BY Three DEF Quiet, Restore, Enable, Disable
  <2>2. ~Remedied
    BY <2>1, Three DEF Remedied
  <2> QED BY <2>2 DEF NoticesIInv, SwitchOK, OnIsTrue
<1> QED BY <1>1, <1>2 DEF NoticesReachTheUser

(* Notifications that are on reach somebody: at rest a page that says so has the
   subscription the server pushes to, and a push that was left out was left out for
   a page that had the event (use-push-notifications.ts, internal/notifications). *)
THEOREM NoticesArrive == NoticesSpec => []NoticesReachTheUser
<1>1. NoticesInit => NoticesIInv
  BY NoticesStart
<1>2. NoticesIInv /\ [NoticesNext]_noticesVars => NoticesIInv'
  BY NoticesStep
<1>3. NoticesIInv => NoticesReachTheUser
  BY NoticesHold
<1> QED BY <1>1, <1>2, <1>3, PTL DEF NoticesSpec

-----------------------------------------------------------------------------
(* The list of a folder is never from before what the page knows: for any folders,
   changes, uploads and requests.

   What is Needed of a list is asked of the lists of the present key only, and
   a request that is answered by now gives it (KnownOK).  A step that needs more of
   a folder has a new key or throws the folder's entries away; so an entry is
   as new as needed, or it will be, unless it was cached late (EntryOK).  The
   list waits for the request that the entry of the open folder has (WaitOK), or
   shows what was in the cache, or would have been (ListIsNotStale). *)
Keys == Nat \X Folders
ReadRecords == [st : {"unused", "asked", "answered", "done"}, key : Keys, list : Nat]
Uploads == [st : {"idle", "asked", "answered"}, folder : Folders]
CacheEntries == [key : Keys, read : Reads \cup {None}, list : Nat]

BrowserTypeOK ==
  /\ server \in [Folders -> Nat] /\ news \in [Folders -> [known : Nat, coming : Nat]]
  /\ path \in Folders /\ refreshKey \in Nat
  /\ reads \in [Reads -> ReadRecords] /\ cache \subseteq CacheEntries
  /\ awaited \in Reads \cup {None} /\ upload \in Uploads
  /\ listing.any => listing.list \in Nat
  /\ \A n \in Reads : reads[n].key[1] <= refreshKey

KnownOK == \A f \in Folders : news[f].known <= server[f] /\ news[f].coming <= server[f]

Needed(key) == IF key[1] = refreshKey THEN news[key[2]].known ELSE 0
Running(n) == reads[n].st \in {"asked", "answered"}

EntryOK(e) ==
  /\ e.key[1] <= refreshKey
  /\ IF e.read = None THEN e.key \in late \/ Needed(e.key) <= e.list
     ELSE /\ Running(e.read) /\ reads[e.read].key = e.key
          /\ reads[e.read].st = "answered" => Needed(e.key) <= reads[e.read].list
CacheOK ==
  /\ \A e \in cache : EntryOK(e)
  /\ \A e, d \in cache : e.key = d.key => e = d

Present == Key(refreshKey, path)
WaitOK ==
  /\ awaited # None => Running(awaited) /\ reads[awaited].key = Present
  /\ \A e \in cache : e.key = Present /\ e.read # None => awaited = e.read

BrowserIInv == BrowserTypeOK /\ KnownOK /\ CacheOK /\ WaitOK /\ ListIsNotStale

LEMMA PresentKey == BrowserTypeOK => Present \in Keys /\ Present[1] = refreshKey /\ Present[2] = path
                                     /\ Needed(Present) = news[path].known
BY DEF BrowserTypeOK, Present, Key, Keys, Needed

LEMMA NoneIsNoRead == None \notin Reads /\ None = 0 /\ \A n \in Reads : n \in Nat
BY BrowserAssumption DEF None, Reads

LEMMA BrowserStart == BrowserInit => BrowserIInv
<1> SUFFICES ASSUME BrowserInit PROVE BrowserIInv
  OBVIOUS
<1> USE BrowserAssumption
<1>1. 1 \in Reads /\ Key(0, Root) \in Keys /\ Key(0, Root) = Present /\ reads[1] = ListAsked(Key(0, Root))
  BY DEF BrowserInit, Reads, Key, Keys, Present
<1>2. \A n \in Reads : reads[n] \in ReadRecords /\ reads[n].key[1] = 0
  <2>1. ListAsked(Key(0, Root)) \in ReadRecords /\ NoRead \in ReadRecords
    BY <1>1, NoneIsNoRead DEF ListAsked, NoRead, ReadRecords, Keys
  <2>2. ListAsked(Key(0, Root)).key[1] = 0 /\ NoRead.key[1] = 0
    BY DEF ListAsked, NoRead, Key
  <2>3. \A n \in Reads : reads[n] \in {ListAsked(Key(0, Root)), NoRead}
    BY DEF BrowserInit
  <2> QED BY <2>1, <2>2, <2>3
<1>3. BrowserTypeOK
  <2>1. [key |-> Key(0, Root), read |-> 1, list |-> None] \in CacheEntries
    BY <1>1, NoneIsNoRead DEF CacheEntries
  <2>2. reads = [n \in Reads |-> reads[n]]
    BY DEF BrowserInit
  <2> QED BY <1>1, <1>2, <2>1, <2>2 DEF BrowserInit, BrowserTypeOK, NoUpload, NoList, Uploads
<1>4. KnownOK
  <2> SUFFICES ASSUME NEW f \in Folders
               PROVE  news[f].known <= server[f] /\ news[f].coming <= server[f]
    BY DEF KnownOK
  <2>1. server[f] = 0
    BY DEF BrowserInit
  <2>2. news[f] = [known |-> 0, coming |-> 0]
    BY DEF BrowserInit
  <2>3. news[f].known = 0 /\ news[f].coming = 0
    BY <2>2
  <2> QED BY <2>1, <2>3
<1>5. \A e \in cache : e = [key |-> Present, read |-> 1, list |-> None]
  BY <1>1 DEF BrowserInit
<1>6. CacheOK
  BY <1>1, <1>3, <1>5, NoneIsNoRead, PresentKey DEF CacheOK, EntryOK, Running, ListAsked, BrowserTypeOK
<1>7. WaitOK
  BY <1>1, <1>5 DEF BrowserInit, WaitOK, Running, ListAsked
<1>8. ListIsNotStale
  BY NoneIsNoRead, <1>1 DEF BrowserInit, ListIsNotStale
<1> QED BY <1>3, <1>4, <1>6, <1>7, <1>8 DEF BrowserIInv

-----------------------------------------------------------------------------
(* Asking for a list: what is left of the cache must not be needed newer than before. *)
LEMMA AsksOnce ==
  ASSUME BrowserIInv, NEW c \in SUBSET cache, NEW now, now = Present', ListOnce(now, c),
         server' \in [Folders -> Nat], news' \in [Folders -> [known : Nat, coming : Nat]],
         path' \in Folders, refreshKey' \in Nat, upload' \in Uploads, late' = late,
         KnownOK', refreshKey <= refreshKey', \A e \in c : Needed(e.key)' <= Needed(e.key)
  PROVE  BrowserIInv'
<1> USE DEF BrowserIInv
<1>0. /\ now \in Keys /\ now[1] = refreshKey' /\ now[2] = path' /\ now = Key(refreshKey', path')
      /\ Needed(now)' = news'[path'].known /\ Needed(now)' \in Nat
  BY DEF Present, Key, Keys, Needed
<1>1. /\ \A e \in c : e \in CacheEntries /\ EntryOK(e) /\ Needed(e.key) \in Nat /\ Needed(e.key)' \in Nat
      /\ \A e, d \in c : e.key = d.key => e = d
  BY DEF CacheOK, BrowserTypeOK, Needed, CacheEntries, Keys
<1>2. \A e \in c : e.key[1] \in Nat /\ e.list \in Nat /\ e.key[1] <= refreshKey'
  BY <1>1 DEF CacheEntries, Keys, EntryOK, BrowserTypeOK
<1>3. CASE Cached(c, now) = {}
  <2>1. PICK new \in Reads :
          /\ reads[new].st = "unused" /\ reads' = [reads EXCEPT ![new] = ListAsked(now)]
          /\ cache' = Put(c, [key |-> now, read |-> new, list |-> None])
          /\ awaited' = new /\ UNCHANGED listing
    BY <1>3 DEF ListOnce, Cached
  <2> DEFINE added == [key |-> now, read |-> new, list |-> None]
  <2>2. added \in CacheEntries /\ added.key = now /\ added.read = new
    BY <1>0, <2>1, NoneIsNoRead DEF CacheEntries
  <2> HIDE DEF added
  <2>3. cache' = c \cup {added} /\ \A e \in c : e.key # now
    BY <1>3, <2>1, <2>2 DEF Put, Cached, added
  <2>4. /\ reads' \in [Reads -> ReadRecords] /\ reads'[new].st = "asked" /\ reads'[new].key = now
        /\ \A n \in Reads \ {new} : reads'[n] = reads[n]
    <3>1. ListAsked(now) \in ReadRecords /\ ListAsked(now).st = "asked" /\ ListAsked(now).key = now
      BY <1>0, NoneIsNoRead DEF ListAsked, ReadRecords
    <3> QED BY <2>1, <3>1 DEF BrowserTypeOK
  <2>5. BrowserTypeOK'
    <3>1. \A n \in Reads : reads'[n].key[1] <= refreshKey'
      BY <1>0, <2>4 DEF BrowserTypeOK, ReadRecords, Keys
    <3> QED BY <1>1, <2>1, <2>2, <2>3, <2>4, <3>1 DEF BrowserTypeOK
  <2>6. ASSUME NEW e \in c PROVE EntryOK(e)'
    <3>1. EntryOK(e) /\ e.read \in Reads \cup {None} /\ Needed(e.key)' <= Needed(e.key)
      BY <1>1 DEF CacheEntries
    <3>2. CASE e.read = None
      <4>1. e.key \in late \/ Needed(e.key)' <= e.list
        BY <1>1, <1>2, <3>1, <3>2 DEF EntryOK
      <4> QED BY <1>2, <3>2, <4>1 DEF EntryOK
    <3>3. CASE e.read # None
      <4>1. e.read \in Reads \ {new}
        BY <2>1, <3>1, <3>3 DEF EntryOK, Running
      <4>2. reads'[e.read] = reads[e.read] /\ reads[e.read].list \in Nat
        BY <2>4, <4>1 DEF BrowserTypeOK, ReadRecords
      <4>3. reads[e.read].st = "answered" => Needed(e.key)' <= reads[e.read].list
        BY <1>1, <3>1, <3>3, <4>2 DEF EntryOK
      <4> QED BY <1>2, <3>1, <3>3, <4>2, <4>3 DEF EntryOK, Running
    <3> QED BY <3>2, <3>3
  <2>7. EntryOK(added)'
    BY <1>0, <2>1, <2>2, <2>4, NoneIsNoRead DEF EntryOK, Running
  <2>8. CacheOK'
    BY <1>1, <2>2, <2>3, <2>6, <2>7 DEF CacheOK
  <2>9. WaitOK'
    BY <2>1, <2>2, <2>3, <2>4 DEF WaitOK, Running
  <2>10. ListIsNotStale'
    BY <2>1, NoneIsNoRead DEF ListIsNotStale
  <2> QED BY <2>5, <2>8, <2>9, <2>10
<1>4. CASE Cached(c, now) # {}
  <2>1. PICK e \in Cached(c, now) :
          /\ UNCHANGED reads /\ cache' = c
          /\ IF e.read = None
             THEN listing' = [any |-> TRUE, folder |-> now[2], list |-> e.list] /\ awaited' = None
             ELSE awaited' = e.read /\ UNCHANGED listing
    BY <1>4 DEF ListOnce
  <2>2. e \in c /\ e.key = now /\ e.read \in Reads \cup {None}
    BY <1>1 DEF Cached, CacheEntries
  <2>3. BrowserTypeOK'
    <3>1. \A n \in Reads : reads[n].key[1] <= refreshKey'
      BY DEF BrowserTypeOK, ReadRecords, Keys
    <3> QED BY <1>2, <2>1, <2>2, <3>1 DEF BrowserTypeOK
  <2>4. ASSUME NEW d \in c PROVE EntryOK(d)'
    <3>1. EntryOK(d) /\ Needed(d.key)' <= Needed(d.key) /\ d.read \in Reads \cup {None}
      BY <1>1 DEF CacheEntries
    <3>2. d.read # None => reads[d.read].list \in Nat
      BY <3>1 DEF BrowserTypeOK, ReadRecords
    <3>3. IF d.read = None THEN d.key \in late \/ Needed(d.key)' <= d.list
          ELSE reads[d.read].st = "answered" => Needed(d.key)' <= reads[d.read].list
      BY <1>1, <1>2, <3>1, <3>2 DEF EntryOK
    <3> QED BY <1>2, <2>1, <3>1, <3>3 DEF EntryOK, Running
  <2>5. CacheOK'
    BY <1>1, <2>1, <2>4 DEF CacheOK
  <2>6. WaitOK'
    BY <1>1, <2>1, <2>2, <2>4, NoneIsNoRead DEF WaitOK, EntryOK, Running
  <2>7. ListIsNotStale'
    <3> SUFFICES ASSUME awaited' = None, Key(refreshKey, path)' \notin late
                 PROVE  listing'.folder = path' /\ listing'.list >= news'[path'].known
      BY DEF ListIsNotStale
    <3>1. e.read = None
      BY <2>1, <2>2, NoneIsNoRead
    <3>2. Needed(now)' <= e.list
      BY <1>0, <2>2, <2>4, <3>1 DEF EntryOK
    <3> QED BY <1>0, <1>2, <2>1, <2>2, <3>1, <3>2 DEF BrowserTypeOK
  <2> QED BY <2>3, <2>5, <2>6, <2>7
<1> QED BY <1>3, <1>4

(* Asking again, however it comes about. *)
LEMMA TellsPage ==
  ASSUME BrowserIInv, NEW f \in Folders, Told(f)
  PROVE  BrowserIInv'
<1> USE DEF BrowserIInv
<1> DEFINE now == Key(refreshKey', path)
           known == Latest(news[f].known, news[f].coming)
<1>1. /\ UNCHANGED <<server, path, upload, late>> /\ refreshKey' = refreshKey + 1
      /\ news' = [news EXCEPT ![f] = [known |-> known, coming |-> 0]]
      /\ ListOnce(now, cache)
  BY DEF Told
<1>2. known \in Nat /\ known <= server[f] /\ news[f].known <= known
  BY DEF BrowserTypeOK, KnownOK, Latest
<1> HIDE DEF known
<1>3. news' \in [Folders -> [known : Nat, coming : Nat]] /\ KnownOK'
  BY <1>1, <1>2 DEF BrowserTypeOK, KnownOK
<1>4. \A e \in cache : Needed(e.key)' <= Needed(e.key)
  <2> SUFFICES ASSUME NEW e \in cache PROVE Needed(e.key)' <= Needed(e.key)
    OBVIOUS
  <2>1. e.key[1] \in Nat /\ e.key[2] \in Folders /\ e.key[1] <= refreshKey
    BY DEF BrowserTypeOK, CacheEntries, Keys, CacheOK, EntryOK
  <2> QED BY <1>1, <2>1 DEF Needed, BrowserTypeOK
<1>5. now = Present'
  BY <1>1 DEF Present, Key
<1> QED BY <1>1, <1>3, <1>4, <1>5, AsksOnce DEF BrowserTypeOK

LEMMA OpensFolder ==
  ASSUME BrowserIInv, NEW f \in Folders, NavigateTo(f)
  PROVE  BrowserIInv'
<1> USE DEF BrowserIInv
<1>1. /\ UNCHANGED <<server, news, refreshKey, upload, late>> /\ path' = f
      /\ ListOnce(Key(refreshKey, f), cache)
  BY DEF NavigateTo
<1>2. KnownOK' /\ Key(refreshKey, f) = Present'
  BY <1>1 DEF KnownOK, Present, Key
<1>3. \A e \in cache : Needed(e.key)' <= Needed(e.key)
  BY <1>1 DEF Needed, BrowserTypeOK, CacheEntries, Keys
<1> QED BY <1>1, <1>2, <1>3, AsksOnce DEF BrowserTypeOK

LEMMA AsksAgain ==
  ASSUME BrowserIInv, RefreshClick
  PROVE  BrowserIInv'
<1> USE DEF BrowserIInv
<1>1. /\ UNCHANGED <<server, news, path, refreshKey, upload, late>>
      /\ ListOnce(Present, Invalidated(cache, path))
  BY DEF RefreshClick, Present
<1>2. KnownOK' /\ Present = Present' /\ Invalidated(cache, path) \in SUBSET cache
  BY <1>1 DEF KnownOK, Present, Key, Invalidated
<1>3. \A e \in cache : Needed(e.key)' <= Needed(e.key)
  BY <1>1 DEF Needed, BrowserTypeOK, CacheEntries, Keys
<1> QED BY <1>1, <1>2, <1>3, AsksOnce DEF BrowserTypeOK

LEMMA HearsOfUpload ==
  ASSUME BrowserIInv, Uploaded
  PROVE  BrowserIInv'
<1> USE DEF BrowserIInv
<1> DEFINE f == upload.folder
           left == Invalidated(cache, f)
<1>1. /\ UNCHANGED <<server, path, refreshKey, late>> /\ upload' = NoUpload
      /\ news' = [news EXCEPT ![f].known = server[f]] /\ ListOnce(Present, left)
  BY DEF Uploaded, Present
<1>2. f \in Folders /\ server[f] \in Nat /\ upload' \in Uploads
  BY <1>1, BrowserAssumption DEF BrowserTypeOK, NoUpload, Uploads
<1>3. left \in SUBSET cache /\ \A e \in left : e.key[2] # f
  BY DEF Invalidated
<1> HIDE DEF f, left
<1>4. /\ news' \in [Folders -> [known : Nat, coming : Nat]]
      /\ news'[f].known = server[f] /\ news'[f].coming = news[f].coming
      /\ \A g \in Folders \ {f} : news'[g] = news[g]
  BY <1>1, <1>2 DEF BrowserTypeOK
<1>5. KnownOK' /\ Present = Present'
  BY <1>1, <1>2, <1>4 DEF KnownOK, Present, Key, BrowserTypeOK
<1>6. \A e \in left : Needed(e.key)' <= Needed(e.key)
  BY <1>1, <1>3, <1>4 DEF Needed, BrowserTypeOK, CacheEntries, Keys
<1> QED BY <1>1, <1>2, <1>3, <1>4, <1>5, <1>6, AsksOnce DEF BrowserTypeOK

-----------------------------------------------------------------------------
(* What happens in a folder, or to an upload or a search, leaves the list as it is. *)
LEMMA ListRests ==
  ASSUME BrowserIInv, UNCHANGED <<path, refreshKey, lists, late>>,
         server' \in [Folders -> Nat], news' \in [Folders -> [known : Nat, coming : Nat]],
         upload' \in Uploads, KnownOK',
         \A f \in Folders : news'[f].known = news[f].known
  PROVE  BrowserIInv'
<1> USE DEF BrowserIInv
<1>1. UNCHANGED <<path, refreshKey, reads, cache, awaited, listing, late>>
  BY DEF lists
<1>2. BrowserTypeOK'
  BY <1>1 DEF BrowserTypeOK
<1>3. ASSUME NEW e \in cache PROVE EntryOK(e)'
  <2>1. Needed(e.key)' = Needed(e.key)
    BY <1>1 DEF Needed, BrowserTypeOK, CacheEntries, Keys
  <2> QED BY <1>1, <2>1 DEF CacheOK, EntryOK, Running
<1>4. CacheOK'
  BY <1>1, <1>3 DEF CacheOK
<1>5. WaitOK'
  BY <1>1 DEF WaitOK, Running, Present, Key
<1>6. ListIsNotStale'
  BY <1>1 DEF ListIsNotStale, Key, BrowserTypeOK
<1> QED BY <1>2, <1>4, <1>5, <1>6

LEMMA FolderChanges ==
  ASSUME BrowserIInv, NEW f \in Folders, AgentChanges(f)
  PROVE  BrowserIInv'
<1> USE DEF BrowserIInv
<1>1. /\ UNCHANGED <<path, refreshKey, lists, upload, late>>
      /\ server' = [server EXCEPT ![f] = @ + 1] /\ news' = [news EXCEPT ![f].coming = server'[f]]
  BY DEF AgentChanges
<1>2. /\ server' \in [Folders -> Nat] /\ server'[f] = server[f] + 1
      /\ \A g \in Folders \ {f} : server'[g] = server[g]
  BY <1>1 DEF BrowserTypeOK
<1>3. /\ news' \in [Folders -> [known : Nat, coming : Nat]]
      /\ news'[f].known = news[f].known /\ news'[f].coming = server'[f]
      /\ \A g \in Folders \ {f} : news'[g] = news[g]
  BY <1>1, <1>2 DEF BrowserTypeOK
<1>4. KnownOK'
  BY <1>2, <1>3 DEF KnownOK, BrowserTypeOK
<1> QED BY <1>1, <1>2, <1>3, <1>4, ListRests DEF BrowserTypeOK

LEMMA UploadMoves ==
  ASSUME BrowserIInv, UploadStart \/ ServeUpload \/ UploadFails \/ TypeQuery \/ ClearQuery \/ Search
  PROVE  BrowserIInv'
<1> USE DEF BrowserIInv
<1>1. /\ UNCHANGED <<path, refreshKey, lists, late, news>> /\ upload' \in Uploads
      /\ server' = server \/ server' = [server EXCEPT ![upload.folder] = @ + 1]
  <2>1. UNCHANGED <<path, refreshKey, lists, late, news>>
    BY DEF UploadStart, ServeUpload, UploadFails, TypeQuery, ClearQuery, Search
  <2>2. server' = server \/ server' = [server EXCEPT ![upload.folder] = @ + 1]
    BY DEF UploadStart, ServeUpload, UploadFails, TypeQuery, ClearQuery, Search
  <2>3. UploadStart => upload' = [st |-> "asked", folder |-> path]
    BY DEF UploadStart
  <2>4. ServeUpload => upload' = [upload EXCEPT !.st = "answered"]
    BY DEF ServeUpload
  <2>5. UploadFails => upload' = NoUpload
    BY DEF UploadFails
  <2>6. TypeQuery \/ ClearQuery \/ Search => upload' = upload
    BY DEF TypeQuery, ClearQuery, Search
  <2>7. upload \in Uploads /\ path \in Folders /\ NoUpload \in Uploads
    BY BrowserAssumption DEF BrowserTypeOK, NoUpload, Uploads
  <2>8. upload' \in Uploads
    <3>1. CASE UploadStart
      BY <2>3, <2>7, <3>1 DEF Uploads
    <3>2. CASE ServeUpload
      BY <2>4, <2>7, <3>2 DEF Uploads
    <3>3. CASE UploadFails
      BY <2>5, <2>7, <3>3
    <3>4. CASE TypeQuery \/ ClearQuery \/ Search
      BY <2>6, <2>7, <3>4
    <3> QED BY <3>1, <3>2, <3>3, <3>4
  <2> QED BY <2>1, <2>2, <2>8
<1>2. server' \in [Folders -> Nat] /\ \A f \in Folders : server[f] <= server'[f]
  BY <1>1 DEF BrowserTypeOK, Uploads
<1>3. KnownOK'
  BY <1>1, <1>2 DEF KnownOK, BrowserTypeOK
<1> QED BY <1>1, <1>2, <1>3, ListRests DEF BrowserTypeOK

-----------------------------------------------------------------------------
(* Answers. *)
LEMMA ServesList ==
  ASSUME BrowserIInv, NEW n \in Reads, ServeList(n)
  PROVE  BrowserIInv'
<1> USE DEF BrowserIInv
<1> DEFINE key == reads[n].key
<1>1. /\ UNCHANGED <<server, news, path, refreshKey, cache, awaited, listing, upload, late>>
      /\ reads[n].st = "asked"
      /\ reads' = [reads EXCEPT ![n].st = "answered", ![n].list = server[key[2]]]
  BY DEF ServeList
<1>2. key[2] \in Folders /\ server[key[2]] \in Nat /\ Needed(key) <= server[key[2]]
  BY DEF BrowserTypeOK, ReadRecords, Keys, Needed, KnownOK
<1>3. /\ reads' \in [Reads -> ReadRecords] /\ \A m \in Reads \ {n} : reads'[m] = reads[m]
      /\ reads'[n].st = "answered" /\ reads'[n].key = key /\ reads'[n].list = server[key[2]]
  BY <1>1, <1>2 DEF BrowserTypeOK, ReadRecords
<1>4. \A m \in Reads : Running(m) => Running(m)' /\ reads'[m].key = reads[m].key
  BY <1>3 DEF Running
<1> HIDE DEF key
<1>5. BrowserTypeOK' /\ KnownOK' /\ ListIsNotStale'
  BY <1>1, <1>3 DEF BrowserTypeOK, KnownOK, ListIsNotStale, Key
<1>6. ASSUME NEW e \in cache PROVE EntryOK(e)'
  <2>1. EntryOK(e) /\ Needed(e.key)' = Needed(e.key) /\ e.read \in Reads \cup {None}
    BY <1>1 DEF CacheOK, Needed, BrowserTypeOK, CacheEntries
  <2>2. CASE e.read = None
    BY <1>1, <2>1, <2>2 DEF EntryOK
  <2>3. CASE e.read = n
    BY <1>1, <1>2, <1>3, <1>4, <2>1, <2>3, NoneIsNoRead DEF EntryOK, key
  <2>4. CASE e.read \in Reads \ {n}
    BY <1>1, <1>3, <1>4, <2>1, <2>4, NoneIsNoRead DEF EntryOK
  <2> QED BY <2>1, <2>2, <2>3, <2>4
<1>7. CacheOK'
  BY <1>1, <1>6 DEF CacheOK
<1>8. WaitOK'
  BY <1>1, <1>4 DEF WaitOK, Present, Key, BrowserTypeOK
<1> QED BY <1>5, <1>7, <1>8

(* One request is done: what the cache keeps of the others stands. *)
LEMMA Finishes ==
  ASSUME BrowserIInv, NEW n \in Reads, reads' = [reads EXCEPT ![n].st = "done"],
         UNCHANGED <<news, refreshKey>>, NEW e \in cache, e.read # n, e.key \in late => e.key \in late'
  PROVE  EntryOK(e)'
<1> USE DEF BrowserIInv
<1>1. EntryOK(e) /\ Needed(e.key)' = Needed(e.key) /\ e.read \in Reads \cup {None}
  BY DEF CacheOK, Needed, BrowserTypeOK, CacheEntries
<1>2. \A m \in Reads \ {n} : reads'[m] = reads[m]
  BY DEF BrowserTypeOK
<1> QED BY <1>1, <1>2 DEF EntryOK, Running

LEMMA HearsList ==
  ASSUME BrowserIInv, NEW n \in Reads, Listed(n)
  PROVE  BrowserIInv'
<1> USE DEF BrowserIInv
<1>0. PICK key \in Keys, list \in Nat : key = reads[n].key /\ list = reads[n].list
  BY DEF BrowserTypeOK, ReadRecords
<1> DEFINE timely == \E e \in cache : e.key = key /\ e.read = n
<1>1. /\ UNCHANGED <<server, news, path, refreshKey, upload>> /\ reads[n].st = "answered"
      /\ reads' = [reads EXCEPT ![n].st = "done"]
      /\ cache' = Put(cache, [key |-> key, read |-> None, list |-> list])
      /\ late' = IF timely THEN late \ {key} ELSE late \cup {key}
      /\ IF awaited = n
         THEN awaited' = None /\ listing' = [any |-> TRUE, folder |-> key[2], list |-> list]
         ELSE UNCHANGED <<awaited, listing>>
  BY <1>0 DEF Listed, Cached
<1>2. /\ Needed(key) \in Nat /\ Needed(key)' = Needed(key) /\ key[1] <= refreshKey
      /\ key[1] \in Nat /\ key[2] \in Folders
  BY <1>0, <1>1 DEF BrowserTypeOK, Keys, Needed
<1>3. timely => Needed(key) <= list
  BY <1>0, <1>1, NoneIsNoRead DEF CacheOK, EntryOK
<1>4. /\ \A e \in cache' : (e \in cache /\ e.key # key)
                          \/ e = [key |-> key, read |-> None, list |-> list]
      /\ \A e \in cache : e.key # key => e \in cache'
  BY <1>1 DEF Put, Cached
<1>5. /\ reads' \in [Reads -> ReadRecords] /\ \A m \in Reads \ {n} : reads'[m] = reads[m]
      /\ reads'[n].st = "done" /\ reads'[n].key = key
  BY <1>0, <1>1 DEF BrowserTypeOK, ReadRecords
<1>6. \A k : k # key => (k \in late <=> k \in late')
  BY <1>1
<1>7. (key \in late' \/ Needed(key) <= list) /\ (key \notin late' => timely)
  BY <1>1, <1>3
<1>8. timely => \E e \in cache : e.key = key /\ e.read = n
  OBVIOUS
<1> HIDE DEF timely
<1>9. BrowserTypeOK' /\ KnownOK'
  <2>1. cache' \subseteq CacheEntries
    <3>1. [key |-> key, read |-> None, list |-> list] \in CacheEntries
      BY DEF CacheEntries
    <3> QED BY <1>4, <3>1 DEF BrowserTypeOK
  <2>2. listing'.any => listing'.list \in Nat
    BY <1>1 DEF BrowserTypeOK
  <2>3. awaited' \in Reads \cup {None}
    BY <1>1 DEF BrowserTypeOK
  <2> QED BY <1>1, <1>2, <1>5, <2>1, <2>2, <2>3 DEF BrowserTypeOK, KnownOK
<1>10. ASSUME NEW e \in cache' PROVE EntryOK(e)'
  <2>1. CASE e = [key |-> key, read |-> None, list |-> list]
    BY <1>1, <1>2, <1>7, <2>1 DEF EntryOK
  <2>2. CASE e \in cache /\ e.key # key
    <3>1. e.read # n
      BY <1>0, <2>2, NoneIsNoRead DEF CacheOK, EntryOK
    <3> QED BY <1>1, <1>6, <2>2, <3>1, Finishes
  <2> QED BY <1>4, <2>1, <2>2
<1>11. CacheOK'
  BY <1>4, <1>10 DEF CacheOK
<1>12. WaitOK'
  <2>1. awaited' # None => awaited' = awaited /\ awaited # n
    BY <1>1, NoneIsNoRead
  <2>2. awaited' # None => Running(awaited)' /\ reads'[awaited'].key = Present
    BY <1>5, <2>1 DEF WaitOK, Running, BrowserTypeOK
  <2>3. ASSUME NEW e \in cache', e.key = Present', e.read # None PROVE awaited' = e.read
    <3>1. e \in cache /\ e.key # key /\ e.key = Present
      BY <1>1, <1>4, <2>3 DEF Present, Key
    <3>2. awaited = e.read /\ e.read # n
      BY <1>0, <2>3, <3>1, NoneIsNoRead DEF WaitOK, CacheOK, EntryOK
    <3> QED BY <1>1, <3>2
  <2> QED BY <1>1, <2>2, <2>3 DEF WaitOK, Running, Present, Key
<1>13. ListIsNotStale'
  <2> SUFFICES ASSUME awaited' = None, listing'.any, Present \notin late'
               PROVE  listing'.folder = path /\ listing'.list >= news[path].known
    BY <1>1 DEF ListIsNotStale, Present
  <2>1. CASE awaited = n
    <3>1. key = Present
      BY <1>0, <2>1, NoneIsNoRead DEF WaitOK
    <3> QED BY <1>1, <1>2, <1>7, <2>1, <3>1, PresentKey
  <2>2. CASE awaited # n
    <3>1. key # Present
      BY <1>1, <1>7, <1>8, <2>2, NoneIsNoRead DEF WaitOK
    <3> QED BY <1>1, <1>6, <2>2, <3>1 DEF ListIsNotStale, Present
  <2> QED BY <2>1, <2>2
<1> QED BY <1>9, <1>11, <1>12, <1>13

LEMMA LosesList ==
  ASSUME BrowserIInv, NEW n \in Reads, ListFails(n)
  PROVE  BrowserIInv'
<1> USE DEF BrowserIInv
<1>1. /\ UNCHANGED <<server, news, path, refreshKey, upload, late>> /\ reads[n].st = "asked"
      /\ reads' = [reads EXCEPT ![n].st = "done"]
      /\ cache' = cache \ Cached(cache, reads[n].key)
      /\ \/ awaited = n /\ awaited' = None /\ listing' = NoList
         \/ awaited # n /\ UNCHANGED <<awaited, listing>>
  BY DEF ListFails
<1>2. /\ reads' \in [Reads -> ReadRecords] /\ \A m \in Reads \ {n} : reads'[m] = reads[m]
      /\ reads'[n].key = reads[n].key
  BY <1>1 DEF BrowserTypeOK, ReadRecords
<1>3. cache' \subseteq cache /\ \A e \in cache' : e.read # n
  <2>1. \A e \in cache : e.read = n => e.key = reads[n].key
    BY NoneIsNoRead DEF CacheOK, EntryOK
  <2> QED BY <1>1, <2>1 DEF Cached
<1>4. BrowserTypeOK' /\ KnownOK'
  BY <1>1, <1>2, <1>3 DEF BrowserTypeOK, KnownOK, NoList
<1>5. CacheOK'
  BY <1>1, <1>3, Finishes DEF CacheOK
<1>6. WaitOK'
  BY <1>1, <1>2, <1>3 DEF WaitOK, Running, Present, Key, BrowserTypeOK
<1>7. ListIsNotStale'
  BY <1>1 DEF ListIsNotStale, NoList, Key
<1> QED BY <1>4, <1>5, <1>6, <1>7

-----------------------------------------------------------------------------
LEMMA BrowserStep == BrowserIInv /\ [BrowserNext]_browserVars => BrowserIInv'
<1> SUFFICES ASSUME BrowserIInv, [BrowserNext]_browserVars PROVE BrowserIInv'
  OBVIOUS
<1>1. CASE UNCHANGED browserVars
  BY <1>1, ListRests DEF browserVars, BrowserIInv, BrowserTypeOK, KnownOK
<1>2. CASE \E f \in Folders : AgentChanges(f) \/ Told(f) \/ NavigateTo(f)
  BY <1>2, FolderChanges, TellsPage, OpensFolder
<1>3. CASE RefreshClick \/ Uploaded
  BY <1>3, AsksAgain, HearsOfUpload
<1>4. CASE UploadStart \/ ServeUpload \/ UploadFails \/ TypeQuery \/ ClearQuery \/ Search
  BY <1>4, UploadMoves
<1>5. CASE \E n \in Reads : ServeList(n) \/ Listed(n) \/ ListFails(n)
  BY <1>5, ServesList, HearsList, LosesList
<1> QED BY <1>1, <1>2, <1>3, <1>4, <1>5 DEF BrowserNext

(* The list of a folder that waits for nothing is that of the open folder, and not
   from before a change the page was told of or a file it uploaded: for any
   folders, and any number of changes, requests, uploads and visits
   (listSessionFilesOnce and its cache, workspace-files.tsx). *)
THEOREM ListsAreFresh == BrowserSpec => []ListIsNotStale
<1>1. BrowserIInv => ListIsNotStale
  BY DEF BrowserIInv
<1> QED BY <1>1, BrowserStart, BrowserStep, PTL DEF BrowserSpec
-----------------------------------------------------------------------------
(* The squares of the game add up, on a board of any size, with any pieces of four
   squares: clearing loses and invents no square, and leaves no full row.

   A piece that locks lies free, so it adds four squares.  The squares of the full
   rows are Width for each; those of the other rows keep their columns and move
   down by the full rows below them, which keeps the rows in order (ShiftsInOrder):
   no two come to lie on each other, and each new row is one of the old ones. *)
Pieces == [type : Types, rotation : 0 .. 3, x : Int, y : Int]
Field == (0 .. Width - 1) \X (0 .. Height - 1)
Shift(b, y) == y + Cardinality({f \in FullRows(b) : f > y})

GameTypeOK ==
  /\ board \in SUBSET Field /\ piece \in Pieces /\ next \in Types /\ bag \in SUBSET Types
  /\ lines \in Nat /\ played \in Nat
GameIInv == GameTypeOK /\ SquaresAddUp

LEMMA OneToOne ==
  ASSUME NEW S, NEW T, NEW f \in [S -> T], IsFiniteSet(S),
         \A c, d \in S : f[c] = f[d] => c = d, \A t \in T : \E c \in S : f[c] = t
  PROVE  IsFiniteSet(T) /\ Cardinality(T) = Cardinality(S)
<1>1. f \in Bijection(S, T)
  BY DEF Bijection, Injection, Surjection, IsInjective
<1> QED BY <1>1, FS_Bijection DEF ExistsBijection

LEMMA FieldFacts ==
  ASSUME NEW b \in SUBSET Field
  PROVE  /\ IsFiniteSet(b) /\ Cardinality(b) \in Nat
         /\ FullRows(b) \in SUBSET (0 .. Height - 1) /\ IsFiniteSet(FullRows(b))
         /\ Cardinality(FullRows(b)) \in Nat
<1>0. 0 \in Int /\ Width - 1 \in Int /\ Height - 1 \in Int
  BY GameAssumption
<1>1. IsFiniteSet(0 .. Width - 1) /\ IsFiniteSet(0 .. Height - 1)
  BY <1>0, FS_Interval
<1>2. IsFiniteSet(Field)
  BY <1>1, FS_Product DEF Field
<1> QED BY <1>1, <1>2, FS_Subset, FS_CardinalityType DEF FullRows

LEMMA RowSize ==
  ASSUME NEW b \in SUBSET Field, NEW y \in 0 .. Height - 1
  PROVE  /\ IsFiniteSet(Row(b, y)) /\ Cardinality(Row(b, y)) \in 0 .. Width
         /\ Cardinality(Row(b, y)) = Width => Row(b, y) = (0 .. Width - 1) \X {y}
<1>1. Row(b, y) \in SUBSET ((0 .. Width - 1) \X {y})
  BY DEF Row, Field
<1>2. IsFiniteSet(0 .. Width - 1) /\ Cardinality(0 .. Width - 1) = Width
  <2>1. 0 \in Int /\ Width - 1 \in Int /\ ~(0 > Width - 1) /\ Width - 1 - 0 + 1 = Width
    BY GameAssumption
  <2> QED BY <2>1, FS_Interval
<1>3. IsFiniteSet({y}) /\ Cardinality({y}) = 1
  BY FS_Singleton
<1>4. IsFiniteSet((0 .. Width - 1) \X {y}) /\ Cardinality((0 .. Width - 1) \X {y}) = Width * 1
  BY <1>2, <1>3, FS_Product
<1>5. Width * 1 = Width
  BY GameAssumption
<1> QED BY <1>1, <1>4, <1>5, FS_Subset, FS_CardinalityType

-----------------------------------------------------------------------------
(* The rows above full ones move down, and stay in order. *)
LEMMA Counted ==
  ASSUME NEW a \in Int, NEW z \in Int, NEW S \in SUBSET (a .. z)
  PROVE  IsFiniteSet(S) /\ Cardinality(S) \in Nat /\ (a <= z + 1 => Cardinality(S) <= z - a + 1)
<1>1. IsFiniteSet(a .. z) /\ Cardinality(a .. z) = IF a > z THEN 0 ELSE z - a + 1
  BY FS_Interval
<1>2. IsFiniteSet(S) /\ Cardinality(S) <= Cardinality(a .. z)
  BY <1>1, FS_Subset
<1>3. Cardinality(S) \in Nat
  BY <1>2, FS_CardinalityType
<1> QED BY <1>1, <1>2, <1>3

LEMMA ShiftsDown ==
  ASSUME NEW b \in SUBSET Field, NEW y \in 0 .. Height - 1
  PROVE  Shift(b, y) \in y .. Height - 1
<1> DEFINE above == {f \in FullRows(b) : f > y}
<1>1. above \in SUBSET (y + 1 .. Height - 1)
  BY GameAssumption DEF FullRows
<1>2. y + 1 \in Int /\ Height - 1 \in Int /\ y + 1 <= (Height - 1) + 1
  BY GameAssumption
<1>3. Shift(b, y) = y + Cardinality(above)
  BY DEF Shift
<1> HIDE DEF above
<1>4. Cardinality(above) \in Nat /\ Cardinality(above) <= (Height - 1) - (y + 1) + 1
  BY <1>1, <1>2, Counted
<1> QED BY <1>3, <1>4, GameAssumption

LEMMA ShiftsInOrder ==
  ASSUME NEW b \in SUBSET Field, NEW y \in 0 .. Height - 1, NEW z \in 0 .. Height - 1,
         y < z, z \notin FullRows(b)
  PROVE  Shift(b, y) < Shift(b, z)
<1> DEFINE above == {f \in FullRows(b) : f > z}
           between == {f \in FullRows(b) : y < f /\ f < z}
<1>1. {f \in FullRows(b) : f > y} = above \cup between
  BY GameAssumption DEF FullRows
<1>2. above \in SUBSET (z + 1 .. Height - 1) /\ between \in SUBSET (y + 1 .. z - 1)
  BY GameAssumption DEF FullRows
<1>3. above \cap between = {}
  BY GameAssumption DEF FullRows
<1> HIDE DEF above, between
<1>4. /\ IsFiniteSet(above) /\ Cardinality(above) \in Nat
      /\ IsFiniteSet(between) /\ Cardinality(between) \in Nat /\ Cardinality(between) <= z - y - 1
  <2>1. y + 1 \in Int /\ z - 1 \in Int /\ z + 1 \in Int /\ Height - 1 \in Int /\ y + 1 <= (z - 1) + 1
    BY GameAssumption
  <2>2. IsFiniteSet(above) /\ Cardinality(above) \in Nat
    BY <1>2, <2>1, Counted
  <2>3. /\ IsFiniteSet(between) /\ Cardinality(between) \in Nat
        /\ Cardinality(between) <= (z - 1) - (y + 1) + 1
    BY <1>2, <2>1, Counted
  <2> QED BY <2>1, <2>2, <2>3
<1>5. Cardinality(above \cup between) = Cardinality(above) + Cardinality(between)
  <2>1. Cardinality(above \cup between)
          = Cardinality(above) + Cardinality(between) - Cardinality(above \cap between)
    BY <1>4, FS_Union
  <2>2. Cardinality(above \cap between) = 0
    BY <1>3, FS_EmptySet
  <2> QED BY <1>4, <2>1, <2>2
<1>6. Shift(b, y) = y + (Cardinality(above) + Cardinality(between))
  BY <1>1, <1>5 DEF Shift
<1>7. Shift(b, z) = z + Cardinality(above)
  BY DEF Shift, above
<1> QED BY <1>4, <1>6, <1>7

LEMMA ShiftsApart ==
  ASSUME NEW b \in SUBSET Field, NEW y \in (0 .. Height - 1) \ FullRows(b),
         NEW z \in (0 .. Height - 1) \ FullRows(b), Shift(b, y) = Shift(b, z)
  PROVE  y = z
<1>1. Shift(b, y) \in Int /\ Shift(b, z) \in Int
  BY ShiftsDown, GameAssumption
<1>2. ~(y < z) /\ ~(z < y)
  BY <1>1, ShiftsInOrder
<1> QED BY <1>2

-----------------------------------------------------------------------------
(* Clearing. *)
Kept(b) == {c \in b : c[2] \notin FullRows(b)}

LEMMA Moved ==
  ASSUME NEW b \in SUBSET Field
  PROVE  WithoutFullRows(b) = {<<c[1], Shift(b, c[2])>> : c \in Kept(b)}
BY DEF WithoutFullRows, Kept, Shift

LEMMA KeptSquare ==
  ASSUME NEW b \in SUBSET Field, NEW c \in Kept(b)
  PROVE  /\ c[1] \in 0 .. Width - 1 /\ c[2] \in (0 .. Height - 1) \ FullRows(b)
         /\ c = <<c[1], c[2]>> /\ c \in b
BY DEF Kept, Field

LEMMA ClearingKeeps ==
  ASSUME NEW b \in SUBSET Field
  PROVE  /\ WithoutFullRows(b) \in SUBSET Field
         /\ Cardinality(WithoutFullRows(b)) + Width * Cardinality(FullRows(b)) = Cardinality(b)
<1> DEFINE full == (0 .. Width - 1) \X FullRows(b)
           moved == [c \in Kept(b) |-> <<c[1], Shift(b, c[2])>>]
<1>1. WithoutFullRows(b) \in SUBSET Field
  <2> SUFFICES ASSUME NEW c \in Kept(b) PROVE <<c[1], Shift(b, c[2])>> \in Field
    BY Moved
  <2>1. Shift(b, c[2]) \in 0 .. Height - 1
    BY KeptSquare, ShiftsDown, GameAssumption
  <2> QED BY <2>1, KeptSquare DEF Field
<1>2. IsFiniteSet(b) /\ Kept(b) \in SUBSET b /\ IsFiniteSet(Kept(b))
  BY FieldFacts, FS_Subset DEF Kept
<1>3. Cardinality(WithoutFullRows(b)) = Cardinality(Kept(b))
  <2>1. moved \in [Kept(b) -> WithoutFullRows(b)]
    BY Moved
  <2>2. \A t \in WithoutFullRows(b) : \E c \in Kept(b) : moved[c] = t
    BY Moved
  <2>3. ASSUME NEW c \in Kept(b), NEW d \in Kept(b), moved[c] = moved[d] PROVE c = d
    <3>1. c[1] = d[1] /\ Shift(b, c[2]) = Shift(b, d[2])
      BY <2>3
    <3>2. c[2] = d[2]
      BY <3>1, KeptSquare, ShiftsApart
    <3> QED BY <3>1, <3>2, KeptSquare
  <2> HIDE DEF moved
  <2> QED BY <1>2, <2>1, <2>2, <2>3, OneToOne
<1>4. full \in SUBSET b
  <2> SUFFICES ASSUME NEW x \in 0 .. Width - 1, NEW y \in FullRows(b) PROVE <<x, y>> \in b
    OBVIOUS
  <2>1. Row(b, y) = (0 .. Width - 1) \X {y} /\ Row(b, y) \in SUBSET b
    BY RowSize DEF FullRows, Row
  <2> QED BY <2>1
<1>5. b = Kept(b) \cup full /\ Kept(b) \cap full = {}
  <2>1. \A c \in b : c \in Kept(b) \/ c \in full
    BY DEF Kept, Field
  <2>2. \A c \in full : c \notin Kept(b)
    BY DEF Kept
  <2> QED BY <1>2, <1>4, <2>1, <2>2
<1>6. IsFiniteSet(full) /\ Cardinality(full) = Width * Cardinality(FullRows(b))
  <2>1. 0 \in Int /\ Width - 1 \in Int /\ ~(0 > Width - 1) /\ Width - 1 - 0 + 1 = Width
    BY GameAssumption
  <2>2. IsFiniteSet(0 .. Width - 1) /\ Cardinality(0 .. Width - 1) = Width
    BY <2>1, FS_Interval
  <2> QED BY <2>2, FieldFacts, FS_Product
<1> HIDE DEF full
<1>7. Cardinality(b) = Cardinality(Kept(b)) + Cardinality(full)
  <2>1. Cardinality(Kept(b) \cup full)
          = Cardinality(Kept(b)) + Cardinality(full) - Cardinality(Kept(b) \cap full)
    BY <1>2, <1>6, FS_Union
  <2>2. Cardinality(Kept(b)) \in Nat /\ Cardinality(full) \in Nat
    BY <1>2, <1>6, FS_CardinalityType
  <2>3. Cardinality(Kept(b) \cap full) = 0
    BY <1>5, FS_EmptySet
  <2>4. Cardinality(b) = Cardinality(Kept(b) \cup full)
    BY <1>5
  <2> QED BY <2>1, <2>2, <2>3, <2>4
<1> QED BY <1>1, <1>3, <1>6, <1>7

LEMMA NoRowIsFull ==
  ASSUME NEW b \in SUBSET Field, NEW y \in 0 .. Height - 1
  PROVE  Cardinality(Row(WithoutFullRows(b), y)) < Width
<1>1. CASE Row(WithoutFullRows(b), y) = {}
  BY <1>1, FS_EmptySet, GameAssumption
<1>2. CASE Row(WithoutFullRows(b), y) # {}
  <2>1. PICK c \in Kept(b) : Shift(b, c[2]) = y
    BY <1>2, Moved DEF Row
  <2> DEFINE z == c[2]
             moved == [d \in Row(b, z) |-> <<d[1], y>>]
  <2>2. z \in (0 .. Height - 1) \ FullRows(b)
    BY KeptSquare
  <2>3. \A d \in Row(b, z) : d \in Kept(b) /\ d[2] = z
    BY <2>2 DEF Row, Kept
  <2>4. ASSUME NEW t \in Row(WithoutFullRows(b), y) PROVE \E d \in Row(b, z) : <<d[1], y>> = t
    <3>1. PICK d \in Kept(b) : t = <<d[1], Shift(b, d[2])>>
      BY Moved DEF Row
    <3>2. Shift(b, d[2]) = y
      BY <3>1 DEF Row
    <3>3. d[2] = z
      BY <2>1, <2>2, <3>2, KeptSquare, ShiftsApart
    <3> QED BY <3>1, <3>2, <3>3, KeptSquare DEF Row
  <2>5. ASSUME NEW d \in Row(b, z) PROVE <<d[1], y>> \in Row(WithoutFullRows(b), y)
    <3>1. <<d[1], Shift(b, d[2])>> \in WithoutFullRows(b)
      BY <2>3, Moved
    <3> QED BY <2>1, <2>3, <3>1 DEF Row
  <2>6. moved \in [Row(b, z) -> Row(WithoutFullRows(b), y)]
    BY <2>5
  <2>7. ASSUME NEW d \in Row(b, z), NEW e \in Row(b, z), moved[d] = moved[e] PROVE d = e
    <3>1. d[1] = e[1] /\ d[2] = e[2]
      BY <2>3, <2>7
    <3> QED BY <2>3, <3>1, KeptSquare
  <2>8. \A t \in Row(WithoutFullRows(b), y) : \E d \in Row(b, z) : moved[d] = t
    BY <2>4
  <2> HIDE DEF moved
  <2>9. IsFiniteSet(Row(b, z)) /\ Cardinality(Row(b, z)) \in 0 .. Width /\ Cardinality(Row(b, z)) # Width
    BY <2>2, RowSize DEF FullRows
  <2>10. Cardinality(Row(WithoutFullRows(b), y)) = Cardinality(Row(b, z))
    BY <2>6, <2>7, <2>8, <2>9, OneToOne
  <2> QED BY <2>9, <2>10, GameAssumption
<1> QED BY <1>1, <1>2

-----------------------------------------------------------------------------
(* Pieces. *)
LEMMA FourSquares ==
  ASSUME NEW p \in Pieces
  PROVE  /\ IsFiniteSet(Cells(p)) /\ Cardinality(Cells(p)) = 4
         /\ Cells(p) \in SUBSET (Int \X Int) /\ \E c \in Cells(p) : c[2] >= p.y
<1> DEFINE S == Shapes[p.type][p.rotation]
           f == [c \in S |-> <<p.x + c[1], p.y + c[2]>>]
<1>1. S \in SUBSET (Int \X Nat) /\ IsFiniteSet(S) /\ Cardinality(S) = 4 /\ p.x \in Int /\ p.y \in Int
  BY GameAssumption DEF Pieces
<1>2. Cells(p) = {<<p.x + c[1], p.y + c[2]>> : c \in S}
  BY DEF Cells
<1> HIDE DEF S
<1>3. f \in [S -> Cells(p)] /\ \A t \in Cells(p) : \E c \in S : f[c] = t
  BY <1>2
<1>4. ASSUME NEW c \in S, NEW d \in S, f[c] = f[d] PROVE c = d
  <2>1. c \in Int \X Nat /\ d \in Int \X Nat
    BY <1>1
  <2>2. p.x + c[1] = p.x + d[1] /\ p.y + c[2] = p.y + d[2]
    BY <1>4
  <2>3. c[1] = d[1] /\ c[2] = d[2]
    BY <1>1, <2>1, <2>2
  <2> QED BY <2>1, <2>3
<1> HIDE DEF f
<1>5. IsFiniteSet(Cells(p)) /\ Cardinality(Cells(p)) = Cardinality(S)
  BY <1>1, <1>3, <1>4, OneToOne
<1>6. Cells(p) \in SUBSET (Int \X Int)
  BY <1>1, <1>2
<1>7. \E c \in Cells(p) : c[2] >= p.y
  <2>1. S # {}
    BY <1>1, FS_EmptySet
  <2>2. PICK c \in S : c \in Int \X Nat
    BY <1>1, <2>1
  <2>3. p.y + c[2] >= p.y /\ <<p.x + c[1], p.y + c[2]>> \in Cells(p)
    BY <1>1, <1>2, <2>2
  <2> DEFINE d == <<p.x + c[1], p.y + c[2]>>
  <2>4. d \in Cells(p) /\ d[2] >= p.y
    BY <2>3
  <2> QED BY <2>4
<1> QED BY <1>1, <1>5, <1>6, <1>7

LEMMA Lowers ==
  ASSUME NEW p \in Pieces, NEW n \in Int
  PROVE  Lower(p, n) \in Pieces /\ Lower(p, n).y = p.y + n
BY DEF Lower, Pieces

(* A piece that falls comes to lie free. *)
LEMMA FallsFree ==
  ASSUME NEW b, NEW p \in Pieces, CanPlace(b, p)
  PROVE  Fall(b, p) \in 0 .. Height - p.y /\ CanPlace(b, Lower(p, Fall(b, p)))
<1> DEFINE low == {n \in Nat : ~CanPlace(b, Lower(p, n))}
           Rests(n) == /\ CanPlace(b, Lower(p, n)) /\ ~CanPlace(b, Lower(p, n + 1))
                       /\ \A m \in 0 .. n : CanPlace(b, Lower(p, m))
<1>1. p.y \in Int /\ Height \in Nat /\ Lower(p, 0) = p
  BY GameAssumption DEF Pieces, Lower
<1>2. ASSUME NEW n \in Nat, p.y + n >= Height PROVE ~CanPlace(b, Lower(p, n))
  <2>0. Lower(p, n) \in Pieces /\ Lower(p, n).y = p.y + n
    BY Lowers
  <2>1. PICK c \in Cells(Lower(p, n)) : c[2] >= p.y + n
    BY <2>0, FourSquares
  <2>2. c[2] \in Int
    BY <2>0, FourSquares
  <2> QED BY <1>1, <1>2, <2>1, <2>2 DEF CanPlace
<1>3. p.y < Height
  BY <1>1, <1>2
<1>4. Height - p.y \in Nat /\ Height - p.y \in low
  BY <1>1, <1>2, <1>3
<1>5. PICK least \in low : \A n \in low : least <= n
  BY <1>4, LeastExists
<1>6. least \in Nat /\ least # 0 /\ least <= Height - p.y
  BY <1>1, <1>4, <1>5
<1>7. \A m \in Nat : m < least => CanPlace(b, Lower(p, m))
  BY <1>5, <1>6
<1>8. least - 1 \in 0 .. Height - p.y /\ Rests(least - 1)
  BY <1>1, <1>5, <1>6, <1>7
<1>9. Fall(b, p) = CHOOSE n \in 0 .. Height - p.y : Rests(n)
  BY DEF Fall
<1> QED BY <1>8, <1>9

-----------------------------------------------------------------------------
(* The steps.  Locking: either the piece is above the board and the game over, or it
   adds its four squares and the full rows go. *)
LEMMA Locks ==
  ASSUME GameIInv, NEW p \in Pieces, CanPlace(board, p), Lock(p)
  PROVE  GameIInv'
<1> USE DEF GameIInv
<1>1. CASE \E c \in Cells(p) : c[2] < 0
  <2>1. gameStatus' = "game-over" /\ piece' = p /\ UNCHANGED <<board, next, bag, lines, played>>
    BY <1>1 DEF Lock
  <2> QED BY <2>1 DEF GameTypeOK, SquaresAddUp, Row
<1>2. CASE \A c \in Cells(p) : ~(c[2] < 0)
  <2> DEFINE filled == board \cup Cells(p)
  <2>1. /\ board' = WithoutFullRows(filled) /\ lines' = lines + Cardinality(FullRows(filled))
        /\ piece' = Spawn(next) /\ played' = played + 1
        /\ next' \in Drawn(bag) /\ bag' = Drawn(bag) \ {next'}
        /\ gameStatus' = IF CanPlace(board', piece') THEN "playing" ELSE "game-over"
    BY <1>2 DEF Lock
  <2>2. Cells(p) \in SUBSET Field /\ Cells(p) \cap board = {}
    <3> SUFFICES ASSUME NEW c \in Cells(p) PROVE c \in Field /\ c \notin board
      OBVIOUS
    <3>1. c \in Int \X Int
      BY FourSquares
    <3>2. c[1] \in 0 .. Width - 1 /\ c[2] < Height /\ c[2] >= 0 /\ c \notin board
      BY <1>2, <3>1 DEF CanPlace
    <3>3. c[2] \in 0 .. Height - 1
      BY <3>1, <3>2, GameAssumption
    <3> QED BY <3>1, <3>2, <3>3 DEF Field
  <2>3. board \in SUBSET Field /\ filled \in SUBSET Field
    BY <2>2 DEF GameTypeOK
  <2>4. Cardinality(filled) = Cardinality(board) + 4
    <3>1. Cardinality(board \cup Cells(p))
            = Cardinality(board) + Cardinality(Cells(p)) - Cardinality(board \cap Cells(p))
      BY <2>3, FieldFacts, FourSquares, FS_Union
    <3>2. board \cap Cells(p) = {} /\ Cardinality(board) \in Nat
      BY <2>2, <2>3, FieldFacts
    <3>3. Cardinality(board \cap Cells(p)) = 0 /\ Cardinality(Cells(p)) = 4
      BY <3>2, FourSquares, FS_EmptySet
    <3> QED BY <3>1, <3>2, <3>3
  <2> HIDE DEF filled
  <2>5. /\ board' \in SUBSET Field
        /\ Cardinality(board') + Width * Cardinality(FullRows(filled)) = Cardinality(board) + 4
    BY <2>1, <2>3, <2>4, ClearingKeeps
  <2>6. Cardinality(board') \in Nat /\ Cardinality(FullRows(filled)) \in Nat /\ Cardinality(board) \in Nat
    BY <2>3, <2>5, FieldFacts
  <2>7. GameTypeOK'
    <3>1. Drawn(bag) \in SUBSET Types
      BY DEF Drawn, GameTypeOK
    <3>2. Spawn(next) \in Pieces
      BY DEF Spawn, Pieces, GameTypeOK
    <3> QED BY <2>1, <2>5, <2>6, <3>1, <3>2 DEF GameTypeOK
  <2>8. Cardinality(board') + Width * lines' = 4 * played'
    <3>1. Width * lines' = Width * lines + Width * Cardinality(FullRows(filled))
      BY <2>1, <2>6, GameAssumption DEF GameTypeOK
    <3>2. Cardinality(board) + Width * lines = 4 * played
      BY DEF SquaresAddUp
    <3>3. 4 * played' = 4 * played + 4
      BY <2>1 DEF GameTypeOK
    <3>4. Width * lines \in Nat /\ Width * Cardinality(FullRows(filled)) \in Nat /\ 4 * played \in Nat
      BY <2>6, GameAssumption DEF GameTypeOK
    <3> QED BY <2>5, <2>6, <3>1, <3>2, <3>3, <3>4
  <2>9. \A c \in board' : c[1] \in 0 .. Width - 1 /\ c[2] \in 0 .. Height - 1
    BY <2>5 DEF Field
  <2>10. \A y \in 0 .. Height - 1 : Cardinality(Row(board', y)) < Width
    BY <2>1, <2>3, NoRowIsFull
  <2>11. gameStatus' # "game-over" => CanPlace(board', piece')
    BY <2>1
  <2> QED BY <2>7, <2>8, <2>9, <2>10, <2>11 DEF SquaresAddUp, Row, CanPlace, Cells
<1> QED BY <1>1, <1>2

(* A new game. *)
LEMMA Begins ==
  ASSUME NEW first \in Types
  PROVE  /\ Spawn(first) \in Pieces /\ CanPlace({}, Spawn(first))
         /\ Cardinality({}) = 0 /\ \A y \in 0 .. Height - 1 : Cardinality(Row({}, y)) < Width
         /\ Cardinality({}) + Width * 0 = 4 * 0
<1>1. \A y \in 0 .. Height - 1 : Row({}, y) = {}
  BY DEF Row
<1>2. Cardinality({}) = 0
  BY FS_EmptySet
<1>3. Spawn(first) \in Pieces /\ CanPlace({}, Spawn(first))
  BY GameAssumption DEF Spawn, Pieces
<1>4. 0 < Width /\ 0 + Width * 0 = 4 * 0
  BY GameAssumption
<1> QED BY <1>1, <1>2, <1>3, <1>4

LEMMA GameStart == GameInit => GameIInv
<1> SUFFICES ASSUME GameInit PROVE GameIInv
  OBVIOUS
<1>1. PICK first \in Types : \E second \in Types \ {first} :
        piece = Spawn(first) /\ next = second /\ bag = Types \ {first, second}
  BY DEF GameInit
<1>2. board = {} /\ lines = 0 /\ played = 0
  BY DEF GameInit
<1>3. GameTypeOK
  BY <1>1, <1>2, Begins DEF GameTypeOK
<1>4. SquaresAddUp
  BY <1>1, <1>2, Begins DEF SquaresAddUp
<1> QED BY <1>3, <1>4 DEF GameIInv

LEMMA Restarts ==
  ASSUME Restart
  PROVE  GameIInv'
<1>1. PICK first \in Types : \E second \in Types \ {first} :
        piece' = Spawn(first) /\ next' = second /\ bag' = Types \ {first, second}
  BY DEF Restart, Fresh
<1>2. board' = {} /\ lines' = 0 /\ played' = 0
  BY DEF Restart
<1>3. GameTypeOK'
  BY <1>1, <1>2, Begins DEF GameTypeOK
<1>4. CanPlace(board', piece')
  BY <1>1, <1>2, Begins
<1>5. SquaresAddUp'
  BY <1>1, <1>2, <1>4, Begins DEF SquaresAddUp, Row, CanPlace, Cells
<1> QED BY <1>3, <1>5 DEF GameIInv

LEMMA PlacesPiece ==
  ASSUME GameIInv, NEW p \in Pieces, CanPlace(board, p), piece' = p,
         UNCHANGED <<board, next, bag, lines, played>>
  PROVE  GameIInv'
BY DEF GameIInv, GameTypeOK, SquaresAddUp, Row, CanPlace, Cells

LEMMA PieceTurns ==
  ASSUME GameIInv, NEW direction \in {-1, 1}, Rotate(direction)
  PROVE  GameIInv'
<1> DEFINE to == (piece.rotation + direction) % 4
           kicks == Kicks[piece.type][<<piece.rotation, to>>]
           Turned(k) == [piece EXCEPT !.rotation = to, !.x = @ + k[1], !.y = @ + k[2]]
<1>1. PICK i \in DOMAIN kicks : Placed(Turned(kicks[i]))
  BY DEF Rotate
<1>2. piece \in Pieces /\ piece.type \in Types /\ piece.rotation \in 0 .. 3
  BY DEF GameIInv, GameTypeOK, Pieces
<1>3. to \in 0 .. 3 /\ kicks \in Seq(Int \X Int)
  <2>1. kicks \in Seq(Int \X Int)
    BY <1>2, GameAssumption
  <2>2. to \in 0 .. 3
    BY <1>2
  <2> QED BY <2>1, <2>2
<1> HIDE DEF to, kicks
<1>4. kicks[i] \in Int \X Int
  BY <1>1, <1>3
<1>5. Turned(kicks[i]) \in Pieces
  <2>1. PICK dx \in Int, dy \in Int : kicks[i] = <<dx, dy>>
    BY <1>4
  <2>2. Turned(kicks[i]) = [piece EXCEPT !.rotation = to, !.x = @ + dx, !.y = @ + dy]
    BY <2>1
  <2> HIDE DEF Turned
  <2>3. ASSUME NEW p, p = [piece EXCEPT !.rotation = to, !.x = @ + dx, !.y = @ + dy]
        PROVE  p \in Pieces
    <3>1. piece.x + dx \in Int /\ piece.y + dy \in Int
      BY <1>2 DEF Pieces
    <3>2. p = [type |-> piece.type, rotation |-> to, x |-> piece.x + dx, y |-> piece.y + dy]
      BY <1>2, <2>3 DEF Pieces
    <3> QED BY <1>2, <1>3, <3>1, <3>2 DEF Pieces
  <2> QED BY <2>2, <2>3
<1> HIDE DEF Turned
<1> QED BY <1>1, <1>5, PlacesPiece DEF Placed

LEMMA GameStep == GameIInv /\ [GameNext]_gameVars => GameIInv'
<1> SUFFICES ASSUME GameIInv, [GameNext]_gameVars PROVE GameIInv'
  OBVIOUS
<1>0. piece \in Pieces /\ (gameStatus # "game-over" => CanPlace(board, piece))
  BY DEF GameIInv, GameTypeOK, SquaresAddUp
<1>1. CASE Descend
  <2>1. CASE CanPlace(board, Lower(piece, 1))
    BY <1>0, <1>1, <2>1, Lowers, PlacesPiece DEF Descend
  <2>2. CASE ~CanPlace(board, Lower(piece, 1))
    BY <1>0, <1>1, <2>2, Locks DEF Descend
  <2> QED BY <2>1, <2>2
<1>2. CASE HardDrop
  <2>1. CanPlace(board, piece) /\ Lock(Lower(piece, Fall(board, piece)))
    BY <1>0, <1>2 DEF HardDrop
  <2>2. Fall(board, piece) \in Int /\ CanPlace(board, Lower(piece, Fall(board, piece)))
    <3>1. Fall(board, piece) \in 0 .. Height - piece.y
      BY <1>0, <2>1, FallsFree
    <3> QED BY <1>0, <2>1, <3>1, FallsFree, GameAssumption
  <2> QED BY <1>0, <2>1, <2>2, Lowers, Locks
<1>3. CASE \E dx \in {-1, 1} : MoveSideways(dx)
  <2>1. PICK dx \in {-1, 1} : Placed([piece EXCEPT !.x = @ + dx])
    BY <1>3 DEF MoveSideways
  <2>2. [piece EXCEPT !.x = @ + dx] \in Pieces
    BY <1>0 DEF Pieces
  <2> QED BY <2>1, <2>2, PlacesPiece DEF Placed
<1>4. CASE \E dx \in {-1, 1} : Rotate(dx)
  BY <1>4, PieceTurns
<1>5. CASE TogglePause \/ PageLeft \/ PanelLeft \/ PanelShown \/ UNCHANGED gameVars
  <2>1. /\ UNCHANGED <<board, piece, next, bag, lines, played>>
        /\ gameStatus' # "game-over" => gameStatus # "game-over"
    BY <1>5 DEF TogglePause, PageLeft, PanelLeft, PanelShown, SetStatus, gameVars
  <2> QED BY <2>1 DEF GameIInv, GameTypeOK, SquaresAddUp, Row, CanPlace, Cells
<1>6. CASE Restart
  BY <1>6, Restarts
<1> QED BY <1>1, <1>2, <1>3, <1>4, <1>5, <1>6 DEF GameNext

(* In every game the squares add up: what the pieces brought is on the board or in
   a cleared row, no full row stays, and the piece that falls lies free
   (lockPiece, hardDrop and rotateActive, blocks-game.ts). *)
THEOREM SquaresAreKept == GameSpec => []SquaresAddUp
<1>1. GameIInv => SquaresAddUp
  BY DEF GameIInv
<1> QED BY <1>1, GameStart, GameStep, PTL DEF GameSpec
==============================================================================
