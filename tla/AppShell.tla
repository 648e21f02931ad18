------------------------------ MODULE AppShell ------------------------------
(* The service worker that keeps the page usable without the server
   (service-worker.js).  A build is an HTML shell and the assets it names.
   The worker keeps the shell it saw last, after every asset of it, and
   answers a navigation from it when the server does not.  Builds are
   deployed, requests are answered late or not at all, the worker is
   stopped and started. *)
EXTENDS Naturals, FiniteSets

CONSTANTS
  MaxBuild,  \* bound: how many builds are deployed
  Requests,  \* names of requests for the shell that may be under way at once
  AssetsOf(_), \* the assets a build's shell names
  ShellBounds     \* bound: how often something happens, by kind

VARIABLES
  deployed,  \* the build the server serves
  shell,     \* the build whose shell is cached, 0 for none
  assets,    \* the cached assets
  fetches,   \* per request for the shell, how far it is
  version,   \* appShellRequestVersion
  opened,    \* the build a page was opened with, and what it could not load
  shellSpent

shellVars == <<deployed, shell, assets, fetches, version, opened, shellSpent>>

NoFetch == [at |-> "idle", build |-> 0, version |-> 0, missing |-> {}]
ShellInit == /\ deployed = 1 /\ shell = 0 /\ assets = {} /\ version = 0
        /\ fetches = [r \in Requests |-> NoFetch]
        /\ opened = [build |-> 0, missing |-> {}]
        /\ shellSpent = [kind \in DOMAIN ShellBounds |-> 0]

ShellSpends(kind) ==
  shellSpent[kind] < ShellBounds[kind] /\ shellSpent' = [shellSpent EXCEPT ![kind] = @ + 1]
Set(r, fetch) == fetches' = [fetches EXCEPT ![r] = fetch]

(* A new build; the server keeps no asset of the old one. *)
Deploy == /\ deployed < MaxBuild /\ deployed' = deployed + 1
          /\ UNCHANGED <<shell, assets, fetches, version, opened, shellSpent>>

(* The worker is installed or starts: it asks for the shell, and takes its
   number before the answer. *)
Precache(r) ==
  /\ fetches[r].at = "idle" /\ ShellSpends("ask") /\ version' = version + 1
  /\ Set(r, [NoFetch EXCEPT !.at = "asked", !.version = version'])
  /\ UNCHANGED <<deployed, shell, assets, opened>>
Navigate(r) ==
  /\ fetches[r].at = "idle" /\ ShellSpends("ask") /\ Set(r, [NoFetch EXCEPT !.at = "asked"])
  /\ UNCHANGED <<deployed, shell, assets, version, opened>>

(* The server answers. *)
Serve(r) ==
  /\ fetches[r].at = "asked" /\ Set(r, [fetches[r] EXCEPT !.at = "answered", !.build = deployed])
  /\ UNCHANGED <<deployed, shell, assets, version, opened, shellSpent>>

(* The answer is heard: a navigation takes its number only now, and the page
   is opened with it.  What the shell names and is not cached is asked for. *)
Heard(r) ==
  LET f == fetches[r]
      number == IF f.version = 0 THEN version + 1 ELSE f.version
  IN  /\ f.at = "answered" /\ version' = IF f.version = 0 THEN number ELSE version
      /\ Set(r, [f EXCEPT !.at = "assets", !.version = number, !.missing = AssetsOf(f.build) \ assets])
      /\ opened' = IF f.version = 0 THEN [build |-> f.build, missing |-> {}] ELSE opened
      /\ UNCHANGED <<deployed, shell, assets, shellSpent>>

(* No answer: the cached shell is opened, with its assets from the cache, or
   nothing.  Without the server, the page is what the caches hold. *)
Offline(r) ==
  /\ fetches[r].at = "asked" /\ ShellSpends("offline") /\ Set(r, NoFetch)
  /\ opened' = IF fetches[r].version = 0 /\ shell # 0
               THEN [build |-> shell, missing |-> AssetsOf(shell) \ assets] ELSE opened
  /\ UNCHANGED <<deployed, shell, assets, version>>

(* cacheAppShellAssets: each missing asset is cached if the server has it, else
   the shell is left as it was; what is cached stays. *)
CacheAsset(r, asset) ==
  LET f == fetches[r]
  IN  /\ f.at = "assets" /\ asset \in f.missing
      /\ IF asset \in AssetsOf(deployed)
         THEN assets' = assets \cup {asset} /\ Set(r, [f EXCEPT !.missing = @ \ {asset}])
         ELSE Set(r, NoFetch) /\ UNCHANGED assets
      /\ UNCHANGED <<deployed, shell, version, opened, shellSpent>>
AssetLost(r) ==
  /\ fetches[r].at = "assets" /\ fetches[r].missing # {} /\ ShellSpends("offline") /\ Set(r, NoFetch)
  /\ UNCHANGED <<deployed, shell, assets, version, opened>>

(* Mutant: the shell is put before its assets. *)
PutShellEarly(r) ==
  LET f == fetches[r]
  IN  /\ f.at = "assets" /\ shell' = IF f.version = version THEN f.build ELSE shell
      /\ Set(r, NoFetch)
      /\ UNCHANGED <<deployed, assets, version, opened, shellSpent>>

(* Every asset is there: the shell is put, unless a newer request began. *)
PutShell(r) ==
  LET f == fetches[r]
  IN  /\ f.at = "assets" /\ f.missing = {} /\ Set(r, NoFetch)
      /\ shell' = IF f.version = version THEN f.build ELSE shell
      /\ UNCHANGED <<deployed, assets, version, opened, shellSpent>>

(* cacheFirst: an asset a page asks for. *)
PageAsset(asset) ==
  /\ opened.build # 0 /\ asset \in AssetsOf(opened.build) \ assets
  /\ asset \in AssetsOf(deployed) /\ assets' = assets \cup {asset}
  /\ UNCHANGED <<deployed, shell, fetches, version, opened, shellSpent>>

(* The browser stops the worker: what it was doing and its counter are gone,
   the caches stay. *)
Stop == /\ ShellSpends("stop") /\ version' = 0 /\ fetches' = [r \in Requests |-> NoFetch]
        /\ UNCHANGED <<deployed, shell, assets, opened>>

ShellNext ==
  \/ Deploy \/ Stop
  \/ \E r \in Requests :
       \/ Precache(r) \/ Navigate(r) \/ Serve(r) \/ Heard(r) \/ Offline(r) \/ AssetLost(r) \/ PutShell(r)
       \/ \E asset \in AssetsOf(deployed) \cup fetches[r].missing : CacheAsset(r, asset)
  \/ \E asset \in AssetsOf(deployed) : PageAsset(asset)

ShellSpec == ShellInit /\ [][ShellNext]_shellVars

-----------------------------------------------------------------------------
(* The cached shell is complete: without the server the page opens whole, of
   one build, whatever update failed or was cut short. *)
OfflineShellIsWhole ==
  /\ shell # 0 => AssetsOf(shell) \subseteq assets
  /\ opened.missing = {}
=============================================================================
