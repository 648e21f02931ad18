---------------------------- MODULE FileBrowser -----------------------------
(* The list of a session's workspace files (workspace-files.tsx): the
   folder that is open, the search in it, the list's cache that shares
   requests under way, and what makes the list be read anew: an event of
   the agent, the refresh button, an upload.  What a folder holds is the
   number of the changes made in it. *)
EXTENDS Naturals

CONSTANTS
  Folders,   \* the workspace's folders
  Root,      \* the one that is open at first
  MaxReads,  \* bound: how many requests for a list are made
  BrowserBounds     \* bound: how often something else happens, by kind

None == 0
Reads == 1 .. MaxReads

ASSUME BrowserAssumption == Root \in Folders /\ MaxReads \in Nat \ {0}

VARIABLES
  server,    \* what each folder holds
  news,      \* changes the page was told of, and those whose event is under way
  path,      \* the open folder
  refreshKey, \* counts what made the list be read anew
  reads,     \* the requests: key, progress and answer
  cache,     \* per key, the answer or the request under way
  awaited,   \* the request the list waits for
  listing,   \* the list that is shown: of which folder and how new
  upload,    \* an upload's folder and progress
  search,    \* the search: its request, and the folder its results are of
  late,      \* keys an invalidated request's answer was cached for since
  browserSpent

lists == <<reads, cache, awaited, listing>>
browserVars == <<server, news, path, refreshKey, lists, upload, search, late, browserSpent>>
NoRead == [st |-> "unused", key |-> <<0, Root>>, list |-> None]
ListAsked(key) == [st |-> "asked", key |-> key, list |-> None]
NoList == [any |-> FALSE, folder |-> Root, list |-> None]
NoUpload == [st |-> "idle", folder |-> Root]
NoSearch == [query |-> FALSE, st |-> "idle", folder |-> Root]

SpendBrowse(kind) == /\ browserSpent[kind] < BrowserBounds[kind]
                     /\ browserSpent' = [browserSpent EXCEPT ![kind] = @ + 1]

(* workspaceFileListCacheKey *)
Key(r, p) == <<r, p>>
Cached(c, key) == {e \in c : e.key = key}
Put(c, entry) == (c \ Cached(c, entry.key)) \cup {entry}

(* listSessionFilesOnce: the cached answer, the request under way, or a new one. *)
ListOnce(key, c) ==
  \/ /\ Cached(c, key) = {} /\ \E n \in Reads : reads[n].st = "unused"
     /\ LET new == CHOOSE n \in Reads : reads[n].st = "unused"
        IN  /\ reads' = [reads EXCEPT ![new] = ListAsked(key)]
            /\ cache' = Put(c, [key |-> key, read |-> new, list |-> None])
            /\ awaited' = new /\ UNCHANGED listing
  \/ \E e \in Cached(c, key) :
       /\ UNCHANGED reads /\ cache' = c
       /\ IF e.read = None
          THEN listing' = [any |-> TRUE, folder |-> key[2], list |-> e.list] /\ awaited' = None
          ELSE awaited' = e.read /\ UNCHANGED listing

(* invalidateWorkspaceFileListCache: every key of the folder. *)
Invalidated(c, folder) == {e \in c : e.key[2] # folder}

(* The search effect: without a query nothing, else the search starts anew. *)
Researched(s, folder) ==
  IF s.query THEN [s EXCEPT !.st = "timer", !.folder = folder] ELSE NoSearch

BrowserInit ==
  /\ server = [f \in Folders |-> 0] /\ news = [f \in Folders |-> [known |-> 0, coming |-> 0]]
  /\ path = Root /\ refreshKey = 0 /\ late = {}
  /\ reads = [n \in Reads |-> IF n = 1 THEN ListAsked(Key(0, Root)) ELSE NoRead]
  /\ cache = {[key |-> Key(0, Root), read |-> 1, list |-> None]} /\ awaited = 1
  /\ listing = NoList /\ upload = NoUpload /\ search = NoSearch
  /\ browserSpent = [kind \in DOMAIN BrowserBounds |-> 0]

-----------------------------------------------------------------------------
Latest(m, n) == IF m < n THEN n ELSE m

(* The agent changes a file; the event that says so comes later, and refreshes
   the list (shouldRefreshWorkspaceFilesForEvent). *)
AgentChanges(f) ==
  /\ SpendBrowse("change") /\ server' = [server EXCEPT ![f] = @ + 1]
  /\ news' = [news EXCEPT ![f].coming = server'[f]]
  /\ UNCHANGED <<path, refreshKey, lists, upload, search, late>>
Told(f) ==
  /\ news[f].coming # 0 /\ refreshKey' = refreshKey + 1
  /\ news' = [news EXCEPT ![f] = [known |-> Latest(@.known, @.coming), coming |-> 0]]
  /\ ListOnce(Key(refreshKey', path), cache) /\ search' = Researched(search, path)
  /\ UNCHANGED <<server, path, upload, late, browserSpent>>

(* navigateToDirectory, from an entry or the buttons above the list. *)
NavigateTo(f) ==
  /\ f # path /\ SpendBrowse("navigate") /\ path' = f /\ search' = NoSearch
  /\ ListOnce(Key(refreshKey, f), cache)
  /\ UNCHANGED <<server, news, refreshKey, upload, late>>

(* The refresh button, that waits for the list and the search. *)
RefreshClick ==
  /\ awaited = None /\ search.st # "asked" /\ upload = NoUpload /\ SpendBrowse("refresh")
  /\ ListOnce(Key(refreshKey, path), Invalidated(cache, path)) /\ search' = Researched(search, path)
  /\ UNCHANGED <<server, news, path, refreshKey, upload, late>>

(* handleUpload: into the folder that was open when it began. *)
UploadStart ==
  /\ awaited = None /\ upload = NoUpload /\ SpendBrowse("upload")
  /\ upload' = [st |-> "asked", folder |-> path]
  /\ UNCHANGED <<server, news, path, refreshKey, lists, search, late>>
ServeUpload ==
  /\ upload.st = "asked" /\ server' = [server EXCEPT ![upload.folder] = @ + 1]
  /\ upload' = [upload EXCEPT !.st = "answered"]
  /\ UNCHANGED <<news, path, refreshKey, lists, search, late, browserSpent>>

UploadFails ==
  /\ upload.st = "asked" /\ SpendBrowse("lost") /\ upload' = NoUpload
  /\ UNCHANGED <<server, news, path, refreshKey, lists, search, late>>

(* Mutant: the cached list outlives the upload. *)
UploadedKeepsCache ==
  /\ upload.st = "answered" /\ upload' = NoUpload /\ search' = NoSearch
  /\ news' = [news EXCEPT ![upload.folder].known = server[upload.folder]]
  /\ ListOnce(Key(refreshKey, path), cache)
  /\ UNCHANGED <<server, path, refreshKey, late, browserSpent>>

Uploaded ==
  /\ upload.st = "answered" /\ upload' = NoUpload /\ search' = NoSearch
  /\ news' = [news EXCEPT ![upload.folder].known = server[upload.folder]]
  /\ ListOnce(Key(refreshKey, path), Invalidated(cache, upload.folder))
  /\ UNCHANGED <<server, path, refreshKey, late, browserSpent>>

-----------------------------------------------------------------------------
ServeList(n) ==
  /\ reads[n].st = "asked"
  /\ reads' = [reads EXCEPT ![n].st = "answered", ![n].list = server[reads[n].key[2]]]
  /\ UNCHANGED <<server, news, path, refreshKey, cache, awaited, listing, upload, search, late,
                 browserSpent>>

(* The answer is cached, whoever waits for it; the list takes it if it still does. *)
Listed(n) ==
  LET r == reads[n]
      now == Cached(cache, r.key)
  IN  /\ r.st = "answered" /\ reads' = [reads EXCEPT ![n].st = "done"]
      /\ cache' = Put(cache, [key |-> r.key, read |-> None, list |-> r.list])
      /\ late' = IF \E e \in now : e.read = n THEN late \ {r.key} ELSE late \cup {r.key}
      /\ IF awaited = n
         THEN awaited' = None /\ listing' = [any |-> TRUE, folder |-> r.key[2], list |-> r.list]
         ELSE UNCHANGED <<awaited, listing>>
      /\ UNCHANGED <<server, news, path, refreshKey, upload, search, browserSpent>>

(* A failed request leaves no list and no entry in the cache, not even a newer one's. *)
ListFails(n) ==
  /\ reads[n].st = "asked" /\ SpendBrowse("lost") /\ reads' = [reads EXCEPT ![n].st = "done"]
  /\ cache' = cache \ Cached(cache, reads[n].key)
  /\ IF awaited = n THEN awaited' = None /\ listing' = NoList
                 ELSE UNCHANGED <<awaited, listing>>
  /\ UNCHANGED <<server, news, path, refreshKey, upload, search, late>>

(* The search runs when typing pauses; a newer query or folder cancels it. *)
TypeQuery == /\ ~search.query /\ SpendBrowse("search")
             /\ search' = [query |-> TRUE, st |-> "timer", folder |-> path]
             /\ UNCHANGED <<server, news, path, refreshKey, lists, upload, late>>
ClearQuery == /\ search.query /\ search' = NoSearch
              /\ UNCHANGED <<server, news, path, refreshKey, lists, upload, late, browserSpent>>
Search == /\ search' = CASE search.st = "timer" -> [search EXCEPT !.st = "asked"]
                         [] search.st = "asked" -> [search EXCEPT !.st = "idle"]
                         [] OTHER -> search
          /\ search.st # "idle"
          /\ UNCHANGED <<server, news, path, refreshKey, lists, upload, late, browserSpent>>

BrowserNext ==
  \/ \E f \in Folders : AgentChanges(f) \/ Told(f) \/ NavigateTo(f)
  \/ RefreshClick \/ UploadStart \/ ServeUpload \/ UploadFails \/ Uploaded
  \/ TypeQuery \/ ClearQuery \/ Search
  \/ \E n \in Reads : ServeList(n) \/ Listed(n) \/ ListFails(n)
BrowserSpec == BrowserInit /\ [][BrowserNext]_browserVars

-----------------------------------------------------------------------------
(* When the list waits for nothing it is that of the open folder, with every
   change the page was told of and every file it uploaded: the cache never
   brings back a list from before.  Not when the answer to an invalidated
   request is cached, in the place of a newer one or of none. *)
ListIsNotStale ==
  awaited = None /\ listing.any /\ Key(refreshKey, path) \notin late =>
    listing.folder = path /\ listing.list >= news[path].known
=============================================================================
