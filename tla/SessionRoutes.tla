--------------------------- MODULE SessionRoutes ----------------------------
(* Where the reader is (web/src/App.tsx, lib/routes.ts): the overview, the
   skills, or a session with one of its views and perhaps an open file; and
   the browser's history, each entry of which should bring it back.  A
   session's URL names it by the slug of its title, or by its id when another
   session has that title.  Files are fetched, and the reader moves on
   meanwhile.  Focused messages and lines are left out. *)
EXTENDS Integers, Sequences, FiniteSets

CONSTANTS
  Sessions, Titles, Files,
  Bounds     \* bound: moves, files asked for, answers that fail, session updates

VARIABLES
  title,                 \* the title of each session
  selected, at, view,    \* selectedSessionID; which of the two global flags; appView
  file,                  \* openWorkspaceFile: whose it is, and its path
  entries, pos,          \* the browser's history
  asked,                 \* files on their way
  astray,                \* why the URL and the page may differ: the named exceptions
  spent

page == <<selected, at, view, file>>
vars == <<title, page, entries, pos, asked, astray, spent>>

Spend(kind) == spent[kind] < Bounds[kind] /\ spent' = [spent EXCEPT ![kind] = @ + 1]

NoOne == "none"
Views == {"session", "files", "settings"}
NoFile == [of |-> NoOne, path |-> NoOne]
Global(place) == [place |-> place, key |-> NoOne, view |-> "session", path |-> NoOne]

Init ==
  /\ title \in [Sessions -> Titles]
  /\ selected = NoOne /\ at = "overview" /\ view = "session" /\ file = NoFile
  /\ entries = <<Global("overview")>> /\ pos = 1
  /\ asked = {} /\ astray = {} /\ spent = [kind \in DOMAIN Bounds |-> 0]

-----------------------------------------------------------------------------
(* URLs. *)
Titled(t) == {s \in Sessions : title[s] = t}
Resolve(url) ==
  IF url.key \in Sessions THEN url.key
  ELSE IF Cardinality(Titled(url.key)) = 1 THEN CHOOSE s \in Titled(url.key) : TRUE
  ELSE NoOne

ViewPath(key, v, path) ==
  [place |-> "session", key |-> key, view |-> v, path |-> IF v = "files" THEN path ELSE NoOne]
SelectedRoute(s, v, path) ==
  IF s = NoOne THEN Global("overview")
  ELSE ViewPath(IF Cardinality(Titled(title[s])) = 1 THEN title[s] ELSE s, v, path)
(* A search result's URL names the session by its title, even a shared one. *)
ResultRoute(s, v, path) == ViewPath(title[s], v, path)

Push(url) ==
  IF url = entries[pos] THEN UNCHANGED <<entries, pos>>
  ELSE entries' = Append(SubSeq(entries, 1, pos), url) /\ pos' = pos + 1

-----------------------------------------------------------------------------
(* The effects of a page that changed: another session has no file open, and
   the files view opens the file its URL names, unless one of that path was
   open. *)
FileOf(s, v, url) == [why |-> "route", of |-> s, path |-> url.path]
Routed == {a \in asked : a.why = "route"}
Wanted(s, v, url) ==
  IF v = "files" /\ url.view = "files" /\ url.path # NoOne /\ s # NoOne /\ file.path # url.path
  THEN {FileOf(s, v, url)} ELSE {}

KeptFile(s, v, url) ==
  IF s # selected \/ (v # view /\ v = "files" /\ url.view = "files" /\ url.path = NoOne)
  THEN NoFile ELSE file

(* The reader is at s and v, and the URL is url. *)
Arrive(s, v, url) ==
  /\ selected' = s /\ view' = v /\ file' = KeptFile(s, v, url)
  /\ asked' = IF s = selected /\ v = view THEN asked
              ELSE (asked \ Routed) \cup Wanted(s, v, url)

ChooseSession(s) ==
  /\ s # selected /\ Spend("moves") /\ at' = "session"
  /\ LET url == SelectedRoute(s, "session", NoOne)
     IN Push(url) /\ Arrive(s, "session", url)
  /\ astray' = {} /\ UNCHANGED title

ChooseGlobal(place) ==
  /\ at # place /\ Spend("moves") /\ at' = place
  /\ Push(Global(place)) /\ Arrive(NoOne, "session", Global(place))
  /\ astray' = {} /\ UNCHANGED title

Choose == (\E s \in Sessions : ChooseSession(s)) \/ (\E p \in {"overview", "skills"} : ChooseGlobal(p))

ChooseView(v) ==
  /\ selected # NoOne /\ Spend("moves")
  /\ LET url == SelectedRoute(selected, v, file.path) IN Push(url) /\ Arrive(selected, v, url)
  /\ UNCHANGED <<title, at, astray>>

CloseFile ==
  /\ selected # NoOne /\ view = "files" /\ file # NoFile /\ Spend("moves")
  /\ file' = NoFile /\ Push(SelectedRoute(selected, "files", NoOne))
  /\ UNCHANGED <<title, selected, at, view, asked, astray>>

(* The session's workspace is another directory: its open file is closed. *)
ChangeWorkspace ==
  /\ selected # NoOne /\ Spend("moves")
  /\ file' = NoFile /\ asked' = asked \ Routed
  /\ entries' = IF view = "files" THEN [entries EXCEPT ![pos] = SelectedRoute(selected, "files", NoOne)]
                ELSE entries
  /\ UNCHANGED <<title, selected, at, view, pos, astray>>

-----------------------------------------------------------------------------
(* Mutant: the session of the entry is selected in the view that was open. *)
PoppedInView(url, s) ==
  /\ at' = IF url.place # "session" THEN url.place
           ELSE IF s = selected THEN at
           ELSE IF s = NoOne THEN "overview" ELSE "session"
  /\ Arrive(s, IF url.place = "session" THEN view ELSE "session", url)
(* Back and Forward. *)
Popped(url, s) ==
  /\ at' = IF url.place # "session" THEN url.place
           ELSE IF s = selected THEN at
           ELSE IF s = NoOne THEN "overview" ELSE "session"
  /\ Arrive(s, IF url.place = "session" THEN url.view ELSE "session", url)

(* The file of an entry is not opened when the page otherwise stays as it is,
   or when the other session had a file of that path open. *)
FileIsLeft(url, s) ==
  url.view = "files" /\ file.path # url.path /\ s = selected /\ view = "files"
SamePath(url, s) == url.view = "files" /\ url.path # NoOne /\ file.path = url.path /\ s # selected

Travel(d) ==
  /\ pos + d \in DOMAIN entries /\ Spend("moves") /\ pos' = pos + d
  /\ LET url == entries[pos + d]
         s == IF url.place = "session" THEN Resolve(url) ELSE NoOne
     IN /\ Popped(url, s)
        /\ astray' = astray \cup (IF FileIsLeft(url, s) THEN {"left"} ELSE {})
                             \cup (IF SamePath(url, s) THEN {"same path"} ELSE {})
  /\ UNCHANGED <<title, entries>>

-----------------------------------------------------------------------------
(* Files that are asked for: by a link or the file browser, or by a result of
   the search, whose session is selected at once. *)
OpenFile(p) ==
  /\ selected # NoOne /\ Spend("files")
  /\ asked' = asked \cup {[why |-> "open", of |-> selected, path |-> p]}
  /\ UNCHANGED <<title, page, entries, pos, astray>>

ResultInFile(s, p) ==
  /\ Spend("files") /\ at' = "session" /\ selected' = s /\ UNCHANGED view
  /\ file' = IF s # selected THEN NoFile ELSE file
  /\ asked' = {[why |-> "result", of |-> s, path |-> p]} \cup
              IF s = selected THEN asked ELSE (asked \ Routed) \cup Wanted(s, view, entries[pos])
  \* until the file is there the URL is the old one
  /\ UNCHANGED <<title, entries, pos, astray>>

ResultInSession(s) ==
  /\ Spend("moves") /\ at' = "session" /\ selected' = s /\ view' = "session" /\ file' = NoFile
  /\ Push(ResultRoute(s, "session", NoOne))
  /\ asked' = IF s = selected /\ view = "session" THEN asked ELSE asked \ Routed
  /\ UNCHANGED <<title, astray>>

(* The reader moved on while a file was fetched. *)
Overtaken(a) == a.of # selected \/ (a.why = "route" /\ a.path # entries[pos].path)

Opened(a) ==
  /\ a.why = "open" /\ view' = "files" /\ file' = [of |-> a.of, path |-> a.path]
  /\ Push(SelectedRoute(selected, "files", a.path)) /\ UNCHANGED <<selected, at>>
ResultOpened(a) ==
  /\ a.why = "result" /\ view' = "files" /\ file' = [of |-> a.of, path |-> a.path]
  /\ Push(ResultRoute(a.of, "files", a.path)) /\ UNCHANGED <<selected, at>>
RouteOpened(a) ==
  /\ a.why = "route" /\ file' = [of |-> a.of, path |-> a.path]
  /\ UNCHANGED <<selected, at, view, entries, pos>>

Fetched(a) ==
  /\ Opened(a) \/ ResultOpened(a) \/ RouteOpened(a)
  /\ asked' = (asked \ {a}) \ (IF view' # view THEN Routed ELSE {})
  /\ astray' = astray \cup (IF Overtaken(a) THEN {"late"} ELSE {})
  /\ UNCHANGED <<title, spent>>

FetchFailed(a) ==
  /\ Spend("failures") /\ asked' = asked \ {a}
  /\ astray' = astray \cup (IF a.why = "open" THEN {} ELSE {"failed"})
  /\ UNCHANGED <<title, page, entries, pos>>

(* The selected session was updated: its file is compared with the URL again. *)
Updated ==
  /\ selected # NoOne /\ Spend("updates")
  /\ LET url == entries[pos]
     IN /\ file' = IF view = "files" /\ url.view = "files" /\ url.path = NoOne THEN NoFile ELSE file
        /\ asked' = (asked \ Routed) \cup Wanted(selected, view, url)
  /\ UNCHANGED <<title, selected, at, view, entries, pos, astray>>

Next ==
  \/ Choose \/ CloseFile \/ ChangeWorkspace \/ Updated
  \/ \E v \in Views : ChooseView(v)
  \/ \E d \in {-1, 1} : Travel(d)
  \/ \E p \in Files : OpenFile(p)
  \/ \E s \in Sessions : ResultInSession(s) \/ \E p \in Files : ResultInFile(s, p)
  \/ \E a \in asked : Fetched(a) \/ FetchFailed(a)

Spec == Init /\ [][Next]_vars

-----------------------------------------------------------------------------
Url == entries[pos]
AtUrl ==
  IF Url.place # "session" THEN at = Url.place /\ selected = NoOne
  ELSE /\ selected = Resolve(Url) /\ view = Url.view
       /\ view = "files" =>
            file = IF Url.path = NoOne THEN NoFile ELSE [of |-> selected, path |-> Url.path]

(* When no file is on its way, the page is the one its URL names: the place,
   the session, the view and the open file; so reloading, or sending the link,
   shows the same.  Apart from the named exceptions, and from a shared title. *)
PageIsTheUrls ==
  asked = {} => astray # {} \/ AtUrl \/ (Url.place = "session" /\ Resolve(Url) = NoOne)
=============================================================================
