--------------------------- MODULE MCWebPlatform ----------------------------
(* What surrounds the sessions, one component at a time: where the page is,
   notices, the offline shell, the file browser, the hosted preview and its logs,
   the game, and the stack a developer runs the program with.
   The component that runs is chosen at first; the others rest.  In SessionRoutes
   vk is the component's k-th variable, in the order in which its module declares
   them; the other components have variables of their own. *)
EXTENDS Integers, Sequences, FiniteSets, TLC, HostLogs, HostPreview, DevStack, AppShell,
        PushNotices, FileBrowser, BlocksGame

MCLogBounds == [chunks |-> 6, disconnects |-> 2, loads |-> 2, restarts |-> 1]
MCPreviewBounds == [presses |-> 2, polls |-> 1, lost |-> 2, failures |-> 1, others |-> 1]
MCStackBounds == [edits |-> 2, refreshes |-> 1, sessions |-> 2,
                  unanswered |-> 1, failures |-> 1, stops |-> 2]
MCNoticesBounds == [reload |-> 1, hide |-> 1, close |-> 1, toggle |-> 3, lost |-> 1, drop |-> 1]
MCShellBounds == [ask |-> 3, offline |-> 1, stop |-> 1]

MCBrowserBounds == [change |-> 1, navigate |-> 2, refresh |-> 1,
                    upload |-> 1, lost |-> 1, search |-> 1]
MCGameBounds == [pieces |-> 3, pause |-> 1, restart |-> 1]

VARIABLES
  component,
  v1, v2, v3, v4, v5, v6, v7, v8, v9, v10

routesVars == <<v1, v2, v3, v4, v5, v6, v7, v8, v9, v10>>

\* One script has each build, one style sheet two of them.
ShellAssets(build) == {<<"js", build>>, <<"css", build \div 2>>}

\* Two of the seven pieces, on a board that two of them fill a row of.
PieceShapes == [I |-> [r \in 0 .. 3 |->
                CASE r = 0 -> {<<0, 1>>, <<1, 1>>, <<2, 1>>, <<3, 1>>}
                  [] r = 1 -> {<<2, 0>>, <<2, 1>>, <<2, 2>>, <<2, 3>>}
                  [] r = 2 -> {<<0, 2>>, <<1, 2>>, <<2, 2>>, <<3, 2>>}
                  [] r = 3 -> {<<1, 0>>, <<1, 1>>, <<1, 2>>, <<1, 3>>}],
             J |-> [r \in 0 .. 3 |->
                CASE r = 0 -> {<<0, 0>>, <<0, 1>>, <<1, 1>>, <<2, 1>>}
                  [] r = 1 -> {<<1, 0>>, <<2, 0>>, <<1, 1>>, <<1, 2>>}
                  [] r = 2 -> {<<0, 1>>, <<1, 1>>, <<2, 1>>, <<2, 2>>}
                  [] r = 3 -> {<<1, 0>>, <<1, 1>>, <<0, 2>>, <<1, 2>>}]]
\* Each quarter turn tries its five offsets; the opposite turn tries their opposites.
LongKicks == (<<0, 1>> :> << <<0, 0>>, <<-2, 0>>, <<1, 0>>, <<-2, 1>>, <<1, -2>> >>)
         @@ (<<1, 0>> :> << <<0, 0>>, <<2, 0>>, <<-1, 0>>, <<2, -1>>, <<-1, 2>> >>)
         @@ (<<1, 2>> :> << <<0, 0>>, <<-1, 0>>, <<2, 0>>, <<-1, -2>>, <<2, 1>> >>)
         @@ (<<2, 1>> :> << <<0, 0>>, <<1, 0>>, <<-2, 0>>, <<1, 2>>, <<-2, -1>> >>)
         @@ (<<2, 3>> :> << <<0, 0>>, <<2, 0>>, <<-1, 0>>, <<2, -1>>, <<-1, 2>> >>)
         @@ (<<3, 2>> :> << <<0, 0>>, <<-2, 0>>, <<1, 0>>, <<-2, 1>>, <<1, -2>> >>)
         @@ (<<3, 0>> :> << <<0, 0>>, <<1, 0>>, <<-2, 0>>, <<1, 2>>, <<-2, -1>> >>)
         @@ (<<0, 3>> :> << <<0, 0>>, <<-1, 0>>, <<2, 0>>, <<-1, -2>>, <<2, 1>> >>)
OtherKicks == (<<0, 1>> :> << <<0, 0>>, <<-1, 0>>, <<-1, -1>>, <<0, 2>>, <<-1, 2>> >>)
         @@ (<<1, 0>> :> << <<0, 0>>, <<1, 0>>, <<1, 1>>, <<0, -2>>, <<1, -2>> >>)
         @@ (<<1, 2>> :> << <<0, 0>>, <<1, 0>>, <<1, 1>>, <<0, -2>>, <<1, -2>> >>)
         @@ (<<2, 1>> :> << <<0, 0>>, <<-1, 0>>, <<-1, -1>>, <<0, 2>>, <<-1, 2>> >>)
         @@ (<<2, 3>> :> << <<0, 0>>, <<1, 0>>, <<1, -1>>, <<0, 2>>, <<1, 2>> >>)
         @@ (<<3, 2>> :> << <<0, 0>>, <<-1, 0>>, <<-1, 1>>, <<0, -2>>, <<-1, -2>> >>)
         @@ (<<3, 0>> :> << <<0, 0>>, <<-1, 0>>, <<-1, 1>>, <<0, -2>>, <<-1, -2>> >>)
         @@ (<<0, 3>> :> << <<0, 0>>, <<1, 0>>, <<1, -1>>, <<0, 2>>, <<1, 2>> >>)
PieceKicks == [I |-> LongKicks, J |-> OtherKicks]

StepNotices ==
  /\ component = "PushNotices" /\ NoticesNext
  /\ UNCHANGED <<component, routesVars, browserVars, gameVars, logVars, previewVars,
                 stackVars, shellVars>>

StepBrowser ==
  /\ component = "FileBrowser" /\ BrowserNext
  /\ UNCHANGED <<component, routesVars, noticesVars, gameVars, logVars, previewVars,
                 stackVars, shellVars>>

StepGame ==
  /\ component = "BlocksGame" /\ GameNext
  /\ UNCHANGED <<component, routesVars, noticesVars, browserVars, logVars, previewVars,
                 stackVars, shellVars>>

StepLog ==
  /\ component = "HostLogs" /\ LogNext
  /\ UNCHANGED <<component, routesVars, noticesVars, browserVars, gameVars, previewVars,
                 stackVars, shellVars>>

StepPreview ==
  /\ component = "HostPreview" /\ PreviewNext
  /\ UNCHANGED <<component, routesVars, noticesVars, browserVars, gameVars, logVars,
                 stackVars, shellVars>>

StepStack ==
  /\ component = "DevStack" /\ StackNext
  /\ UNCHANGED <<component, routesVars, noticesVars, browserVars, gameVars, logVars,
                 previewVars, shellVars>>

StepShell ==
  /\ component = "AppShell" /\ ShellNext
  /\ UNCHANGED <<component, routesVars, noticesVars, browserVars, gameVars, logVars,
                 previewVars, stackVars>>

Routes == INSTANCE SessionRoutes WITH
  Sessions <- {"s1", "s2"}, Titles <- {"t1", "t2"}, Files <- {"f1", "f2"},
  Bounds <- [moves |-> 4, files |-> 1, failures |-> 1, updates |-> 1],
  title <- v1, selected <- v2, at <- v3, view <- v4, file <- v5, entries <- v6,
  pos <- v7, asked <- v8, astray <- v9, spent <- v10
StepRoutes ==
  /\ component = "SessionRoutes" /\ Routes!Next
  /\ UNCHANGED <<component, noticesVars, browserVars, gameVars, logVars, previewVars, stackVars,
                 shellVars>>

-----------------------------------------------------------------------------
\* What may differ at first does so only where it is looked at: whether the user had
\* granted the permission, and the pieces a game begins with.
Init ==
  /\ component \in {"PushNotices", "FileBrowser", "BlocksGame", "HostLogs", "HostPreview",
                    "DevStack", "AppShell", "SessionRoutes"}
  /\ NoticesInit /\ BrowserInit /\ GameInit /\ LogInit /\ PreviewInit /\ StackInit /\ ShellInit
  /\ component # "PushNotices" => permission = "default"
  /\ component # "BlocksGame" => next = "I"
  /\ IF component = "SessionRoutes" THEN Routes!Init
     ELSE /\ v1 = 0 /\ v2 = 0 /\ v3 = 0 /\ v4 = 0 /\ v5 = 0 /\ v6 = 0 /\ v7 = 0 /\ v8 = 0
          /\ v9 = 0 /\ v10 = 0
Next ==
  \/ StepNotices \/ StepBrowser \/ StepGame \/ StepLog \/ StepPreview \/ StepStack \/ StepShell
  \/ StepRoutes

vars == <<component, routesVars, noticesVars, browserVars, gameVars, logVars, previewVars,
          stackVars, shellVars>>
Spec == Init /\ [][Next]_vars

-----------------------------------------------------------------------------
(* When no file is on its way, the page is the one its URL names: the place,
   the session, the view and the open file; so reloading, or sending the link,
   shows the same.  Apart from the named exceptions, and from a shared title. *)
PageIsTheUrls == component = "SessionRoutes" => Routes!PageIsTheUrls
=============================================================================
