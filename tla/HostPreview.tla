---------------------------- MODULE HostPreview -----------------------------
(* The panel of a hosted preview (components/host-preview.tsx) over the
   preview's runtime (internal/hosting/manager.go): what its buttons ask of
   the server, the status that is polled while something may change, and the
   answers, which are applied in the order they arrive. *)
EXTENDS Integers, FiniteSets

CONSTANT
  PreviewBounds   \* bound: presses, polls, lost answers, failures of the preview, other clients

VARIABLES
  runtime,      \* the runtime's status
  restarting,   \* a stop that is followed by a start
  shown,        \* status.runtime.status, or "none"
  action,       \* the action whose answer is awaited, or "none"
  requests,     \* requests on their way: what for, and the status they carry or "none"
  following, noted,   \* the logs are followed; errorMessage is set
  elsewhere,    \* another client started the preview, or a new server has restored it
  overtaken,    \* an answer older than the one shown was applied
  deaf,         \* when an action's answer and the status asked for after it were both lost, or 0
  asked,        \* numbers requests, in the order the server answers
  previewSpent

manager == <<runtime, restarting>>
previewVars == <<manager, shown, action, requests, following, noted, elsewhere, overtaken,
                 deaf, asked, previewSpent>>

PreviewSpends(kind) ==
  /\ previewSpent[kind] < PreviewBounds[kind]
  /\ previewSpent' = [previewSpent EXCEPT ![kind] = @ + 1]
PreviewFree == previewSpent' = previewSpent

Asking == "none"
Request(for) == [for |-> for, n |-> 0, answer |-> Asking, at |-> 0]

PreviewInit ==
  /\ runtime = "stopped" /\ restarting = FALSE /\ shown = "none" /\ action = "none"
  /\ requests = {Request("load")} /\ following = TRUE /\ noted = FALSE
  /\ elsewhere = FALSE /\ overtaken = FALSE /\ deaf = 0
  /\ asked = [last |-> 0, shown |-> 0] /\ previewSpent = [kind \in DOMAIN PreviewBounds |-> 0]

-----------------------------------------------------------------------------
(* Manager: Start, Stop and Restart, as the status allows them. *)
Effect(what) ==
  CASE what = "start" /\ runtime \in {"stopped", "failed"} ->
         runtime' = "starting" /\ UNCHANGED restarting
    [] what = "stop" /\ runtime \in {"starting", "running", "failed"} ->
         runtime' = "stopping" /\ restarting' = FALSE
    [] what = "restart" /\ runtime \in {"running", "stopped", "failed"} ->
         runtime' = "stopping" /\ restarting' = TRUE
    [] OTHER -> UNCHANGED manager
Refused(what) ==
  \/ what = "start" /\ runtime = "stopping"
  \/ what = "restart" /\ runtime \in {"starting", "stopping"}
  \/ what = "check" /\ runtime # "running"

ServerStep == PreviewFree /\ UNCHANGED <<shown, action, requests, following, noted, elsewhere,
                                         overtaken, deaf, asked>>
Launched == ServerStep /\ runtime = "starting" /\ runtime' = "running" /\ UNCHANGED restarting
Stopped ==
  /\ ServerStep /\ runtime = "stopping" /\ restarting' = FALSE
  /\ runtime' = IF restarting THEN "starting" ELSE "stopped"
Fails ==
  /\ runtime \in {"starting", "running"} /\ PreviewSpends("failures") /\ runtime' = "failed"
  /\ UNCHANGED <<restarting, shown, action, requests, following, noted, elsewhere, overtaken,
                 deaf, asked>>
(* An agent starts the preview of its session itself. *)
StartedElsewhere ==
  /\ PreviewSpends("others") /\ ~Refused("start") /\ Effect("start") /\ elsewhere' = TRUE
  /\ UNCHANGED <<shown, action, requests, following, noted, overtaken, deaf, asked>>
(* Restore: a new server has the preview stopped, whatever it was. *)
Restored ==
  /\ PreviewSpends("others") /\ runtime' = "stopped" /\ restarting' = FALSE /\ elsewhere' = TRUE
  /\ UNCHANGED <<shown, action, requests, following, noted, overtaken, deaf, asked>>

-----------------------------------------------------------------------------
(* What the buttons allow. *)
Active == {"running", "starting", "stopping"}
Allowed(what) ==
  CASE what = "start"    -> shown \notin Active
    [] what = "stop"     -> shown \in {"running", "starting"}
    [] what = "restart"  -> shown # "stopping"
    [] what = "check"    -> shown = "running"
    [] what = "validate" -> TRUE

RunAction(what) ==
  /\ shown # "none" /\ action = "none" /\ Allowed(what) /\ PreviewSpends("presses")
  /\ action' = what /\ noted' = FALSE /\ requests' = requests \cup {Request(what)}
  /\ UNCHANGED <<manager, shown, following, elsewhere, overtaken, deaf, asked>>

(* Mutant: a preview that is stopping is not watched. *)
PolledIfUp(status) == status \in {"starting", "running"}
Polled(status) == status \in Active

(* The interval: a poll does not wait for the one before it. *)
PollStatus ==
  /\ Polled(shown) /\ PreviewSpends("polls")
  /\ requests' = requests \cup {[Request("poll") EXCEPT !.n = previewSpent.polls]}
  /\ UNCHANGED <<manager, shown, action, following, noted, elsewhere, overtaken, deaf, asked>>

Tick == asked' = [asked EXCEPT !.last = @ + 1]
(* The server does what is asked and answers with the status it has then. *)
ServeStatus(r) ==
  /\ r.answer = Asking /\ PreviewFree /\ Tick
  /\ IF Refused(r.for)
     THEN UNCHANGED manager /\ requests' = (requests \ {r}) \cup {[r EXCEPT !.answer = "refused"]}
     ELSE /\ Effect(r.for)
          /\ requests' = (requests \ {r}) \cup
               {[r EXCEPT !.answer = runtime', !.at = asked'.last]}
  /\ UNCHANGED <<shown, action, following, noted, elsewhere, overtaken, deaf>>

(* setStatus: whichever answer comes last is shown. *)
Apply(r) ==
  /\ shown' = r.answer /\ asked' = [asked EXCEPT !.shown = IF r.at > @ THEN r.at ELSE @]
  /\ overtaken' = (r.at < asked.shown)
Actions == {"validate", "start", "stop", "restart", "check"}
Answered(r) ==
  /\ r.answer \notin {Asking, "refused"} /\ PreviewFree /\ Apply(r)
  /\ requests' = requests \ {r}
  /\ action' = IF r.for \in Actions \cup {"refresh"} THEN "none" ELSE action
  /\ following' = (following \/ r.for \in {"start", "restart"})
  /\ deaf' = IF r.at > deaf THEN 0 ELSE deaf
  /\ UNCHANGED <<manager, noted, elsewhere>>

(* A refusal, or an answer that does not come: the error is shown and the
   status asked for; when that fails too, what is shown stays. *)
Unanswered(r) ==
  /\ \/ r.answer = "refused" /\ PreviewFree
     \/ r.answer # "refused" /\ PreviewSpends("lost")
  /\ noted' = (noted \/ r.for \in Actions \cup {"load"})
  /\ requests' = (requests \ {r}) \cup {Request("refresh") : x \in {r.for} \cap Actions}
  /\ action' = IF r.for = "refresh" THEN "none" ELSE action
  /\ deaf' = IF r.for = "refresh" THEN asked.last ELSE deaf
  /\ UNCHANGED <<manager, shown, following, elsewhere, overtaken, asked>>

(* Retry, when there is no status to show. *)
Retry ==
  /\ shown = "none" /\ requests = {} /\ noted /\ PreviewFree
  /\ noted' = FALSE /\ requests' = {Request("load")}
  /\ UNCHANGED <<manager, shown, action, following, elsewhere, overtaken, deaf, asked>>

ScrollLogs ==
  /\ following /\ following' = FALSE /\ PreviewFree
  /\ UNCHANGED <<manager, shown, action, requests, noted, elsewhere, overtaken, deaf, asked>>

PreviewNext ==
  \/ Launched \/ Stopped \/ Fails \/ StartedElsewhere \/ Restored
  \/ \E what \in Actions : RunAction(what)
  \/ PollStatus \/ Retry \/ ScrollLogs
  \/ \E r \in requests : ServeStatus(r) \/ Answered(r) \/ Unanswered(r)
PreviewSpec == PreviewInit /\ [][PreviewNext]_previewVars

-----------------------------------------------------------------------------
(* A status that is shown and no longer asked for is the one the preview has: it
   was not left behind by the buttons, the polls and the failures in between,
   unless an older answer overtook a newer one, another client acted or a new
   server restored the preview, which no panel at rest hears of, or nothing was
   heard of an action any more. *)
RestingStatusIsTrue ==
  (shown # "none" /\ ~Polled(shown) /\ requests = {})
    => shown = runtime \/ elsewhere \/ overtaken \/ deaf > 0
=============================================================================
