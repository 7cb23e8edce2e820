-------------------------------- MODULE Tui --------------------------------
(***************************************************************************)
(* The terminal dashboard (crates/flow-analyzer-tui/src/main.rs): a poller *)
(* task that fetches from the analyzer's API and a UI loop that applies    *)
(* what was fetched, draws, and serves one key press at a time, awaiting   *)
(* the API call a key makes.  They share an unbounded channel of events.   *)
(* The analyzer and its other clients change the rule list meanwhile, and  *)
(* the analyzer may die and come back with an empty one, or hang: accept   *)
(* calls and answer none, on which the dashboard sets no time limit.  Over *)
(* tcp:// a call may also lose its connection without a sign: it is        *)
(* neither answered nor failed, whatever becomes of the analyzer.          *)
(*                                                                         *)
(* Left out: what only the drawing reads (statistics, status, rates and    *)
(* scroll offsets), last_error, which changes with connected, and the      *)
(* texts of rules, prompts and alerts.  A rule is its id.                  *)
(***************************************************************************)
EXTENDS Naturals, Sequences, FiniteSetsExt, SequencesExt

CONSTANTS FpPeriod,     \* the list is fetched every 5th cycle
          AlertCap,     \* the cap of the alert log: 200
          MaxIds,       \* bound: rules ever created
          MaxChanges,   \* bound: changes of the list
          MaxFaults,    \* bound: deaths and hangs of the analyzer, and lost calls
          MaxEvents,    \* bound: events in the channel
          MaxAlerts,    \* bound: alerts shown
          NoRule

Ids == 1..MaxIds
ASSUME PeriodAssumption == FpPeriod \in Nat \ {0}
ASSUME BoundAssumption == {AlertCap, MaxIds, MaxChanges, MaxFaults, MaxEvents, MaxAlerts} \subseteq Nat
ASSUME NoneAssumption == NoRule \notin Ids

\* The panel that takes the arrow keys and `d`, and the three others.
Panel == {"Fingerprints", "other"}

VARIABLES list, health,     \* the analyzer: its rules; "up", "hung" or "down"
          created,          \* number of rules created so far: the last id
          version,          \* history: number of changes of the list
          lost,             \* who awaits a lost call: the start, the poller, a key
          pollPc, ok, fp_tick, fetched,  \* the poller
          chan,             \* the events sent to the UI
          uiPc,             \* where the UI loop is
          fingerprints, fp_selected, focused, connected, alerts,  \* App
          mode, input, target,  \* App.mode with its fields
          since,            \* history: lines logged by keys since the last alert
          swallowed,        \* history: a Ctrl-C at start-up went unheeded
          request,          \* the API call handle_key awaits
          shown,            \* history: version of App.fingerprints
          drawn,            \* history: the rule highlighted on the screen as a key is read
          asked,            \* history: the same, when `d` was pressed for this deletion
          faults

server  == <<list, health, created, version, faults, lost>>
poller  == <<pollPc, ok, fp_tick, fetched>>
view    == <<fingerprints, fp_selected, shown>>
log     == <<alerts, since>>
dialog  == <<mode, input, target, asked>>
app     == <<view, focused, connected, log, dialog, drawn, swallowed>>
vars == <<server, poller, chan, uiPc, app, request>>

up == health = "up"
down == health = "down"

NoRequest == [kind |-> "none", id |-> NoRule, state |-> "none"]
NoFetch == [kind |-> "none", list |-> <<>>, version |-> 0]
Event(kind) == [kind |-> kind, list |-> <<>>, version |-> 0]
Selected == IF fingerprints = <<>> THEN NoRule
            ELSE fingerprints[Min({fp_selected + 1, Len(fingerprints)})]

Init == /\ list = <<>> /\ health = "up" /\ created = 0 /\ version = 0
        /\ faults = 0 /\ lost = {}
        /\ pollPc = "off" /\ ok = TRUE /\ fp_tick = 0 /\ fetched = NoFetch
        /\ chan = <<>> /\ uiPc = "connecting"
        /\ fingerprints = <<>> /\ fp_selected = 0 /\ shown = 0
        /\ focused = "other" /\ connected = FALSE /\ alerts = 0 /\ since = 0 /\ swallowed = FALSE
        /\ mode = "Normal" /\ input = "blank" /\ target = NoRule
        /\ drawn = NoRule /\ asked = NoRule
        /\ request = NoRequest

-----------------------------------------------------------------------------
\* The analyzer, and its other clients.
OtherCreate ==
  /\ up /\ created < MaxIds /\ version < MaxChanges
  /\ list' = Append(list, created + 1) /\ created' = created + 1 /\ version' = version + 1
  /\ UNCHANGED <<health, faults, lost, poller, chan, uiPc, app, request>>

\* Vec::retain(|f| f.id != id): the ids are fresh, so that it takes out one rule
\* or, on which the answer is 404, none.
Retain(id) == IF Contains(list, id)
              THEN \E i \in DOMAIN list : list[i] = id /\ list' = RemoveAt(list, i)
              ELSE UNCHANGED list

OtherDelete(id) ==
  /\ up /\ Contains(list, id) /\ version < MaxChanges
  /\ Retain(id) /\ version' = version + 1
  /\ UNCHANGED <<health, created, faults, lost, poller, chan, uiPc, app, request>>

\* The TUI's own POST (a rule with a fresh id) and DELETE (404: no change).
Serve ==
  /\ up /\ request.state = "sent" /\ "key" \notin lost
  /\ IF request.kind = "add" THEN list' = Append(list, request.id)
                             ELSE Retain(request.id)
  /\ version' = IF list' = list THEN version ELSE version + 1
  /\ request' = [request EXCEPT !.state = "answered"]
  /\ UNCHANGED <<health, created, faults, lost, poller, chan, uiPc, app>>

\* The analyzer dies, with its rules; the call of a key fails, unless its answer
\* is on its way or its connection lost.
AnalyzerCrash ==
  /\ ~down /\ faults < MaxFaults
  /\ health' = "down" /\ list' = <<>> /\ version' = version + 1 /\ faults' = faults + 1
  /\ \/ request.state \in {"sent", "answered"} /\ "key" \notin lost
        /\ request' = [request EXCEPT !.state = "failed"]
     \/ (request.state # "sent" \/ "key" \in lost) /\ UNCHANGED request
  /\ UNCHANGED <<created, lost, poller, chan, uiPc, app>>

AnalyzerRestart ==
  /\ down /\ health' = "up"
  /\ UNCHANGED <<list, created, version, faults, lost, poller, chan, uiPc, app, request>>

\* Or it stops answering (stopped, overloaded, cut off), perhaps for a while.
AnalyzerHangs ==
  /\ up /\ faults < MaxFaults
  /\ health' = "hung" /\ faults' = faults + 1
  /\ UNCHANGED <<list, created, version, lost, poller, chan, uiPc, app, request>>

AnalyzerRecovers ==
  /\ health = "hung" /\ health' = "up"
  /\ UNCHANGED <<list, created, version, faults, lost, poller, chan, uiPc, app, request>>

\* fetch_json, post_json and delete_path set no time limit, and the connection
\* is not probed: one that goes without a sign after the request has been
\* acknowledged (a reboot, a route), leaves its caller waiting.
Fetching == uiPc \in {"connecting", "reconnecting"}

LoseCall(caller) ==
  /\ ~down /\ faults < MaxFaults /\ caller \notin lost
  /\ \/ caller = "start" /\ Fetching
     \/ caller = "poller" /\ pollPc \in {"stats", "status", "fetch"} /\ uiPc # "quit"
     \/ caller = "key" /\ request.state \in {"sent", "answered"}
  /\ lost' = lost \cup {caller} /\ faults' = faults + 1
  /\ UNCHANGED <<list, health, created, version, poller, chan, uiPc, app, request>>

-----------------------------------------------------------------------------
\* main: fetch /api/status until it is answered, then start the tasks.
\* "reconnecting" is "connecting" after a failure, when tokio has taken SIGINT.
Connect ==
  /\ Fetching /\ up /\ "start" \notin lost
  /\ connected' = TRUE /\ uiPc' = "drain" /\ pollPc' = "stats" /\ swallowed' = FALSE
  /\ UNCHANGED <<server, ok, fp_tick, fetched, chan, view, focused, log, dialog, drawn, request>>

ConnectFails ==
  /\ Fetching /\ down /\ "start" \notin lost /\ uiPc' = "waiting"
  /\ UNCHANGED <<server, poller, chan, app, request>>

Retry ==
  /\ uiPc = "waiting" /\ uiPc' = "reconnecting"
  /\ UNCHANGED <<server, poller, chan, app, request>>

\* The default action of SIGINT, or the select's other branch, ends the program.
Abort ==
  /\ uiPc \in {"connecting", "waiting"} /\ uiPc' = "quit"
  /\ UNCHANGED <<server, poller, chan, app, request>>

\* A Ctrl-C that falls in a later fetch finds nobody waiting for it.
AbortUnheard ==
  /\ uiPc = "reconnecting" /\ swallowed' = TRUE
  /\ UNCHANGED <<server, poller, chan, uiPc, view, focused, connected, log, dialog, drawn, request>>

-----------------------------------------------------------------------------
\* spawn_poll.  One cycle: the statistics (an answer, or an error if nobody
\* listens; a call to a hung analyzer waits, and one that is lost for ever),
Returns == health # "hung" /\ "poller" \notin lost
Send(event) == chan' = Append(chan, event)

PollStats ==
  /\ pollPc = "stats" /\ Len(chan) < MaxEvents /\ Returns
  /\ ok' = up
  /\ IF up THEN Send(Event("Stats")) ELSE UNCHANGED chan
  /\ pollPc' = "status"
  /\ UNCHANGED <<server, fp_tick, fetched, uiPc, app, request>>

\* Mutant of PollStatus: it forgets that the statistics failed.
PollStatusOverwrites ==
  /\ pollPc = "status" /\ Returns
  /\ ok' = up
  /\ pollPc' = IF fp_tick % FpPeriod = 0 THEN "fetch" ELSE "end"
  /\ UNCHANGED <<server, fp_tick, fetched, chan, uiPc, app, request>>

\* the status (its event only feeds the drawing),
PollStatus ==
  /\ pollPc = "status" /\ Returns
  /\ ok' = (ok /\ up)
  /\ pollPc' = IF fp_tick % FpPeriod = 0 THEN "fetch" ELSE "end"
  /\ UNCHANGED <<server, fp_tick, fetched, chan, uiPc, app, request>>

\* every FpPeriod-th time the rules, which may change before their copy is sent,
PollFetch ==
  /\ pollPc = "fetch" /\ Returns
  /\ IF up THEN /\ fetched' = [kind |-> "Fingerprints", list |-> list, version |-> version]
                /\ pollPc' = "send" /\ UNCHANGED ok
           ELSE ok' = FALSE /\ pollPc' = "end" /\ UNCHANGED fetched
  /\ UNCHANGED <<server, fp_tick, chan, uiPc, app, request>>

PollSend ==
  /\ pollPc = "send" /\ Len(chan) < MaxEvents
  /\ Send(fetched) /\ fetched' = NoFetch
  /\ pollPc' = "end"
  /\ UNCHANGED <<server, ok, fp_tick, uiPc, app, request>>

\* Mutant of PollEnd: an error ends the poller.
PollEndStops ==
  /\ pollPc = "end" /\ Len(chan) < MaxEvents
  /\ fp_tick' = (fp_tick + 1) % FpPeriod
  /\ IF ok THEN UNCHANGED chan ELSE Send(Event("Disconnected"))
  /\ pollPc' = IF ok THEN "stats" ELSE "off"
  /\ UNCHANGED <<server, ok, fetched, uiPc, app, request>>

\* and Disconnected if any of them failed.
PollEnd ==
  /\ pollPc = "end" /\ Len(chan) < MaxEvents
  /\ fp_tick' = (fp_tick + 1) % FpPeriod
  /\ IF ok THEN UNCHANGED chan ELSE Send(Event("Disconnected"))
  /\ pollPc' = "stats"
  /\ UNCHANGED <<server, ok, fetched, uiPc, app, request>>

\* stream_events: an alert from /api/events (heartbeats are skipped).
StreamAlert ==
  /\ pollPc # "off" /\ up /\ Len(chan) < MaxEvents /\ alerts < MaxAlerts
  /\ Send(Event("Alert"))
  /\ UNCHANGED <<server, poller, uiPc, app, request>>

-----------------------------------------------------------------------------
\* Mutant of Apply: no cap.
ApplyUncapped(event) ==
  \/ event.kind = "Alert" /\ alerts' = alerts + 1 /\ since' = 0 /\ UNCHANGED <<view, connected>>
  \/ event.kind # "Alert" /\ UNCHANGED <<view, connected, log>>

\* run_loop: apply the events waiting,
Apply(event) ==
  CASE event.kind = "Stats" ->
         /\ connected' = TRUE /\ UNCHANGED <<view, log>>
    [] event.kind = "Fingerprints" ->
         /\ fingerprints' = event.list /\ shown' = event.version
         /\ fp_selected' = IF fp_selected >= Len(event.list)
                           THEN Max({Len(event.list), 1}) - 1 ELSE fp_selected
         /\ UNCHANGED <<connected, log>>
    [] event.kind = "Alert" ->
         /\ alerts' = Min({alerts + 1, AlertCap}) /\ since' = 0
         /\ UNCHANGED <<view, connected>>
    [] event.kind = "Disconnected" ->
         /\ connected' = FALSE /\ UNCHANGED <<view, log>>

\* Mutant of Drain: events are applied while the UI waits for a key, too.
DrainAnytime ==
  /\ uiPc \in {"drain", "key"} /\ chan # <<>>
  /\ Apply(Head(chan)) /\ chan' = Tail(chan)
  /\ UNCHANGED <<server, poller, uiPc, focused, dialog, drawn, swallowed, request>>

Drain ==
  /\ uiPc = "drain" /\ chan # <<>>
  /\ Apply(Head(chan)) /\ chan' = Tail(chan)
  /\ UNCHANGED <<server, poller, uiPc, focused, dialog, drawn, swallowed, request>>

\* draw,
Draw ==
  /\ uiPc = "drain" /\ chan = <<>>
  /\ drawn' = Selected /\ uiPc' = "key"
  /\ UNCHANGED <<server, poller, chan, view, focused, connected, log, dialog, swallowed, request>>

\* and wait 100 ms for a key: none, or one that does nothing,
NoKey ==
  /\ uiPc = "key" /\ uiPc' = "drain" /\ drawn' = NoRule
  /\ UNCHANGED <<server, poller, chan, view, focused, connected, log, dialog, swallowed, request>>

\* or one that handle_key serves in the mode it is in.
Key(m) == /\ uiPc = "key" /\ mode = m
          /\ UNCHANGED <<server, poller, chan, connected, swallowed>>
          /\ drawn' = NoRule

Quit ==
  /\ Key("Normal") /\ uiPc' = "quit"
  /\ UNCHANGED <<view, focused, log, dialog, request>>

\* `s`, `f`, Tab
Focus(panel) ==
  /\ Key("Normal") /\ focused' = panel /\ uiPc' = "drain"
  /\ UNCHANGED <<view, log, dialog, request>>

\* Up and Down in the Fingerprints panel
Move(to) ==
  /\ Key("Normal") /\ focused = "Fingerprints"
  /\ to \in {Max({fp_selected, 1}) - 1,
             IF fp_selected + 1 < Len(fingerprints) THEN fp_selected + 1 ELSE fp_selected}
  /\ fp_selected' = to /\ uiPc' = "drain"
  /\ UNCHANGED <<fingerprints, shown, focused, log, dialog, request>>

PressAdd ==
  /\ Key("Normal") /\ mode' = "AddFingerprint" /\ input' = "blank" /\ uiPc' = "drain"
  /\ UNCHANGED <<view, focused, log, target, asked, request>>

PressDelete ==
  /\ Key("Normal") /\ focused = "Fingerprints" /\ fingerprints # <<>>
  /\ mode' = "ConfirmDelete" /\ target' = Selected
  /\ asked' = drawn /\ uiPc' = "drain"
  /\ UNCHANGED <<view, focused, log, input, request>>

\* A character or Backspace: the name may become blank or cease to be.
Type(text) ==
  /\ Key("AddFingerprint") /\ input' = text /\ uiPc' = "drain"
  /\ UNCHANGED <<view, focused, log, mode, target, asked, request>>

\* Enter: a name that is not blank is POSTed, and the answer awaited.
Confirm(call) ==
  /\ mode' = "Normal" /\ input' = "blank" /\ target' = NoRule
  /\ IF call.kind = "none" THEN uiPc' = "drain" /\ UNCHANGED request
     ELSE alerts < MaxAlerts /\ uiPc' = "await" /\ request' = call
  /\ asked' = IF call.kind = "delete" THEN asked ELSE NoRule
  /\ UNCHANGED <<view, focused, log>>

EnterName ==
  /\ uiPc = "key" /\ mode = "AddFingerprint"
  /\ drawn' = NoRule
  /\ UNCHANGED <<list, health, version, faults, lost, poller, chan, connected, swallowed>>
  /\ IF input = "blank" THEN Confirm(NoRequest) /\ UNCHANGED created
     ELSE /\ created < MaxIds /\ version < MaxChanges
          /\ created' = created + 1
          /\ Confirm([kind |-> "add", id |-> created + 1, state |-> "sent"])

\* `y`: DELETE the rule the prompt named, whatever is selected by now.
PressYes ==
  /\ Key("ConfirmDelete")
  /\ Confirm([kind |-> "delete", id |-> target, state |-> "sent"])

\* Esc, `n`
Cancel ==
  /\ \E m \in {"AddFingerprint", "ConfirmDelete"} : Key(m)
  /\ Confirm(NoRequest)

\* The call fails at once if nobody listens.
CallFails ==
  /\ down /\ request.state = "sent" /\ "key" \notin lost
  /\ request' = [request EXCEPT !.state = "failed"]
  /\ UNCHANGED <<server, poller, chan, uiPc, app>>

\* Mutant of Answer: the list is read at once, past the events waiting.
AnswerRefreshes ==
  /\ uiPc = "await" /\ request.state \in {"answered", "failed"} /\ "key" \notin lost
  /\ alerts' = alerts + 1 /\ since' = since + 1
  /\ request' = NoRequest /\ uiPc' = "drain" /\ asked' = NoRule
  /\ fingerprints' = list /\ shown' = version /\ fp_selected' = 0
  /\ UNCHANGED <<server, poller, chan, focused, connected, mode, input, target, drawn, swallowed>>

\* Mutant of Answer: an error leaves the dashboard waiting.
AnswerSuccess ==
  /\ uiPc = "await" /\ request.state = "answered" /\ "key" \notin lost
  /\ alerts' = alerts + 1 /\ since' = since + 1
  /\ request' = NoRequest /\ uiPc' = "drain" /\ asked' = NoRule
  /\ UNCHANGED <<server, poller, chan, view, focused, connected, mode, input, target, drawn, swallowed>>

\* The answer, or the error, is logged, without the cap of run_loop.
Answer ==
  /\ uiPc = "await" /\ request.state \in {"answered", "failed"} /\ "key" \notin lost
  /\ alerts' = alerts + 1 /\ since' = since + 1
  /\ request' = NoRequest /\ uiPc' = "drain" /\ asked' = NoRule
  /\ UNCHANGED <<server, poller, chan, view, focused, connected, mode, input, target, drawn, swallowed>>

-----------------------------------------------------------------------------
Others == OtherCreate \/ \E id \in Ids : OtherDelete(id)
Poll == uiPc # "quit" /\ (PollStats \/ PollStatus \/ PollFetch \/ PollSend \/ PollEnd)
Callers == {"start", "poller", "key"}
Loop == Connect \/ ConnectFails \/ Retry \/ Drain \/ Draw \/ NoKey \/ Answer
Call == Serve \/ CallFails
KeyPress == \/ Quit \/ PressAdd \/ PressDelete \/ EnterName \/ PressYes \/ Cancel
            \/ \E panel \in Panel : Focus(panel)
            \/ \E to \in 0..MaxIds : Move(to)
            \/ \E text \in {"blank", "named"} : Type(text)

Next == \/ Others \/ Call \/ AnalyzerCrash \/ AnalyzerRestart
        \/ AnalyzerHangs \/ AnalyzerRecovers
        \/ \E caller \in Callers : LoseCall(caller)
        \/ Abort \/ AbortUnheard \/ Poll \/ Loop \/ KeyPress
        \/ (uiPc # "quit" /\ StreamAlert)

Spec == Init /\ [][Next]_vars

\* The poller and the loop run as long as the TUI does, a call is served or
\* fails unless the analyzer hangs or the call is lost, and a dead analyzer is
\* restarted.  Nobody has to press a key, and a hung analyzer need not recover.  The poller's is
\* strong fairness because only the bound on the channel, which the code does
\* not have, can make it wait for others.
LiveSpec == /\ Spec /\ SF_vars(Poll) /\ WF_vars(Loop) /\ WF_vars(Call)
            /\ WF_vars(AnalyzerRestart)

-----------------------------------------------------------------------------
Versions == 0..(2 * MaxChanges + MaxFaults)
Events == [kind : {"Stats", "Fingerprints", "Alert", "Disconnected"},
           list : Seq(Ids), version : Versions]

TypeOK == /\ list \in Seq(Ids) /\ health \in {"up", "hung", "down"} /\ created \in 0..MaxIds
          /\ version \in Versions /\ faults \in 0..MaxFaults /\ lost \subseteq Callers
          /\ pollPc \in {"off", "stats", "status", "fetch", "send", "end"}
          /\ ok \in BOOLEAN /\ fp_tick \in 0..(FpPeriod - 1)
          /\ fetched \in Events \cup {NoFetch} /\ chan \in Seq(Events)
          /\ uiPc \in {"connecting", "waiting", "reconnecting", "drain", "key", "await", "quit"}
          /\ fingerprints \in Seq(Ids) /\ fp_selected \in 0..MaxIds /\ shown \in Versions
          /\ focused \in Panel /\ {connected, swallowed} \subseteq BOOLEAN
          /\ alerts \in Nat /\ since \in Nat
          /\ mode \in {"Normal", "AddFingerprint", "ConfirmDelete"}
          /\ input \in {"blank", "named"} /\ {target, asked, drawn} \subseteq Ids \cup {NoRule}
          /\ request \in [kind : {"none", "add", "delete"}, id : Ids \cup {NoRule},
                          state : {"none", "sent", "answered", "failed"}]

\* The selection points into the list, or to its top when it is empty, however
\* the list shrinks under the cursor (run_loop clamps it on every refresh).
SelectionInList == fp_selected < Max({Len(fingerprints), 1})

\* The TUI deletes no rule but the one that was highlighted on the screen when
\* the user pressed `d`, although the list is refreshed before the prompt is
\* answered and other clients delete rules meanwhile (handle_key, ConfirmDelete).
DeletesOnlyHighlighted ==
  /\ mode = "ConfirmDelete" => target = asked /\ asked # NoRule
  /\ request.kind = "delete" => request.id = asked

\* Between two cycles, once the UI has caught up, the connection indicator says
\* whether all the calls of the last cycle were answered: a call that fails is
\* not masked by another that succeeds (spawn_poll and run_loop).
ConnectedTellsLastCycle == (pollPc = "stats" /\ chan = <<>>) => connected = ok

\* The dashboard never goes back to an older rule list than it has shown: the
\* poller is the only source of lists, and fetches one at a time.
ShownAdvances == [][shown' >= shown]_vars

\* If the list stays as it is and the analyzer up, the dashboard comes to show
\* it, however the analyzer died or hung before (unless the user quits); but for
\* a call that lost its connection, which a poller, or a UI, awaits for ever.
EventuallyShown ==
  (<>[](up /\ uiPc # "quit" /\ lost = {}) /\ <>[][UNCHANGED list]_vars)
    => <>[](fingerprints = list)

\* A call made by a key ends, and the UI goes on, whatever becomes of the
\* analyzer, and of the poller's calls, meanwhile, unless that hangs for good
\* or the call has lost its connection: handle_key awaits it without a time limit.
KeysServed ==
  <>[](health = "hung" \/ "key" \in lost) \/ (uiPc = "await" ~> uiPc = "drain")

\* "polling resumes automatically after a disconnect" (main.rs:369-370), one
\* without a sign included.
PollingResumes == <>[](up /\ pollPc # "off" /\ uiPc # "quit") => []<><<PollStats>>_vars

\* The log outgrows its cap by no more than the lines that keys have added since
\* the last alert of the stream, which cuts all excess off (run_loop; the lines of
\* handle_key go past the cap).
LogNearCap == alerts <= AlertCap + since

\* "Retrying in 2s... (Ctrl-C to abort)" (main.rs:334): no Ctrl-C at start-up is
\* lost.
AbortHeard == ~swallowed

\* "Cap the alert log." (main.rs:494): it holds at most AlertCap lines.
AlertsCapped == alerts <= AlertCap
=============================================================================
