----------------------------- MODULE Tui_proofs -----------------------------
(***************************************************************************)
(* Proofs about Tui, for any period, cap and bounds: what a deletion hits, *)
(* what the connection indicator tells, how far the log outgrows its cap,  *)
(* where the cursor is, and that the list shown never goes back in time.   *)
(* Then about its listener, EventStream, for any frames and chunks: what   *)
(* the lines of a text come to when it is cut, and that the listener tells *)
(* the alerts of whole frames, all of them and no others.                  *)
(***************************************************************************)
EXTENDS Tui, EventStream, FiniteSetTheorems, SequenceTheorems, TLAPS

LEMMA MaxOfTwo ==
  ASSUME NEW a \in Nat, NEW b \in Nat PROVE Max({a, b}) = IF a >= b THEN a ELSE b
  BY DEF Max
LEMMA MinOfTwo ==
  ASSUME NEW a \in Nat, NEW b \in Nat PROVE Min({a, b}) = IF a <= b THEN a ELSE b
  BY DEF Min

LEMMA RemoveAtType ==
  ASSUME NEW V, NEW s \in Seq(V), NEW i \in DOMAIN s PROVE RemoveAt(s, i) \in Seq(V)
  BY DEF RemoveAt
LEMMA Bounds == AlertCap \in Nat /\ MaxIds \in Nat /\ MaxAlerts \in Nat
  BY BoundAssumption

\* The type invariant the proofs need.
Kinds == {"Stats", "Fingerprints", "Alert", "Disconnected"}
Sent == [kind : Kinds, list : Seq(Ids), version : Nat]
Calls == [kind : {"none", "add", "delete"}, id : Ids \cup {NoRule},
          state : {"none", "sent", "answered", "failed"}]
ServerShape == /\ list \in Seq(Ids) /\ created \in 0..MaxIds /\ version \in Nat /\ faults \in Nat
               /\ request \in Calls /\ (request.kind = "add" => request.id \in Ids)
PollerShape == /\ pollPc \in {"off", "stats", "status", "fetch", "send", "end"} /\ ok \in BOOLEAN
               /\ pollPc = "send" => fetched \in Sent /\ fetched.kind = "Fingerprints"
               /\ chan \in Seq(Sent)
AppShape == /\ uiPc \in {"connecting", "waiting", "reconnecting", "drain", "key", "await", "quit"}
            /\ fingerprints \in Seq(Ids) /\ fp_selected \in Nat /\ shown \in Nat
            /\ connected \in BOOLEAN /\ alerts \in Nat /\ since \in Nat
            /\ mode \in {"Normal", "AddFingerprint", "ConfirmDelete"}
            /\ target \in Ids \cup {NoRule}
Shape == ServerShape /\ PollerShape /\ AppShape

LEMMA InitShape == Init => Shape
<1>. SUFFICES ASSUME Init PROVE Shape
  OBVIOUS
<1>1. <<>> \in Seq(Ids) /\ <<>> \in Seq(Sent)
  OBVIOUS
<1>2. NoRequest \in Calls /\ NoRequest.kind # "add"
  BY DEF NoRequest, Calls
<1>3. ServerShape
  BY <1>1, <1>2, Bounds DEF Init, ServerShape
<1>4. PollerShape
  BY <1>1 DEF Init, PollerShape
<1>5. AppShape
  BY <1>1 DEF Init, AppShape
<1>. QED
  BY <1>3, <1>4, <1>5 DEF Shape

LEMMA EventType ==
  /\ \A kind \in Kinds : Event(kind) \in Sent /\ Event(kind).kind = kind
  /\ NoRequest \in Calls /\ NoRequest.kind = "none"
<1>1. <<>> \in Seq(Ids)
  OBVIOUS
<1>. QED
  BY <1>1 DEF Event, Sent, Kinds, NoRequest, Calls

LEMMA SelectedType ==
  Shape => Selected \in Ids \cup {NoRule} /\ (fingerprints # <<>> => Selected \in Ids)
<1>. SUFFICES ASSUME Shape, fingerprints # <<>> PROVE Selected \in Ids
  BY DEF Selected
<1>1. Len(fingerprints) \in Nat \ {0} /\ fp_selected \in Nat
  BY DEF Shape, AppShape
<1>2. Min({fp_selected + 1, Len(fingerprints)}) \in 1..Len(fingerprints)
  BY <1>1, MinOfTwo
<1>. QED
  BY <1>2 DEF Selected, Shape, AppShape

\* Taking an event off the channel, and applying it.
LEMMA DrainStep ==
  ASSUME Shape, Drain
  PROVE  \E event \in Sent :
           /\ event = chan[1] /\ chan # <<>> /\ chan' = Tail(chan) /\ Apply(event)
           /\ UNCHANGED <<server, poller, uiPc, focused, dialog, drawn, swallowed, request>>
  BY DEF Drain, Shape, PollerShape

LEMMA ServerStays == ServerShape /\ UNCHANGED <<server, request>> => ServerShape'
  BY DEF ServerShape, server
LEMMA PollerStays == PollerShape /\ UNCHANGED <<poller, chan>> => PollerShape'
  BY DEF PollerShape, poller
LEMMA AppStays == AppShape /\ UNCHANGED <<uiPc, app>> => AppShape'
  BY DEF AppShape, app, view, log, dialog

\* The analyzer, its clients, and the calls of the dashboard.
Analyzer == \/ Others \/ Call \/ AnalyzerCrash \/ AnalyzerRestart
            \/ AnalyzerHangs \/ AnalyzerRecovers
            \/ \E caller \in Callers : LoseCall(caller)
LEMMA AnalyzerShape ==
  ASSUME Shape, Analyzer PROVE ServerShape' /\ UNCHANGED <<poller, chan, uiPc, app>>
<1>. USE DEF Shape, ServerShape
<1>1. ASSUME NEW id, Retain(id) PROVE list' \in Seq(Ids)
  BY <1>1, RemoveAtType DEF Retain
<1>2. ASSUME NEW id \in Ids PROVE Append(list, id) \in Seq(Ids)
  OBVIOUS
<1>3. created < MaxIds => created + 1 \in Ids /\ created + 1 \in 0..MaxIds
  BY Bounds DEF Ids
<1>4. [request EXCEPT !.state = "failed"] \in Calls /\ [request EXCEPT !.state = "answered"] \in Calls
      /\ [request EXCEPT !.state = "failed"].kind = request.kind
      /\ [request EXCEPT !.state = "failed"].id = request.id
      /\ [request EXCEPT !.state = "answered"].kind = request.kind
      /\ [request EXCEPT !.state = "answered"].id = request.id
  BY DEF Calls
<1>5. <<>> \in Seq(Ids)
  OBVIOUS
<1>. HIDE DEF Calls
<1>6. CASE Others
  <2>1. CASE OtherCreate
    <3>1. list' \in Seq(Ids) /\ created' \in 0..MaxIds /\ version' \in Nat
      BY <1>2, <1>3, <2>1 DEF OtherCreate
    <3>. QED
      BY <2>1, <3>1 DEF OtherCreate
  <2>2. ASSUME NEW id \in Ids, OtherDelete(id) PROVE ServerShape' /\ UNCHANGED <<poller, chan, uiPc, app>>
    <3>1. list' \in Seq(Ids) /\ version' \in Nat
      BY <1>1, <2>2 DEF OtherDelete
    <3>. QED
      BY <2>2, <3>1 DEF OtherDelete
  <2>. QED
    BY <1>6, <2>1, <2>2 DEF Others
<1>7. CASE Serve
  <2>1. list' \in Seq(Ids)
    BY <1>1, <1>2, <1>7 DEF Serve
  <2>2. request' \in Calls /\ (request'.kind = "add" => request'.id \in Ids)
    BY <1>4, <1>7 DEF Serve
  <2>. QED
    BY <1>7, <2>1, <2>2 DEF Serve
<1>8. CASE CallFails
  BY <1>4, <1>8 DEF CallFails, server
<1>9. CASE AnalyzerCrash
  <2>1. request' \in Calls /\ (request'.kind = "add" => request'.id \in Ids)
    BY <1>4, <1>9 DEF AnalyzerCrash
  <2>. QED
    BY <1>5, <1>9, <2>1 DEF AnalyzerCrash
<1>10. CASE \/ AnalyzerRestart \/ AnalyzerHangs \/ AnalyzerRecovers
            \/ \E caller \in Callers : LoseCall(caller)
  BY <1>10 DEF AnalyzerRestart, AnalyzerHangs, AnalyzerRecovers, LoseCall
<1>. QED
  BY <1>6, <1>7, <1>8, <1>9, <1>10 DEF Analyzer, Call

\* The background tasks add to the channel and touch nothing of the UI.
LEMMA TasksShape ==
  ASSUME Shape, Poll \/ StreamAlert PROVE PollerShape' /\ UNCHANGED <<server, uiPc, app, request>>
<1>. USE DEF Shape, PollerShape
<1>1. ASSUME NEW event \in Sent PROVE Append(chan, event) \in Seq(Sent)
  OBVIOUS
<1>2. ASSUME NEW kind \in Kinds PROVE Append(chan, Event(kind)) \in Seq(Sent)
  BY <1>1, EventType
<1>. USE DEF Kinds
<1>3. CASE PollStats
  BY <1>2, <1>3 DEF PollStats, Send, up
<1>4. CASE PollStatus
  BY <1>4 DEF PollStatus, up
<1>5. CASE PollFetch
  <2>1. up => fetched' \in Sent /\ fetched'.kind = "Fingerprints"
    BY <1>5 DEF PollFetch, Sent, ServerShape
  <2>. QED
    BY <1>5, <2>1 DEF PollFetch
<1>6. CASE PollSend
  BY <1>1, <1>6 DEF PollSend, Send
<1>7. CASE PollEnd
  BY <1>2, <1>7 DEF PollEnd, Send
<1>8. CASE StreamAlert
  BY <1>2, <1>8 DEF StreamAlert, Send, poller
<1>. QED
  BY <1>3, <1>4, <1>5, <1>6, <1>7, <1>8 DEF Poll

\* A key leaves alone what the poller and the events are about.
KeyLeaves == /\ uiPc = "key" /\ uiPc' \in {"drain", "await", "quit"}
             /\ UNCHANGED <<poller, chan, connected, swallowed, log, fingerprints, shown, list, version>>
LEMMA KeyShape ==
  ASSUME Shape, KeyPress PROVE ServerShape' /\ AppShape' /\ KeyLeaves
<1>. USE DEF Shape, AppShape, KeyLeaves, log
<1>1. CASE Quit
  BY <1>1, ServerStays DEF Quit, Key, server, view, dialog
<1>2. ASSUME NEW panel \in Panel, Focus(panel) PROVE ServerShape' /\ AppShape' /\ KeyLeaves
  BY <1>2, ServerStays DEF Focus, Key, server, view, dialog
<1>3. ASSUME NEW to \in 0..MaxIds, Move(to) PROVE ServerShape' /\ AppShape' /\ KeyLeaves
  BY <1>3, ServerStays DEF Move, Key, server, dialog
<1>4. CASE PressAdd
  BY <1>4, ServerStays DEF PressAdd, Key, server, view
<1>5. CASE PressDelete
  BY <1>5, ServerStays, SelectedType DEF PressDelete, Key, server, view
<1>6. ASSUME NEW text \in {"blank", "named"}, Type(text) PROVE ServerShape' /\ AppShape' /\ KeyLeaves
  BY <1>6, ServerStays DEF Type, Key, server, view
<1>7. CASE EnterName
  <2>1. /\ input = "blank" => Confirm(NoRequest) /\ UNCHANGED created
        /\ input # "blank" => /\ created < MaxIds /\ created' = created + 1
                              /\ Confirm([kind |-> "add", id |-> created + 1, state |-> "sent"])
    BY <1>7 DEF EnterName
  <2>2. AppShape' /\ KeyLeaves
    BY <1>7, <2>1 DEF EnterName, Confirm, view
  <2>3. created' \in 0..MaxIds
    BY <2>1, Bounds DEF ServerShape
  <2>4. request' \in Calls /\ (request'.kind = "add" => request'.id \in Ids)
    <3>1. CASE input = "blank"
      BY <2>1, <3>1, EventType DEF Confirm, ServerShape, NoRequest
    <3>2. CASE input # "blank"
      <4>1. created + 1 \in Ids
        BY <2>1, <3>2, Bounds DEF ServerShape, Ids
      <4>2. request' = [kind |-> "add", id |-> created + 1, state |-> "sent"]
        BY <2>1, <3>2 DEF Confirm
      <4>. QED
        BY <4>1, <4>2 DEF Calls
    <3>. QED
      BY <3>1, <3>2
  <2>. QED
    BY <1>7, <2>2, <2>3, <2>4 DEF EnterName, ServerShape
<1>8. CASE PressYes
  <2>1. request' = [kind |-> "delete", id |-> target, state |-> "sent"]
    BY <1>8 DEF PressYes, Confirm
  <2>2. request' \in Calls /\ request'.kind = "delete"
    BY <2>1 DEF Calls
  <2>. QED
    BY <1>8, <2>2 DEF PressYes, Key, Confirm, ServerShape, server, view
<1>9. CASE Cancel
  BY <1>9, ServerStays DEF Cancel, Key, Confirm, NoRequest, server, view
<1>. QED
  BY <1>1, <1>2, <1>3, <1>4, <1>5, <1>6, <1>7, <1>8, <1>9 DEF KeyPress

\* Until the analyzer has answered once there is nothing to show.
Startup == ConnectFails \/ Retry \/ Abort \/ AbortUnheard
LEMMA StartupShape ==
  ASSUME Shape, Startup
  PROVE  /\ AppShape' /\ uiPc \in {"connecting", "waiting", "reconnecting"}
         /\ uiPc' \in {"waiting", "reconnecting", "quit"}
         /\ UNCHANGED <<server, request, poller, chan, view, focused, connected, log, dialog, drawn>>
  BY DEF Startup, ConnectFails, Retry, Abort, AbortUnheard, Fetching, Shape, AppShape, app, view, log, dialog

LEMMA ApplyShape ==
  ASSUME Shape, NEW event \in Sent, Apply(event)
  PROVE  /\ fingerprints' \in Seq(Ids) /\ fp_selected' \in Nat /\ shown' \in Nat
         /\ connected' \in BOOLEAN /\ alerts' \in Nat /\ since' \in Nat
<1>. USE DEF Shape, AppShape, view, log
<1>1. /\ event.list \in Seq(Ids) /\ event.version \in Nat /\ Len(event.list) \in Nat
      /\ event.kind \in {"Stats", "Fingerprints", "Alert", "Disconnected"}
  BY DEF Sent, Kinds
<1>2. Max({Len(event.list), 1}) - 1 \in Nat
  BY <1>1, MaxOfTwo
<1>3. Min({alerts + 1, AlertCap}) \in Nat
  BY MinOfTwo, Bounds
<1>4. CASE event.kind = "Stats" \/ event.kind = "Disconnected"
  BY <1>4 DEF Apply
<1>5. CASE event.kind = "Fingerprints"
  BY <1>1, <1>2, <1>5 DEF Apply
<1>6. CASE event.kind = "Alert"
  BY <1>3, <1>6 DEF Apply
<1>. QED
  BY <1>1, <1>4, <1>5, <1>6

LEMMA NextShape == Shape /\ [Next]_vars => Shape'
<1>. SUFFICES ASSUME Shape, [Next]_vars PROVE Shape'
  OBVIOUS
<1>. USE DEF Shape
<1>1. CASE Analyzer
  BY <1>1, AnalyzerShape, PollerStays, AppStays
<1>2. CASE Poll \/ StreamAlert
  BY <1>2, TasksShape, ServerStays, AppStays
<1>3. CASE KeyPress
  BY <1>3, KeyShape, PollerStays DEF KeyLeaves
<1>4. CASE Startup
  BY <1>4, StartupShape, ServerStays, PollerStays
<1>5. CASE Connect
  BY <1>5, ServerStays DEF Connect, PollerShape, AppShape, view, log, dialog
<1>6. CASE Drain
  <2>1. PICK event \in Sent : /\ chan' = Tail(chan) /\ chan # <<>> /\ Apply(event)
           /\ UNCHANGED <<server, poller, uiPc, focused, dialog, drawn, swallowed, request>>
    BY <1>6, DrainStep
  <2>2. PollerShape'
    BY <2>1 DEF PollerShape, poller
  <2>3. AppShape'
    BY <2>1, ApplyShape DEF AppShape, dialog
  <2>. QED
    BY <2>1, <2>2, <2>3, ServerStays
<1>7. CASE Draw \/ NoKey
  BY <1>7, ServerStays, PollerStays DEF Draw, NoKey, AppShape, view, log, dialog
<1>8. CASE Answer
  BY <1>8, PollerStays, EventType DEF Answer, ServerShape, AppShape, server, view
<1>9. CASE UNCHANGED vars
  BY <1>9, ServerStays, PollerStays, AppStays DEF vars
<1>. QED
  BY <1>1, <1>2, <1>3, <1>4, <1>5, <1>6, <1>7, <1>8, <1>9 DEF Next, Loop, Startup, Analyzer

LEMMA ShapeAlways == Spec => []Shape
  BY InitShape, NextShape, PTL DEF Spec

\* What the analyzer does to a call of the dashboard and to the list's version.
LEMMA AnalyzerKeeps ==
  ASSUME Shape, Analyzer
  PROVE  version' >= version /\ request'.kind = request.kind /\ request'.id = request.id
<1>1. version \in Nat /\ request \in Calls
  BY DEF Shape, ServerShape
<1>2. /\ [request EXCEPT !.state = "failed"].kind = request.kind
      /\ [request EXCEPT !.state = "failed"].id = request.id
      /\ [request EXCEPT !.state = "answered"].kind = request.kind
      /\ [request EXCEPT !.state = "answered"].id = request.id
  BY <1>1 DEF Calls
<1>3. CASE \/ Others \/ AnalyzerRestart \/ AnalyzerHangs \/ AnalyzerRecovers
           \/ \E caller \in Callers : LoseCall(caller)
  BY <1>1, <1>3 DEF Others, OtherCreate, OtherDelete, AnalyzerRestart, AnalyzerHangs, AnalyzerRecovers,
                    LoseCall
<1>4. CASE Serve
  BY <1>1, <1>2, <1>4 DEF Serve
<1>5. CASE CallFails
  BY <1>1, <1>2, <1>5 DEF CallFails, server
<1>6. CASE AnalyzerCrash
  <2>1. request' = request \/ request' = [request EXCEPT !.state = "failed"]
    BY <1>6 DEF AnalyzerCrash
  <2>2. version' = version + 1
    BY <1>6 DEF AnalyzerCrash
  <2>3. version' >= version
    BY <1>1, <2>2
  <2>4. request'.kind = request.kind /\ request'.id = request.id
    BY <1>2, <2>1, Zenon
  <2>. QED
    BY <2>3, <2>4
<1>. QED
  BY <1>3, <1>4, <1>5, <1>6 DEF Analyzer, Call

-----------------------------------------------------------------------------
\* LogNearCap: the log outgrows its cap by no more than the lines that keys have
\* added since the last alert (run_loop applies the cap, handle_key does not).
THEOREM LogStaysNearCap == Spec => []LogNearCap
<1>1. Init => LogNearCap
  BY Bounds DEF Init, LogNearCap
<1>2. Shape /\ LogNearCap /\ [Next]_vars => LogNearCap'
  <2>. SUFFICES ASSUME Shape, LogNearCap, [Next]_vars PROVE LogNearCap'
    OBVIOUS
  <2>. USE DEF LogNearCap
  <2>1. CASE Drain
    <3>1. PICK event \in Sent : Apply(event)
      BY <2>1, DrainStep
    <3>2. CASE event.kind = "Alert"
      <4>1. alerts' = Min({alerts + 1, AlertCap}) /\ since' = 0
        BY <3>1, <3>2 DEF Apply
      <4>2. Min({alerts + 1, AlertCap}) <= AlertCap
        BY MinOfTwo, Bounds DEF Shape, AppShape
      <4>. QED
        BY <4>1, <4>2, Bounds
    <3>3. CASE event.kind # "Alert"
      BY <3>1, <3>3 DEF Apply, log, Sent, Kinds
    <3>. QED
      BY <3>2, <3>3
  <2>2. CASE Answer
    BY <2>2, Bounds DEF Answer, Shape, AppShape
  <2>3. CASE Analyzer \/ Poll \/ StreamAlert
    BY <2>3, AnalyzerShape, TasksShape DEF app, log
  <2>4. CASE KeyPress \/ Startup
    BY <2>4, KeyShape, StartupShape DEF KeyLeaves, log
  <2>5. CASE Connect \/ Draw \/ NoKey \/ UNCHANGED vars
    BY <2>5 DEF Connect, Draw, NoKey, vars, app, log
  <2>. QED
    BY <2>1, <2>2, <2>3, <2>4, <2>5 DEF Next, Loop, Startup, Analyzer
<1>. QED
  BY <1>1, <1>2, ShapeAlways, PTL DEF Spec

\* SelectionInList: the cursor is on a rule, or at the top of an empty list,
\* however the list shrinks under it (run_loop clamps it).
THEOREM SelectionStaysInList == Spec => []SelectionInList
<1>1. Init => SelectionInList
  <2>1. Max({0, 1}) = 1
    BY MaxOfTwo
  <2>2. Len(<<>>) = 0
    OBVIOUS
  <2>. QED
    BY <2>1, <2>2 DEF Init, SelectionInList
<1>2. Shape /\ SelectionInList /\ [Next]_vars => SelectionInList'
  <2>. SUFFICES ASSUME Shape, SelectionInList, [Next]_vars PROVE SelectionInList'
    OBVIOUS
  <2>. DEFINE Fits(n, i) == i < IF n >= 1 THEN n ELSE 1
  <2>1. SelectionInList <=> Fits(Len(fingerprints), fp_selected)
    BY MaxOfTwo DEF SelectionInList, Shape, AppShape
  <2>2. SelectionInList' <=> Fits(Len(fingerprints'), fp_selected')
    <3>1. fingerprints' \in Seq(Ids)
      BY NextShape DEF Shape, AppShape
    <3>. QED
      BY <3>1, MaxOfTwo DEF SelectionInList
  <2>3. CASE Drain
    <3>1. PICK event \in Sent : Apply(event)
      BY <2>3, DrainStep
    <3>2. Len(event.list) \in Nat /\ fp_selected \in Nat
      BY DEF Sent, Shape, AppShape
    <3>3. Max({Len(event.list), 1}) = IF Len(event.list) >= 1 THEN Len(event.list) ELSE 1
      BY <3>2, MaxOfTwo
    <3>4. CASE event.kind = "Fingerprints"
      <4>1. /\ fingerprints' = event.list
            /\ fp_selected' = IF fp_selected >= Len(event.list)
                              THEN Max({Len(event.list), 1}) - 1 ELSE fp_selected
        BY <3>1, <3>4 DEF Apply
      <4>2. Fits(Len(event.list), fp_selected')
        BY <3>2, <3>3, <4>1
      <4>. QED
        BY <2>2, <4>1, <4>2
    <3>5. CASE event.kind # "Fingerprints"
      BY <2>1, <2>2, <3>1, <3>5 DEF Apply, view, Sent, Kinds
    <3>. QED
      BY <3>4, <3>5
  <2>4. ASSUME NEW to \in 0..MaxIds, Move(to) PROVE SelectionInList'
    <3>1. fp_selected \in Nat /\ Len(fingerprints) \in Nat
      BY DEF Shape, AppShape
    <3>2. Max({fp_selected, 1}) - 1 <= fp_selected
      BY <3>1, <2>1, MaxOfTwo
    <3>. QED
      BY <2>1, <2>2, <2>4, <3>1, <3>2 DEF Move
  <2>5. CASE Analyzer \/ Poll \/ StreamAlert \/ Startup
    BY <2>5, AnalyzerShape, TasksShape, StartupShape DEF app, view, SelectionInList
  <2>6. CASE Connect \/ Draw \/ NoKey \/ Answer \/ UNCHANGED vars
    BY <2>6 DEF Connect, Draw, NoKey, Answer, vars, app, view, SelectionInList
  <2>7. ASSUME KeyPress, \A to \in 0..MaxIds : ~Move(to) PROVE SelectionInList'
    BY <2>7 DEF KeyPress, Quit, PressAdd, PressDelete, EnterName, PressYes, Cancel, Focus, Type,
                Confirm, view, SelectionInList
  <2>. QED
    BY <2>3, <2>4, <2>5, <2>6, <2>7 DEF Next, Loop, Startup, Analyzer
<1>. QED
  BY <1>1, <1>2, ShapeAlways, PTL DEF Spec

-----------------------------------------------------------------------------
\* What is highlighted on the screen is what `d` would take, and a deletion
\* that is asked for, or under way, is of the rule that was highlighted.
DeleteInv == /\ uiPc = "key" => drawn = Selected
             /\ uiPc # "await" => request.kind = "none"
             /\ uiPc = "await" => mode = "Normal"
             /\ DeletesOnlyHighlighted

LEMMA KeysDelete == ASSUME Shape, DeleteInv, KeyPress PROVE DeleteInv'
<1>. USE DEF DeleteInv, DeletesOnlyHighlighted
<1>1. uiPc = "key" /\ request.kind = "none" /\ uiPc' # "key"
  BY KeyShape DEF KeyLeaves
<1>2. ASSUME UNCHANGED <<dialog, request>>, uiPc' # "await" PROVE DeleteInv'
  BY <1>1, <1>2 DEF dialog
<1>3. CASE Quit \/ \E panel \in Panel : Focus(panel)
  BY <1>2, <1>3 DEF Quit, Focus
<1>4. ASSUME NEW to \in 0..MaxIds, Move(to) PROVE DeleteInv'
  BY <1>2, <1>4 DEF Move
<1>5. CASE PressAdd \/ \E text \in {"blank", "named"} : Type(text)
  BY <1>1, <1>5 DEF PressAdd, Type, Key
<1>6. CASE PressDelete
  <2>1. Selected \in Ids /\ drawn = Selected
    BY <1>1, <1>6, SelectedType DEF PressDelete
  <2>. QED
    BY <1>1, <1>6, <2>1, NoneAssumption DEF PressDelete
<1>7. CASE EnterName \/ Cancel
  <2>1. mode' = "Normal" /\ request'.kind # "delete" /\ (uiPc' # "await" => request'.kind = "none")
    <3>1. ASSUME Confirm(NoRequest) PROVE UNCHANGED request /\ mode' = "Normal"
      BY <3>1 DEF Confirm, NoRequest
    <3>2. ASSUME Confirm([kind |-> "add", id |-> created + 1, state |-> "sent"])
          PROVE  request'.kind = "add" /\ mode' = "Normal" /\ uiPc' = "await"
      BY <3>2 DEF Confirm
    <3>. QED
      BY <1>1, <1>7, <3>1, <3>2 DEF EnterName, Cancel
  <2>. QED
    BY <1>1, <2>1
<1>8. CASE PressYes
  <2>1. /\ mode = "ConfirmDelete" /\ mode' = "Normal" /\ asked' = asked /\ uiPc' = "await"
        /\ request' = [kind |-> "delete", id |-> target, state |-> "sent"]
    BY <1>8 DEF PressYes, Key, Confirm
  <2>. QED
    BY <2>1
<1>. QED
  BY <1>3, <1>4, <1>5, <1>6, <1>7, <1>8 DEF KeyPress

LEMMA NextDeleteInv == Shape /\ DeleteInv /\ [Next]_vars => DeleteInv'
<1>. SUFFICES ASSUME Shape, DeleteInv, [Next]_vars PROVE DeleteInv'
  OBVIOUS
<1>. USE DEF DeleteInv, DeletesOnlyHighlighted
<1>1. ASSUME UNCHANGED <<view, dialog, drawn, request>>, uiPc' = uiPc \/ uiPc' \notin {"key", "await"},
             uiPc' # "await" => uiPc # "await"
      PROVE  DeleteInv'
  BY <1>1 DEF view, dialog, Selected
<1>2. CASE Analyzer
  <2>1. Selected' = Selected
    BY <1>2, AnalyzerShape DEF app, view, Selected
  <2>. QED
    BY <1>2, <2>1, AnalyzerShape, AnalyzerKeeps DEF app, dialog
<1>3. CASE Poll \/ StreamAlert
  BY <1>1, <1>3, TasksShape DEF app
<1>4. CASE KeyPress
  BY <1>4, KeysDelete
<1>5. CASE Startup
  BY <1>1, <1>5, StartupShape
<1>6. CASE Connect
  BY <1>1, <1>6 DEF Connect, Fetching
<1>7. CASE Drain
  BY <1>7 DEF Drain, dialog
<1>8. CASE Draw
  BY <1>8 DEF Draw, view, dialog, Selected
<1>9. CASE NoKey
  BY <1>9 DEF NoKey, dialog
<1>10. CASE Answer
  <2>1. mode' = mode /\ request' = NoRequest /\ uiPc' = "drain" /\ uiPc = "await"
    BY <1>10 DEF Answer
  <2>. QED
    BY <2>1, EventType
<1>11. CASE UNCHANGED vars
  BY <1>1, <1>11 DEF vars, app
<1>. QED
  BY <1>2, <1>3, <1>4, <1>5, <1>6, <1>7, <1>8, <1>9, <1>10, <1>11 DEF Next, Loop, Startup, Analyzer

\* DeletesOnlyHighlighted: no rule is deleted but the one that was highlighted
\* on the screen when `d` was pressed, whatever was fetched in between.
THEOREM DeletesWhatWasHighlighted == Spec => []DeletesOnlyHighlighted
<1>1. Init => DeleteInv
  BY EventType DEF Init, DeleteInv, DeletesOnlyHighlighted
<1>2. DeleteInv => DeletesOnlyHighlighted
  BY DEF DeleteInv
<1>. QED
  BY <1>1, <1>2, NextDeleteInv, ShapeAlways, PTL DEF Spec

-----------------------------------------------------------------------------
\* The lists on their way to the screen are in the order of their fetches, none
\* older than the one shown and none newer than the analyzer's.
IsList(event) == event.kind = "Fingerprints"
VersionInv ==
  /\ shown <= version
  /\ \A i \in DOMAIN chan : IsList(chan[i]) =>
       /\ shown <= chan[i].version /\ chan[i].version <= version
       /\ pollPc = "send" => chan[i].version <= fetched.version
       /\ \A j \in DOMAIN chan : i < j /\ IsList(chan[j]) => chan[i].version <= chan[j].version
  /\ pollPc = "send" => shown <= fetched.version /\ fetched.version <= version

LEMMA SendVersion ==
  ASSUME Shape, VersionInv, NEW event \in Sent, chan' = Append(chan, event),
         UNCHANGED <<shown, version>>,
         pollPc' = "send" => UNCHANGED <<pollPc, fetched>> /\ ~IsList(event),
         IsList(event) => pollPc = "send" /\ event.version = fetched.version
  PROVE  VersionInv'
<1>1. /\ chan' \in Seq(Sent) /\ Len(chan') = Len(chan) + 1 /\ Len(chan) \in Nat
      /\ DOMAIN chan = 1..Len(chan) /\ DOMAIN chan' = 1..(Len(chan) + 1)
      /\ chan'[Len(chan) + 1] = event /\ \A i \in 1..Len(chan) : chan'[i] = chan[i]
  BY DEF Shape, PollerShape
<1>2. ASSUME NEW i \in DOMAIN chan PROVE chan[i].version \in Nat
  <2>1. chan[i] \in Sent
    BY DEF Shape, PollerShape
  <2>. QED
    BY <2>1 DEF Sent
<1>3. shown \in Nat /\ version \in Nat /\ event.version \in Nat
  BY DEF Shape, ServerShape, AppShape, Sent
<1>. QED
  BY <1>1, <1>2, <1>3 DEF VersionInv

LEMMA DrainVersion ==
  ASSUME Shape, VersionInv, Drain PROVE VersionInv' /\ shown' >= shown
<1>1. PICK event \in Sent :
        /\ event = chan[1] /\ chan # <<>> /\ chan' = Tail(chan) /\ Apply(event)
        /\ UNCHANGED <<server, poller, uiPc, focused, dialog, drawn, swallowed, request>>
  BY DrainStep
<1>2. /\ Len(chan) \in Nat \ {0} /\ DOMAIN chan = 1..Len(chan) /\ DOMAIN chan' = 1..(Len(chan) - 1)
      /\ \A i \in 1..(Len(chan) - 1) : chan'[i] = chan[i + 1]
  BY <1>1 DEF Shape, PollerShape
<1>3. UNCHANGED <<version, pollPc, fetched>>
  BY <1>1 DEF server, poller
<1>4. shown' = IF IsList(event) THEN event.version ELSE shown
  BY <1>1 DEF Apply, view, Sent, Kinds, IsList
<1>5. shown \in Nat
  BY DEF Shape, AppShape
<1>6. shown' >= shown
  BY <1>1, <1>2, <1>4, <1>5 DEF VersionInv
<1>7. \A i \in DOMAIN chan' : i + 1 \in DOMAIN chan /\ 1 \in DOMAIN chan /\ 1 < i + 1 /\ chan'[i] = chan[i + 1]
  BY <1>2
<1>8. shown' <= version /\ (pollPc = "send" => shown' <= fetched.version)
  BY <1>1, <1>4, <1>7, <1>2 DEF VersionInv
<1>9. \A i \in DOMAIN chan' : IsList(chan'[i]) => shown' <= chan'[i].version
  BY <1>1, <1>4, <1>7 DEF VersionInv
<1>10. \A i, j \in DOMAIN chan' : i < j /\ IsList(chan'[i]) /\ IsList(chan'[j])
                                => chan'[i].version <= chan'[j].version
  BY <1>2, <1>7 DEF VersionInv
<1>. QED
  BY <1>3, <1>6, <1>7, <1>8, <1>9, <1>10 DEF VersionInv

LEMMA NextVersionInv == Shape /\ VersionInv /\ [Next]_vars => VersionInv' /\ shown' >= shown
<1>. SUFFICES ASSUME Shape, VersionInv, [Next]_vars PROVE VersionInv' /\ shown' >= shown
  OBVIOUS
<1>1. shown \in Nat /\ version \in Nat
  BY DEF Shape, ServerShape, AppShape
<1>2. ASSUME UNCHANGED <<shown, version, poller, chan>> PROVE VersionInv' /\ shown' >= shown
  BY <1>1, <1>2 DEF VersionInv, poller
<1>3. CASE Analyzer
  <2>1. UNCHANGED <<shown, poller, chan>> /\ version' >= version
    BY <1>3, AnalyzerShape, AnalyzerKeeps DEF app, view
  <2>2. version' \in Nat
    BY NextShape DEF Shape, ServerShape
  <2>3. ASSUME NEW i \in DOMAIN chan PROVE chan[i].version \in Nat
    <3>1. chan[i] \in Sent
      BY DEF Shape, PollerShape
    <3>. QED
      BY <3>1 DEF Sent
  <2>4. pollPc = "send" => fetched.version \in Nat
    BY DEF Shape, PollerShape, Sent
  <2>. QED
    BY <1>1, <2>1, <2>2, <2>3, <2>4 DEF VersionInv, poller
<1>4. CASE Poll \/ StreamAlert
  <2>1. UNCHANGED <<shown, version>>
    BY <1>4, TasksShape DEF app, view, server
  <2>. SUFFICES VersionInv'
    BY <1>1, <2>1
  <2>2. ASSUME NEW event \in Sent, chan' = Append(chan, event),
               pollPc' = "send" => UNCHANGED <<pollPc, fetched>> /\ ~IsList(event),
               IsList(event) => pollPc = "send" /\ event.version = fetched.version
        PROVE  VersionInv'
    BY <2>1, <2>2, SendVersion
  <2>3. ASSUME NEW kind \in Kinds \ {"Fingerprints"}, Send(Event(kind)),
               pollPc' = "send" => UNCHANGED <<pollPc, fetched>>
        PROVE  VersionInv'
    BY <2>2, <2>3, EventType DEF Send, IsList
  <2>4. ASSUME UNCHANGED chan, pollPc' # "send" PROVE VersionInv'
    BY <2>1, <2>4 DEF VersionInv
  <2>5. CASE PollStats
    BY <2>3, <2>4, <2>5 DEF PollStats, Kinds
  <2>6. CASE PollStatus
    BY <2>4, <2>6 DEF PollStatus
  <2>7. CASE PollFetch
    <3>1. CASE up
      <4>1. /\ pollPc' = "send" /\ fetched'.version = version /\ UNCHANGED chan /\ pollPc = "fetch"
        BY <2>7, <3>1 DEF PollFetch
      <4>. QED
        BY <2>1, <4>1, <1>1 DEF VersionInv
    <3>. QED
      BY <2>4, <2>7, <3>1 DEF PollFetch
  <2>8. CASE PollSend
    BY <2>2, <2>8 DEF PollSend, Send, Shape, PollerShape
  <2>9. CASE PollEnd
    BY <2>3, <2>4, <2>9 DEF PollEnd, Kinds
  <2>10. CASE StreamAlert
    BY <2>3, <2>10 DEF StreamAlert, Kinds, poller
  <2>. QED
    BY <1>4, <2>5, <2>6, <2>7, <2>8, <2>9, <2>10 DEF Poll
<1>5. CASE KeyPress
  BY <1>2, <1>5, KeyShape DEF KeyLeaves
<1>6. CASE Startup
  BY <1>2, <1>6, StartupShape DEF server, view
<1>7. CASE Connect
  <2>1. UNCHANGED <<shown, version, fetched, chan>> /\ pollPc' # "send"
    BY <1>7 DEF Connect, server, view
  <2>. QED
    BY <1>1, <2>1 DEF VersionInv
<1>8. CASE Drain
  BY <1>8, DrainVersion
<1>9. CASE Draw \/ NoKey \/ Answer \/ UNCHANGED vars
  BY <1>2, <1>9 DEF Draw, NoKey, Answer, vars, server, app, view
<1>. QED
  BY <1>3, <1>4, <1>5, <1>6, <1>7, <1>8, <1>9 DEF Next, Loop, Startup, Analyzer

\* ShownAdvances: the dashboard never goes back to an older list of the rules
\* than it has shown.
THEOREM NeverShowsOlder == Spec => ShownAdvances
<1>1. Init => VersionInv
  BY DEF Init, VersionInv
<1>. QED
  BY <1>1, NextVersionInv, ShapeAlways, PTL DEF Spec, ShownAdvances

-----------------------------------------------------------------------------
\* What the indicator says once the events on the channel have been applied:
\* what the last of them tells that tells anything, else what it says now.
Tells(event) == event.kind \in {"Stats", "Disconnected"}
Says(event) == event.kind = "Stats"
SettlesOn(says, q, b) ==
  \/ /\ \A i \in DOMAIN q : ~Tells(q[i])
     /\ says = b
  \/ \E i \in DOMAIN q : /\ Tells(q[i]) /\ Says(q[i]) = b
                         /\ \A j \in DOMAIN q : i < j => ~Tells(q[j])

LEMMA SettlesAppend ==
  ASSUME NEW says \in BOOLEAN, NEW b \in BOOLEAN, NEW q \in Seq(Sent), NEW event \in Sent
  PROVE  /\ Tells(event) => SettlesOn(says, Append(q, event), Says(event))
         /\ ~Tells(event) /\ SettlesOn(says, q, b) => SettlesOn(says, Append(q, event), b)
<1>1. PICK n, r : /\ n \in Nat /\ r = Append(q, event) /\ DOMAIN q = 1..n /\ DOMAIN r = 1..(n + 1)
                /\ r[n + 1] = event /\ \A i \in 1..n : r[i] = q[i]
  <2>1. /\ Len(q) \in Nat /\ DOMAIN q = 1..Len(q) /\ DOMAIN Append(q, event) = 1..(Len(q) + 1)
        /\ Append(q, event)[Len(q) + 1] = event
        /\ \A i \in 1..Len(q) : Append(q, event)[i] = q[i]
    OBVIOUS
  <2>. QED
    BY <2>1
<1>2. Tells(event) => SettlesOn(says, r, Says(event))
  BY <1>1 DEF SettlesOn
<1>3. ASSUME ~Tells(event), SettlesOn(says, q, b) PROVE SettlesOn(says, r, b)
  <2>1. CASE says = b /\ \A i \in DOMAIN q : ~Tells(q[i])
    BY <1>1, <1>3, <2>1 DEF SettlesOn
  <2>2. ASSUME NEW i \in DOMAIN q, Tells(q[i]), Says(q[i]) = b,
               \A j \in DOMAIN q : i < j => ~Tells(q[j])
        PROVE  SettlesOn(says, r, b)
    <3>1. i \in DOMAIN r /\ Tells(r[i]) /\ Says(r[i]) = b /\ \A j \in DOMAIN r : i < j => ~Tells(r[j])
      BY <1>1, <1>3, <2>2
    <3>. QED
      BY <3>1 DEF SettlesOn
  <2>. QED
    BY <1>3, <2>1, <2>2 DEF SettlesOn
<1>. QED
  BY <1>1, <1>2, <1>3

LEMMA SettlesTail ==
  ASSUME NEW says \in BOOLEAN, NEW b \in BOOLEAN, NEW q \in Seq(Sent), q # <<>>, SettlesOn(says, q, b)
  PROVE  SettlesOn(IF Tells(q[1]) THEN Says(q[1]) ELSE says, Tail(q), b)
<1>1. PICK n, r : /\ n \in Nat /\ r = Tail(q) /\ DOMAIN q = 1..(n + 1) /\ DOMAIN r = 1..n
                /\ \A i \in 1..n : r[i] = q[i + 1]
  <2>1. Len(q) \in Nat \ {0}
    OBVIOUS
  <2>2. /\ Len(q) - 1 \in Nat /\ DOMAIN q = 1..((Len(q) - 1) + 1) /\ DOMAIN Tail(q) = 1..(Len(q) - 1)
        /\ \A i \in 1..(Len(q) - 1) : Tail(q)[i] = q[i + 1]
    BY <2>1
  <2>. QED
    BY <2>2
<1>. DEFINE now == IF Tells(q[1]) THEN Says(q[1]) ELSE says
<1>. HIDE DEF now
<1>2. CASE says = b /\ \A i \in DOMAIN q : ~Tells(q[i])
  <2>1. now = b
    BY <1>1, <1>2 DEF now
  <2>. QED
    BY <1>1, <1>2, <2>1 DEF SettlesOn, now
<1>3. ASSUME NEW i \in DOMAIN q, Tells(q[i]), Says(q[i]) = b,
             \A j \in DOMAIN q : i < j => ~Tells(q[j])
      PROVE  SettlesOn(now, r, b)
  <2>1. CASE i = 1
    <3>1. now = b
      BY <1>3, <2>1 DEF now
    <3>2. \A j \in DOMAIN r : ~Tells(r[j])
      BY <1>1, <1>3, <2>1
    <3>. QED
      BY <3>1, <3>2 DEF SettlesOn
  <2>2. CASE i # 1
    <3>1. i - 1 \in DOMAIN r /\ r[i - 1] = q[i]
      BY <1>1, <2>2
    <3>2. \A j \in DOMAIN r : i - 1 < j => ~Tells(r[j])
      BY <1>1, <1>3
    <3>. QED
      BY <1>3, <3>1, <3>2 DEF SettlesOn
  <2>. QED
    BY <2>1, <2>2
<1>. QED
  BY <1>1, <1>2, <1>3 DEF SettlesOn, now

\* Between two cycles the indicator settles on the outcome of the last one; in
\* a cycle that has had no failure so far, on "connected".
CycleInv ==
  /\ uiPc \in {"connecting", "waiting", "reconnecting"} => pollPc = "off" /\ ok /\ chan = <<>>
  /\ pollPc = "stats" => SettlesOn(connected, chan, ok)
  /\ pollPc \in {"status", "fetch", "send", "end"} /\ ok => SettlesOn(connected, chan, TRUE)

LEMMA TasksCycle ==
  ASSUME Shape, CycleInv, uiPc # "quit" /\ (Poll \/ StreamAlert) PROVE CycleInv'
<1>1. connected \in BOOLEAN /\ chan \in Seq(Sent) /\ ok \in BOOLEAN
  BY DEF Shape, PollerShape, AppShape
<1>2. UNCHANGED <<uiPc, connected>>
  BY TasksShape DEF app
<1>3. uiPc \notin {"connecting", "waiting", "reconnecting"}
  BY DEF CycleInv, Poll, PollStats, PollStatus, PollFetch, PollSend, PollEnd, StreamAlert
<1>4. /\ Event("Stats") \in Sent /\ Tells(Event("Stats")) /\ Says(Event("Stats")) = TRUE
      /\ Event("Disconnected") \in Sent /\ Tells(Event("Disconnected"))
      /\ Says(Event("Disconnected")) = FALSE
      /\ Event("Alert") \in Sent /\ ~Tells(Event("Alert"))
  BY EventType DEF Kinds, Tells, Says
<1>5. CASE PollStats
  <2>1. ok' => SettlesOn(connected, chan', TRUE)
    BY <1>1, <1>4, <1>5, SettlesAppend DEF PollStats, Send, up
  <2>. QED
    BY <1>2, <1>3, <1>5, <2>1 DEF CycleInv, PollStats
<1>6. CASE PollStatus
  BY <1>2, <1>3, <1>6 DEF CycleInv, PollStatus
<1>7. CASE PollFetch
  BY <1>2, <1>3, <1>7 DEF CycleInv, PollFetch
<1>8. CASE PollSend
  <2>1. fetched \in Sent /\ ~Tells(fetched)
    BY <1>8 DEF PollSend, Shape, PollerShape, Tells
  <2>2. ok => SettlesOn(connected, chan', TRUE)
    BY <1>1, <1>8, <2>1, SettlesAppend DEF CycleInv, PollSend, Send
  <2>. QED
    BY <1>2, <1>3, <1>8, <2>2 DEF CycleInv, PollSend
<1>9. CASE PollEnd
  <2>1. SettlesOn(connected, chan', ok)
    <3>1. CASE ok
      BY <1>1, <1>9, <3>1 DEF CycleInv, PollEnd
    <3>2. CASE ~ok
      BY <1>1, <1>4, <1>9, <3>2, SettlesAppend DEF PollEnd, Send
    <3>. QED
      BY <3>1, <3>2
  <2>. QED
    BY <1>2, <1>3, <1>9, <2>1 DEF CycleInv, PollEnd
<1>10. CASE StreamAlert
  <2>1. \A b \in BOOLEAN : SettlesOn(connected, chan, b) => SettlesOn(connected, chan', b)
    BY <1>1, <1>4, <1>10, SettlesAppend DEF StreamAlert, Send
  <2>. QED
    BY <1>1, <1>2, <1>3, <1>10, <2>1 DEF CycleInv, StreamAlert, poller
<1>. QED
  BY <1>5, <1>6, <1>7, <1>8, <1>9, <1>10 DEF Poll

LEMMA DrainCycle == ASSUME Shape, CycleInv, Drain PROVE CycleInv'
<1>1. PICK event \in Sent :
        /\ event = chan[1] /\ chan # <<>> /\ chan' = Tail(chan) /\ Apply(event)
        /\ UNCHANGED <<server, poller, uiPc, focused, dialog, drawn, swallowed, request>>
  BY DrainStep
<1>2. connected \in BOOLEAN /\ chan \in Seq(Sent) /\ ok \in BOOLEAN
  BY DEF Shape, PollerShape, AppShape
<1>3. connected' = IF Tells(event) THEN Says(event) ELSE connected
  BY <1>1 DEF Apply, Tells, Says, Sent, Kinds
<1>4. \A b \in BOOLEAN : SettlesOn(connected, chan, b) => SettlesOn(connected', chan', b)
  BY <1>1, <1>2, <1>3, SettlesTail
<1>5. UNCHANGED <<pollPc, ok, uiPc>> /\ uiPc = "drain"
  BY <1>1 DEF poller, Drain
<1>. QED
  BY <1>2, <1>4, <1>5 DEF CycleInv

LEMMA NextCycleInv == Shape /\ CycleInv /\ [Next]_vars => CycleInv'
<1>. SUFFICES ASSUME Shape, CycleInv, [Next]_vars PROVE CycleInv'
  OBVIOUS
<1>1. ASSUME UNCHANGED <<poller, chan, connected>>,
             uiPc' \in {"connecting", "waiting", "reconnecting"}
               => uiPc \in {"connecting", "waiting", "reconnecting"}
      PROVE  CycleInv'
  BY <1>1 DEF CycleInv, poller
<1>2. CASE Analyzer
  BY <1>1, <1>2, AnalyzerShape DEF app
<1>3. CASE uiPc # "quit" /\ (Poll \/ StreamAlert)
  BY <1>3, TasksCycle
<1>4. CASE KeyPress
  BY <1>1, <1>4, KeyShape DEF KeyLeaves
<1>5. CASE Startup
  BY <1>1, <1>5, StartupShape
<1>6. CASE Connect
  <2>1. /\ chan' = <<>> /\ ok' = TRUE /\ connected' = TRUE /\ uiPc' = "drain" /\ pollPc' = "stats"
    BY <1>6 DEF Connect, CycleInv, Fetching, Shape, PollerShape
  <2>2. SettlesOn(TRUE, <<>>, TRUE)
    BY DEF SettlesOn
  <2>. QED
    BY <2>1, <2>2 DEF CycleInv
<1>7. CASE Drain
  BY <1>7, DrainCycle
<1>8. CASE Draw \/ NoKey \/ Answer \/ UNCHANGED vars
  BY <1>1, <1>8 DEF Draw, NoKey, Answer, vars, app
<1>. QED
  BY <1>2, <1>3, <1>4, <1>5, <1>6, <1>7, <1>8 DEF Next, Loop, Startup, Analyzer, Poll

\* ConnectedTellsLastCycle: once the UI has caught up between two cycles, the
\* indicator says whether every call of the last cycle was answered.
THEOREM IndicatorTellsLastCycle == Spec => []ConnectedTellsLastCycle
<1>1. Init => CycleInv
  BY DEF Init, CycleInv
<1>2. CycleInv => ConnectedTellsLastCycle
  <2>1. \A b : SettlesOn(connected, <<>>, b) => connected = b
    BY DEF SettlesOn
  <2>. QED
    BY <2>1 DEF CycleInv, ConnectedTellsLastCycle
<1>. QED
  BY <1>1, <1>2, NextCycleInv, ShapeAlways, PTL DEF Spec

-----------------------------------------------------------------------------
\* Sets of positions in a text have a largest and a smallest member.
LEMMA LargestOf ==
  ASSUME NEW n \in Nat, NEW S \in SUBSET (1..n), S # {}
  PROVE  Max(S) \in S /\ \A j \in S : j <= Max(S)
<1>. DEFINE above(m) == {j \in 1..n : j > m}
            family == {above(m) : m \in S}
<1>1. family \subseteq FiniteSubsetsOf(1..n)
  <2>1. IsFiniteSet(1..n)
    BY FS_Interval
  <2>2. FiniteSubsetsOf(1..n) = SUBSET (1..n)
    BY <2>1, FS_FiniteSubsetsOfFinite
  <2>. QED
    BY <2>2
<1>2. family # {}
  <2>1. PICK m \in S : TRUE
    OBVIOUS
  <2>2. above(m) \in family
    OBVIOUS
  <2>. QED
    BY <2>2
<1>3. PICK m \in S : \A j \in S : <<above(j), above(m)>> \notin StrictSubsetOrdering(1..n)
  <2>. HIDE DEF family
  <2>1. \E x \in family : \A y \in family : <<y, x>> \notin StrictSubsetOrdering(1..n)
    BY <1>1, <1>2, FS_StrictSubsetOrderingWellFounded, WFMin
  <2>. QED
    BY <2>1 DEF family
<1>4. \A j \in S : m >= j
  <2>. SUFFICES ASSUME NEW j \in S, j > m PROVE FALSE
    OBVIOUS
  <2>1. above(j) \subseteq above(m) /\ j \in above(m) /\ j \notin above(j)
    OBVIOUS
  <2>2. <<above(j), above(m)>> \in StrictSubsetOrdering(1..n)
    BY <2>1 DEF StrictSubsetOrdering
  <2>. QED
    BY <1>3, <2>2
<1>. QED
  BY <1>4 DEF Max

LEMMA SmallestOf ==
  ASSUME NEW n \in Nat, NEW S \in SUBSET (1..n), S # {}
  PROVE  Min(S) \in S /\ \A j \in S : Min(S) <= j
<1>. DEFINE mirror == {n + 1 - j : j \in S}
<1>1. mirror \in SUBSET (1..n) /\ mirror # {}
  <2>1. \A j \in S : n + 1 - j \in 1..n /\ n + 1 - j \in mirror
    OBVIOUS
  <2>. QED
    BY <2>1
<1>2. PICK m \in mirror : \A j \in mirror : j <= m
  BY <1>1, LargestOf
<1>3. n + 1 - m \in S
  BY <1>2
<1>4. \A j \in S : n + 1 - m <= j
  BY <1>2
<1>. QED
  BY <1>3, <1>4 DEF Min

LEMMA SmallestIs ==
  ASSUME NEW S \in SUBSET Nat, NEW m \in S, \A j \in S : m <= j PROVE Min(S) = m
<1>1. \A x \in S : (\A y \in S : x <= y) => x = m
  <2>. SUFFICES ASSUME NEW x \in S, \A y \in S : x <= y PROVE x = m
    OBVIOUS
  <2>1. x <= m /\ m <= x /\ x \in Nat /\ m \in Nat
    OBVIOUS
  <2>. QED
    BY <2>1
<1>. QED
  BY <1>1 DEF Min
LEMMA LargestIs ==
  ASSUME NEW S \in SUBSET Nat, NEW m \in S, \A j \in S : j <= m PROVE Max(S) = m
<1>1. \A x \in S : (\A y \in S : x >= y) => x = m
  <2>. SUFFICES ASSUME NEW x \in S, \A y \in S : x >= y PROVE x = m
    OBVIOUS
  <2>1. x >= m /\ m >= x /\ x \in Nat /\ m \in Nat
    OBVIOUS
  <2>. QED
    BY <2>1
<1>2. \A y \in S : m >= y
  OBVIOUS
<1>. QED
  BY <1>1, <1>2 DEF Max

-----------------------------------------------------------------------------
\* Nth enumerates a set of positions: the k-th has k members up to it.
UpTo(S, i) == {j \in S : j <= i}
LEMMA RankGrows ==
  ASSUME NEW n \in Nat, NEW S \in SUBSET (1..n)
  PROVE  /\ IsFiniteSet(S) /\ Cardinality(S) \in Nat
         /\ \A i \in S : Cardinality(UpTo(S, i)) \in 1..Cardinality(S)
         /\ \A i \in S, j \in S : i < j => Cardinality(UpTo(S, i)) < Cardinality(UpTo(S, j))
<1>1. IsFiniteSet(S) /\ Cardinality(S) \in Nat
  <2>1. IsFiniteSet(1..n)
    BY FS_Interval
  <2>2. IsFiniteSet(S)
    BY <2>1, FS_Subset
  <2>. QED
    BY <2>2, FS_CardinalityType
<1>2. \A T \in SUBSET S : IsFiniteSet(T) /\ Cardinality(T) \in Nat /\ Cardinality(T) <= Cardinality(S)
  BY <1>1, FS_Subset, FS_CardinalityType
<1>3. ASSUME NEW i \in S PROVE Cardinality(UpTo(S, i)) \in 1..Cardinality(S)
  <2>1. UpTo(S, i) \in SUBSET S /\ i \in UpTo(S, i)
    BY DEF UpTo
  <2>2. Cardinality(UpTo(S, i)) # 0
    BY <1>2, <2>1, FS_EmptySet
  <2>. QED
    BY <1>1, <1>2, <2>1, <2>2
<1>4. ASSUME NEW i \in S, NEW j \in S, i < j
      PROVE  Cardinality(UpTo(S, i)) < Cardinality(UpTo(S, j))
  <2>1. UpTo(S, i) \in SUBSET UpTo(S, j) /\ UpTo(S, j) \in SUBSET S
        /\ j \in UpTo(S, j) /\ j \notin UpTo(S, i)
    <3>1. i \in Nat /\ j \in Nat /\ \A l \in S : l \in Nat
      OBVIOUS
    <3>2. j <= j /\ ~ (j <= i) /\ \A l \in S : l <= i => l <= j
      BY <1>4, <3>1
    <3>. QED
      BY <3>1, <3>2 DEF UpTo
  <2>2. IsFiniteSet(UpTo(S, j)) /\ Cardinality(UpTo(S, j)) \in Nat /\ Cardinality(UpTo(S, i)) \in Nat
    BY <1>2, <2>1
  <2>3. /\ Cardinality(UpTo(S, i)) <= Cardinality(UpTo(S, j))
        /\ Cardinality(UpTo(S, i)) # Cardinality(UpTo(S, j))
    BY <2>1, <2>2, FS_Subset
  <2>. QED
    BY <2>2, <2>3
<1>. QED
  BY <1>1, <1>3, <1>4

LEMMA NthIs ==
  ASSUME NEW n \in Nat, NEW S \in SUBSET (1..n), NEW i \in S, NEW k,
         Cardinality(UpTo(S, i)) = k
  PROVE  Nth(S, k) = i
<1>1. \A j \in S : Cardinality(UpTo(S, j)) = k => j = i
  <2>. SUFFICES ASSUME NEW j \in S, Cardinality(UpTo(S, j)) = k, j # i PROVE FALSE
    OBVIOUS
  <2>1. /\ i < j => Cardinality(UpTo(S, i)) < Cardinality(UpTo(S, j))
        /\ j < i => Cardinality(UpTo(S, j)) < Cardinality(UpTo(S, i))
    BY RankGrows
  <2>2. i \in Nat /\ j \in Nat
    OBVIOUS
  <2>3. Cardinality(UpTo(S, i)) \in Nat
    <3>1. Cardinality(S) \in Nat /\ Cardinality(UpTo(S, i)) \in 1..Cardinality(S)
      BY RankGrows
    <3>. QED
      BY <3>1
  <2>4. Cardinality(UpTo(S, i)) = Cardinality(UpTo(S, j))
    OBVIOUS
  <2>. QED
    BY <2>1, <2>2, <2>3, <2>4
<1>. QED
  BY <1>1 DEF Nth, UpTo

LEMMA NthExists ==
  ASSUME NEW n \in Nat, NEW S \in SUBSET (1..n), NEW k \in 1..Cardinality(S)
  PROVE  Nth(S, k) \in S /\ Cardinality(UpTo(S, Nth(S, k))) = k
<1>. DEFINE rank == [i \in S |-> Cardinality(UpTo(S, i))]
            K == 1..Cardinality(S)
<1>1. IsFiniteSet(S) /\ Cardinality(S) \in Nat
  BY RankGrows
<1>2. rank \in [S -> K]
  BY RankGrows
<1>3. \A i \in S, j \in S : rank[i] = rank[j] => i = j
  <2>. SUFFICES ASSUME NEW i \in S, NEW j \in S, rank[i] = rank[j], i # j PROVE FALSE
    OBVIOUS
  <2>1. /\ i < j => Cardinality(UpTo(S, i)) < Cardinality(UpTo(S, j))
        /\ j < i => Cardinality(UpTo(S, j)) < Cardinality(UpTo(S, i))
    BY RankGrows
  <2>2. i \in Nat /\ j \in Nat
    OBVIOUS
  <2>3. Cardinality(UpTo(S, i)) \in Nat
    <3>1. Cardinality(S) \in Nat /\ Cardinality(UpTo(S, i)) \in 1..Cardinality(S)
      BY RankGrows
    <3>. QED
      BY <3>1
  <2>4. Cardinality(UpTo(S, i)) = Cardinality(UpTo(S, j))
    OBVIOUS
  <2>. QED
    BY <2>1, <2>2, <2>3, <2>4
<1>4. rank \in Injection(S, K)
  <2>. HIDE DEF rank, K
  <2>. QED
    BY <1>2, <1>3 DEF Injection, IsInjective
<1>5. IsFiniteSet(K) /\ Cardinality(K) = Cardinality(S)
  BY <1>1, FS_Interval
<1>6. rank \in Surjection(S, K)
  <2>. HIDE DEF rank, K
  <2>. QED
    BY <1>4, <1>5, FS_Injection
<1>7. PICK i \in S : rank[i] = k
  <2>. HIDE DEF rank
  <2>. QED
    BY <1>6 DEF Surjection
<1>8. Nth(S, k) = i
  BY <1>7, NthIs
<1>. QED
  BY <1>7, <1>8

-----------------------------------------------------------------------------
\* Where the line that begins at i ends.
Ends(s, i) == {k \in i..Len(s) : s[k] = "nl"} \cup {Len(s) + 1}
IsEnd(s, i, end) == /\ end \in i..(Len(s) + 1) /\ (end = Len(s) + 1 \/ s[end] = "nl")
                    /\ \A k \in i..(end - 1) : s[k] # "nl"

LEMMA LineEnds ==
  ASSUME NEW V, NEW s \in Seq(V), NEW i \in 1..Len(s)
  PROVE  /\ \A end : IsEnd(s, i, end) => LineAt(s, i) = SubSeq(s, i, end - 1)
         /\ \E end : IsEnd(s, i, end)
<1>. DEFINE S == Ends(s, i)
<1>1. Len(s) \in Nat /\ i \in Nat /\ 1 <= i /\ i <= Len(s)
  OBVIOUS
<1>2. S \in SUBSET (1..(Len(s) + 1)) /\ S # {} /\ S \in SUBSET Nat
  BY <1>1 DEF Ends
<1>3. LineAt(s, i) = SubSeq(s, i, Min(S) - 1)
  BY DEF LineAt, Ends
<1>4. ASSUME NEW end, IsEnd(s, i, end) PROVE Min(S) = end
  <2>1. end \in S /\ \A k \in S : end <= k
    BY <1>1, <1>4 DEF IsEnd, Ends
  <2>. HIDE DEF S
  <2>. QED
    BY <1>2, <2>1, SmallestIs
<1>5. IsEnd(s, i, Min(S))
  <2>1. Len(s) + 1 \in Nat
    BY <1>1
  <2>2. Min(S) \in S /\ \A j \in S : Min(S) <= j
    <3>. HIDE DEF S
    <3>. QED
      BY <1>2, <2>1, SmallestOf
  <2>3. Min(S) \in i..(Len(s) + 1) /\ (Min(S) = Len(s) + 1 \/ s[Min(S)] = "nl")
    BY <1>1, <2>2 DEF Ends
  <2>4. ASSUME NEW k \in i..(Min(S) - 1) PROVE s[k] # "nl"
    <3>1. k \in i..Len(s) /\ k < Min(S)
      BY <1>1, <2>3
    <3>2. k \notin S
      BY <1>1, <2>2, <2>3, <3>1
    <3>. QED
      BY <3>1, <3>2 DEF Ends
  <2>. QED
    BY <2>3, <2>4 DEF IsEnd
<1>. QED
  BY <1>3, <1>4, <1>5

\* Two texts one after the other, unless a line runs from one to the other.
Apart(p, q) == p = <<>> \/ q = <<>> \/ p[Len(p)] = "nl" \/ q[1] = "nl"

LEMMA LinesOfFirst ==
  ASSUME NEW V, NEW p \in Seq(V), NEW q \in Seq(V), Apart(p, q),
         NEW i \in 1..Len(p), p[i] # "nl"
  PROVE  LineAt(p \o q, i) = LineAt(p, i)
<1>. DEFINE both == p \o q
<1>1. /\ both \in Seq(V) /\ Len(both) = Len(p) + Len(q) /\ Len(p) \in Nat /\ Len(q) \in Nat
      /\ \A k \in 1..Len(p) : both[k] = p[k]
      /\ \A k \in 1..Len(q) : both[Len(p) + k] = q[k]
      /\ i \in Nat /\ 1 <= i /\ i <= Len(p)
  BY ConcatProperties
<1>2. PICK end : IsEnd(p, i, end)
  BY LineEnds
<1>3. end \in i..(Len(p) + 1) /\ end # i /\ (end <= Len(p) \/ end = Len(p) + 1)
  BY <1>1, <1>2 DEF IsEnd
<1>4. IsEnd(both, i, end)
  <2>. HIDE DEF both
  <2>1. ASSUME NEW k \in i..(end - 1) PROVE both[k] # "nl"
    <3>1. k \in 1..Len(p)
      BY <1>1, <1>3
    <3>. QED
      BY <3>1, <1>1, <1>2 DEF IsEnd
  <2>2. end \in i..(Len(both) + 1)
    BY <1>1, <1>3
  <2>3. CASE end <= Len(p)
    BY <1>1, <1>2, <1>3, <2>1, <2>2, <2>3 DEF IsEnd
  <2>4. CASE end = Len(p) + 1
    <3>1. p[Len(p)] # "nl" /\ p # <<>>
      <4>1. Len(p) \in i..(end - 1)
        BY <1>1, <2>4
      <4>2. Len(p) # 0
        BY <1>1
      <4>. QED
        BY <4>1, <4>2, <1>2 DEF IsEnd
    <3>2. CASE q = <<>>
      <4>1. Len(q) = 0
        BY <3>2, EmptySeq
      <4>. QED
        BY <4>1, <1>1, <2>1, <2>2, <2>4 DEF IsEnd
    <3>3. CASE q # <<>> /\ q[1] = "nl"
      <4>1. Len(q) # 0
        BY <3>3, EmptySeq
      <4>2. both[Len(p) + 1] = q[1]
        BY <4>1, <1>1
      <4>. QED
        BY <4>2, <1>1, <2>1, <2>2, <2>4, <3>3 DEF IsEnd
    <3>. QED
      BY <3>1, <3>2, <3>3 DEF Apart
  <2>. QED
    BY <1>3, <2>3, <2>4
<1>5. LineAt(both, i) = SubSeq(both, i, end - 1) /\ LineAt(p, i) = SubSeq(p, i, end - 1)
  <2>1. i \in 1..Len(both)
    BY <1>1
  <2>. HIDE DEF both
  <2>. QED
    BY <1>1, <1>2, <1>4, <2>1, LineEnds
<1>6. SubSeq(both, i, end - 1) = SubSeq(p, i, end - 1)
  <2>1. end - 1 \in 1..Len(p)
    BY <1>1, <1>3
  <2>. QED
    BY <2>1, SubSeqOfConcat1
<1>. QED
  BY <1>5, <1>6

LEMMA LinesOfSecond ==
  ASSUME NEW V, NEW p \in Seq(V), NEW q \in Seq(V), NEW i \in 1..Len(q), q[i] # "nl"
  PROVE  LineAt(p \o q, Len(p) + i) = LineAt(q, i)
<1>. DEFINE both == p \o q
            n == Len(p)
<1>1. /\ both \in Seq(V) /\ Len(both) = n + Len(q) /\ n \in Nat /\ Len(q) \in Nat
      /\ \A k \in 1..Len(q) : both[n + k] = q[k]
      /\ i \in Nat /\ 1 <= i /\ i <= Len(q)
  BY ConcatProperties
<1>2. PICK end : IsEnd(q, i, end)
  BY LineEnds
<1>3. end \in i..(Len(q) + 1) /\ end # i
  BY <1>1, <1>2 DEF IsEnd
<1>4. IsEnd(both, n + i, n + end)
  <2>. HIDE DEF both, n
  <2>1. ASSUME NEW k \in (n + i)..(n + end - 1) PROVE both[k] # "nl"
    <3>1. k - n \in i..(end - 1) /\ k - n \in 1..Len(q) /\ n + (k - n) = k
      BY <1>1, <1>3
    <3>. QED
      BY <3>1, <1>1, <1>2 DEF IsEnd
  <2>2. n + end \in (n + i)..(Len(both) + 1)
    BY <1>1, <1>3
  <2>3. n + end = Len(both) + 1 \/ both[n + end] = "nl"
    <3>1. CASE end = Len(q) + 1
      BY <3>1, <1>1
    <3>2. CASE end \in 1..Len(q)
      BY <3>2, <1>1, <1>2 DEF IsEnd
    <3>. QED
      BY <3>1, <3>2, <1>1, <1>3
  <2>. QED
    BY <1>1, <1>3, <2>1, <2>2, <2>3 DEF IsEnd
<1>5. LineAt(both, n + i) = SubSeq(both, n + i, (n + end) - 1) /\ LineAt(q, i) = SubSeq(q, i, end - 1)
  <2>1. n + i \in 1..Len(both)
    BY <1>1
  <2>. HIDE DEF both, n
  <2>. QED
    <3>1. LineAt(both, n + i) = SubSeq(both, n + i, (n + end) - 1)
      <4>1. \A m : IsEnd(both, n + i, m) => LineAt(both, n + i) = SubSeq(both, n + i, m - 1)
        BY <1>1, <2>1, LineEnds
      <4>. QED
        BY <4>1, <1>4
    <3>2. LineAt(q, i) = SubSeq(q, i, end - 1)
      BY <1>2, LineEnds
    <3>. QED
      BY <3>1, <3>2
<1>6. SubSeq(both, n + i, (n + end) - 1) = SubSeq(q, i, end - 1)
  <2>1. n + i \in (Len(p) + 1)..(Len(p) + Len(q)) /\ (n + end) - 1 \in (Len(p) + 1)..(Len(p) + Len(q))
    BY <1>1, <1>3
  <2>2. (n + i) - Len(p) = i /\ ((n + end) - 1) - Len(p) = end - 1
    BY <1>1, <1>3
  <2>3. SubSeq(both, n + i, (n + end) - 1) = SubSeq(q, (n + i) - Len(p), ((n + end) - 1) - Len(p))
    BY <2>1, SubSeqOfConcat2
  <2>. QED
    BY <2>2, <2>3
<1>. QED
  BY <1>5, <1>6

-----------------------------------------------------------------------------
\* The alerts of a text are texts, one for each line that has some to tell.
LEMMA TrimType == ASSUME NEW V, NEW t \in Seq(V) PROVE Trim(t) \in Seq(V)
<1>. DEFINE solid == {i \in DOMAIN t : t[i] \notin Blank}
<1>1. CASE solid = {}
  BY <1>1, EmptySeq DEF Trim
<1>2. CASE solid # {}
  <2>1. Len(t) \in Nat /\ solid \in SUBSET (1..Len(t)) /\ \A i \in 1..Len(t) : t[i] \in V
    OBVIOUS
  <2>2. Min(solid) \in 1..Len(t) /\ Max(solid) \in 1..Len(t)
    <3>. HIDE DEF solid
    <3>. QED
      BY <1>2, <2>1, SmallestOf, LargestOf
  <2>3. \A i \in Min(solid)..Max(solid) : t[i] \in V
    <3>. HIDE DEF solid
    <3>. QED
      BY <2>1, <2>2
  <2>4. SubSeq(t, Min(solid), Max(solid)) \in Seq(V)
    <3>. HIDE DEF solid
    <3>. QED
      BY <2>2, <2>3, SubSeqProperties
  <2>. QED
    BY <1>2, <2>4 DEF Trim
<1>. QED
  BY <1>1, <1>2

LEMMA DataType ==
  ASSUME NEW V, NEW s \in Seq(V), NEW i \in 1..Len(s), s[i] # "nl"
  PROVE  DataAt(s, i) \in Seq(V)
<1>1. Len(s) \in Nat /\ \A k \in 1..Len(s) : s[k] \in V
  OBVIOUS
<1>2. PICK end : IsEnd(s, i, end)
  BY LineEnds
<1>3. LineAt(s, i) = SubSeq(s, i, end - 1)
  BY <1>2, LineEnds
<1>4. end \in (i + 1)..(Len(s) + 1)
  <2>1. end \in i..(Len(s) + 1) /\ (end = Len(s) + 1 \/ s[end] = "nl")
    BY <1>2 DEF IsEnd
  <2>. QED
    BY <2>1, <1>1
<1>5. LineAt(s, i) \in Seq(V) /\ Len(LineAt(s, i)) # 0
  <2>1. \A k \in i..(end - 1) : s[k] \in V
    BY <1>1, <1>4
  <2>2. i <= end - 1 /\ i \in Int /\ end - 1 \in Int /\ (end - 1) - i + 1 # 0
    BY <1>1, <1>4
  <2>. QED
    BY <1>3, <2>1, <2>2, SubSeqProperties
<1>6. LineAt(s, i) # <<>>
  BY <1>5, EmptySeq
<1>7. Tail(LineAt(s, i)) \in Seq(V)
  BY <1>5, <1>6, HeadTailProperties
<1>. QED
  BY <1>7, TrimType DEF DataAt

LEMMA AlertLinesType ==
  ASSUME NEW V, NEW s \in Seq(V)
  PROVE  /\ AlertLines(s) \in SUBSET (1..Len(s)) /\ Len(s) \in Nat
         /\ Cardinality(AlertLines(s)) \in Nat
         /\ \A i \in AlertLines(s) : s[i] # "nl"
<1>1. AlertLines(s) \in SUBSET (1..Len(s)) /\ Len(s) \in Nat
  BY DEF AlertLines
<1>2. Cardinality(AlertLines(s)) \in Nat
  BY <1>1, RankGrows
<1>3. \A i \in AlertLines(s) : s[i] # "nl"
  BY DEF AlertLines
<1>. QED
  BY <1>1, <1>2, <1>3

LEMMA AlertsType ==
  ASSUME NEW V, NEW s \in Seq(V)
  PROVE  /\ AlertsOf(s) \in Seq(Seq(V)) /\ Len(AlertsOf(s)) = Cardinality(AlertLines(s))
         /\ \A k \in 1..Cardinality(AlertLines(s)) :
              AlertsOf(s)[k] = DataAt(s, Nth(AlertLines(s), k))
<1>. DEFINE lines == AlertLines(s)
            n == Cardinality(lines)
            told == [k \in 1..n |-> DataAt(s, Nth(lines, k))]
<1>1. n \in Nat
  BY AlertLinesType
<1>2. ASSUME NEW k \in 1..n PROVE DataAt(s, Nth(lines, k)) \in Seq(V)
  <2>1. Nth(lines, k) \in lines
    BY AlertLinesType, NthExists
  <2>2. Nth(lines, k) \in 1..Len(s) /\ s[Nth(lines, k)] # "nl"
    BY <2>1, AlertLinesType
  <2>. QED
    BY <2>2, DataType
<1>3. told \in [1..n -> Seq(V)]
  BY <1>2
<1>4. told \in Seq(Seq(V)) /\ Len(told) = n
  <2>. HIDE DEF told, n
  <2>. QED
    BY <1>1, <1>3
<1>5. AlertsOf(s) = told
  BY DEF AlertsOf
<1>6. \A k \in 1..n : told[k] = DataAt(s, Nth(lines, k))
  OBVIOUS
<1>. QED
  BY <1>4, <1>5, <1>6

\* Of two texts that no line joins, the alerts are those of one, then those of
\* the other.
Shifted(m, B) == {m + j : j \in B}
LEMMA CardinalityOfBoth ==
  ASSUME NEW m \in Nat, NEW n \in Nat, NEW A \in SUBSET (1..m), NEW B \in SUBSET (1..n)
  PROVE  Cardinality(A \cup Shifted(m, B)) = Cardinality(A) + Cardinality(B)
<1>. DEFINE C == Shifted(m, B)
            f == [j \in B |-> m + j]
<1>1. IsFiniteSet(A) /\ IsFiniteSet(B) /\ Cardinality(A) \in Nat /\ Cardinality(B) \in Nat
  BY RankGrows
<1>2. \A j \in B : j \in 1..n
  OBVIOUS
<1>3. f \in [B -> C]
  BY DEF Shifted
<1>4. \A i \in B, j \in B : f[i] = f[j] => i = j
  BY <1>2
<1>5. \A c \in C : \E j \in B : f[j] = c
  BY DEF Shifted
<1>6. f \in Bijection(B, C)
  <2>. HIDE DEF f, C
  <2>. QED
    BY <1>3, <1>4, <1>5 DEF Bijection, Injection, Surjection, IsInjective
<1>7. IsFiniteSet(C) /\ Cardinality(C) = Cardinality(B)
  <2>. HIDE DEF f, C
  <2>1. ExistsBijection(B, C)
    BY <1>6 DEF ExistsBijection
  <2>. QED
    BY <1>1, <2>1, FS_Bijection
<1>8. A \cap C = {}
  BY <1>2 DEF Shifted
<1>9. Cardinality(A \cup C) = Cardinality(A) + Cardinality(B) - 0
  <2>. HIDE DEF C
  <2>1. Cardinality(A \cap C) = 0
    BY <1>8, FS_EmptySet
  <2>. QED
    BY <1>1, <1>7, <2>1, FS_Union
<1>. QED
  BY <1>1, <1>9

LEMMA AlertLinesOfBoth ==
  ASSUME NEW V, NEW p \in Seq(V), NEW q \in Seq(V), Apart(p, q)
  PROVE  /\ AlertLines(p \o q) = AlertLines(p) \cup Shifted(Len(p), AlertLines(q))
         /\ \A i \in AlertLines(p) : DataAt(p \o q, i) = DataAt(p, i)
         /\ \A i \in AlertLines(q) : DataAt(p \o q, Len(p) + i) = DataAt(q, i)
<1>. DEFINE both == p \o q
            n == Len(p)
            Begins(s, i) == s[i] = "data:" /\ (i = 1 \/ s[i - 1] = "nl")
<1>1. /\ Len(both) = n + Len(q) /\ n \in Nat /\ Len(q) \in Nat
      /\ \A k \in 1..n : both[k] = p[k]
      /\ \A k \in 1..Len(q) : both[n + k] = q[k]
      /\ DOMAIN both = 1..(n + Len(q)) /\ DOMAIN p = 1..n /\ DOMAIN q = 1..Len(q)
  BY ConcatProperties
<1>2. /\ \A i \in 1..n : p[i] = "data:" => DataAt(both, i) = DataAt(p, i)
      /\ \A i \in 1..Len(q) : q[i] = "data:" => DataAt(both, n + i) = DataAt(q, i)
  BY LinesOfFirst, LinesOfSecond DEF DataAt
<1>3. ASSUME NEW i \in 1..n PROVE Begins(both, i) <=> Begins(p, i)
  <2>1. both[i] = p[i] /\ (i # 1 => both[i - 1] = p[i - 1])
    <3>. HIDE DEF both, n
    <3>. QED
      BY <1>1
  <2>. QED
    BY <2>1
<1>4. ASSUME NEW i \in 1..Len(q) PROVE Begins(both, n + i) <=> Begins(q, i)
  <2>. HIDE DEF both, n
  <2>1. both[n + i] = q[i] /\ n + i \in Nat /\ i \in Nat
    BY <1>1
  <2>2. CASE i # 1
    <3>1. both[(n + i) - 1] = q[i - 1] /\ n + i # 1
      BY <2>2, <1>1
    <3>. QED
      BY <2>1, <2>2, <3>1
  <2>3. CASE i = 1
    <3>1. CASE n = 0
      BY <1>1, <2>1, <2>3, <3>1
    <3>2. CASE n # 0
      <4>1. p # <<>> /\ q # <<>>
        BY <1>1, <3>2, EmptySeq DEF n
      <4>2. both[(n + i) - 1] = p[n]
        BY <1>1, <2>3, <3>2
      <4>3. p[n] = "nl" \/ q[1] = "nl"
        BY <4>1 DEF Apart, n
      <4>. QED
        BY <2>1, <2>3, <4>2, <4>3
    <3>. QED
      BY <3>1, <3>2
  <2>. QED
    BY <2>2, <2>3
<1>5. ASSUME NEW i \in 1..n PROVE i \in AlertLines(both) <=> i \in AlertLines(p)
  <2>1. i \in DOMAIN both /\ i \in DOMAIN p
    <3>. HIDE DEF both, n
    <3>. QED
      BY <1>1
  <2>. QED
    BY <1>2, <1>3, <2>1 DEF AlertLines
<1>6. ASSUME NEW i \in 1..Len(q) PROVE n + i \in AlertLines(both) <=> i \in AlertLines(q)
  <2>1. n + i \in DOMAIN both /\ i \in DOMAIN q
    <3>. HIDE DEF both, n
    <3>. QED
      BY <1>1
  <2>. QED
    BY <1>2, <1>4, <2>1 DEF AlertLines
<1>7. AlertLines(both) \in SUBSET (1..(n + Len(q))) /\ AlertLines(p) \in SUBSET (1..n)
      /\ AlertLines(q) \in SUBSET (1..Len(q))
  BY <1>1 DEF AlertLines
<1>8. AlertLines(both) = AlertLines(p) \cup Shifted(n, AlertLines(q))
  <2>. HIDE DEF both, n
  <2>1. ASSUME NEW i \in AlertLines(both)
        PROVE  i \in AlertLines(p) \cup Shifted(n, AlertLines(q))
    <3>1. i \in 1..n \/ (i - n \in 1..Len(q) /\ n + (i - n) = i)
      BY <1>1, <1>7
    <3>. QED
      BY <1>5, <1>6, <3>1 DEF Shifted
  <2>2. ASSUME NEW i \in AlertLines(p) PROVE i \in AlertLines(both)
    BY <1>5, <1>7
  <2>3. ASSUME NEW i \in Shifted(n, AlertLines(q)) PROVE i \in AlertLines(both)
    BY <1>6, <1>7 DEF Shifted
  <2>. QED
    BY <2>1, <2>2, <2>3
<1>9. (\A i \in AlertLines(p) : p[i] = "data:") /\ (\A i \in AlertLines(q) : q[i] = "data:")
  BY DEF AlertLines
<1>. QED
  BY <1>2, <1>7, <1>8, <1>9

LEMMA AlertsOfBoth ==
  ASSUME NEW V, NEW p \in Seq(V), NEW q \in Seq(V), Apart(p, q)
  PROVE  AlertsOf(p \o q) = AlertsOf(p) \o AlertsOf(q)
<1>. DEFINE both == p \o q
            m == Len(p)
            A == AlertLines(p)
            B == AlertLines(q)
            U == AlertLines(both)
            a == Cardinality(A)
            b == Cardinality(B)
<1>1. both \in Seq(V) /\ m \in Nat /\ Len(q) \in Nat /\ Len(both) = m + Len(q) /\ m + Len(q) \in Nat
  BY ConcatProperties
<1>2. /\ A \in SUBSET (1..m) /\ B \in SUBSET (1..Len(q)) /\ U \in SUBSET (1..(m + Len(q)))
      /\ a \in Nat /\ b \in Nat
  <2>. HIDE DEF both
  <2>. QED
    BY <1>1, AlertLinesType
<1>3. /\ U = A \cup Shifted(m, B)
      /\ \A i \in A : DataAt(both, i) = DataAt(p, i)
      /\ \A i \in B : DataAt(both, m + i) = DataAt(q, i)
  BY AlertLinesOfBoth
<1>. HIDE DEF m, A, B, U
<1>4. Cardinality(U) = a + b
  BY <1>1, <1>2, <1>3, CardinalityOfBoth
<1>5. ASSUME NEW k \in 1..a PROVE Nth(U, k) = Nth(A, k) /\ Nth(A, k) \in A
  <2>. DEFINE i == Nth(A, k)
  <2>1. i \in A /\ Cardinality(UpTo(A, i)) = k
    BY <1>1, <1>2, NthExists
  <2>. HIDE DEF i
  <2>2. UpTo(U, i) = UpTo(A, i)
    <3>1. \A j \in Shifted(m, B) : ~(j <= i)
      <4>. SUFFICES ASSUME NEW j \in B PROVE ~(m + j <= i)
        BY DEF Shifted
      <4>1. j \in 1..Len(q) /\ i \in 1..m
        BY <1>2, <2>1
      <4>. QED
        BY <4>1, <1>1
    <3>. QED
      BY <3>1, <1>3 DEF UpTo
  <2>3. Nth(U, k) = i
    BY <1>1, <1>2, <1>3, <2>1, <2>2, NthIs
  <2>. QED
    BY <2>1, <2>3 DEF i
<1>6. ASSUME NEW k \in 1..b PROVE Nth(U, a + k) = m + Nth(B, k) /\ Nth(B, k) \in B
  <2>. DEFINE i == Nth(B, k)
  <2>1. i \in B /\ Cardinality(UpTo(B, i)) = k
    BY <1>1, <1>2, NthExists
  <2>. HIDE DEF i
  <2>2. i \in 1..Len(q) /\ UpTo(B, i) \in SUBSET (1..Len(q))
    BY <1>2, <2>1 DEF UpTo
  <2>3. UpTo(U, m + i) = A \cup Shifted(m, UpTo(B, i))
    <3>1. ASSUME NEW j \in A PROVE j <= m + i
      <4>1. j \in 1..m
        BY <1>2
      <4>. QED
        BY <4>1, <1>1, <2>2
    <3>2. ASSUME NEW j \in B PROVE m + j <= m + i <=> j <= i
      <4>1. j \in 1..Len(q)
        BY <1>2
      <4>. QED
        BY <4>1, <1>1, <2>2
    <3>3. UpTo(U, m + i) \subseteq A \cup Shifted(m, UpTo(B, i))
      BY <1>3, <3>2 DEF UpTo, Shifted
    <3>4. A \cup Shifted(m, UpTo(B, i)) \subseteq UpTo(U, m + i)
      BY <1>3, <3>1, <3>2 DEF UpTo, Shifted
    <3>. QED
      BY <3>3, <3>4
  <2>4. Cardinality(UpTo(U, m + i)) = a + k
    <3>1. Cardinality(A \cup Shifted(m, UpTo(B, i))) = a + Cardinality(UpTo(B, i))
      BY <1>1, <1>2, <2>2, CardinalityOfBoth
    <3>. QED
      BY <2>1, <2>3, <3>1
  <2>5. m + i \in U
    BY <1>3, <2>1 DEF Shifted
  <2>6. Nth(U, a + k) = m + i
    <3>. DEFINE l == m + i
                r == a + k
                w == m + Len(q)
    <3>1. l \in U /\ Cardinality(UpTo(U, l)) = r
      BY <2>4, <2>5
    <3>2. w \in Nat /\ U \in SUBSET (1..w)
      BY <1>1, <1>2
    <3>. HIDE DEF l, r, w
    <3>3. Nth(U, r) = l
      BY <3>1, <3>2, NthIs
    <3>. QED
      BY <3>3 DEF l, r
  <2>. QED
    BY <2>1, <2>6 DEF i
<1>. DEFINE left == AlertsOf(p)
            right == AlertsOf(q)
            whole == AlertsOf(both)
<1>7. /\ left \in Seq(Seq(V)) /\ Len(left) = a /\ right \in Seq(Seq(V)) /\ Len(right) = b
      /\ \A k \in 1..a : left[k] = DataAt(p, Nth(A, k))
      /\ \A k \in 1..b : right[k] = DataAt(q, Nth(B, k))
  BY AlertsType DEF A, B
<1>8. /\ whole \in Seq(Seq(V)) /\ Len(whole) = a + b
      /\ \A k \in 1..(a + b) : whole[k] = DataAt(both, Nth(U, k))
  <2>. HIDE DEF both
  <2>. QED
    BY <1>1, <1>4, AlertsType DEF U
<1>. HIDE DEF a, b, left, right, whole, both
<1>9. /\ left \o right \in Seq(Seq(V)) /\ Len(left \o right) = a + b
      /\ \A k \in 1..(a + b) : (left \o right)[k] = IF k <= a THEN left[k] ELSE right[k - a]
  BY <1>7, ConcatProperties
<1>10. ASSUME NEW k \in 1..(a + b) PROVE whole[k] = (left \o right)[k]
  <2>1. CASE k <= a
    <3>1. k \in 1..a
      BY <1>2, <2>1
    <3>2. whole[k] = DataAt(p, Nth(A, k))
      BY <3>1, <1>3, <1>5, <1>8
    <3>. QED
      BY <2>1, <3>1, <3>2, <1>7, <1>9
  <2>2. CASE ~(k <= a)
    <3>1. k - a \in 1..b /\ a + (k - a) = k
      BY <1>2, <2>2
    <3>2. Nth(U, k) = m + Nth(B, k - a) /\ Nth(B, k - a) \in B
      BY <3>1, <1>6
    <3>3. whole[k] = DataAt(q, Nth(B, k - a))
      BY <3>2, <1>3, <1>8
    <3>. QED
      BY <2>2, <3>1, <3>3, <1>7, <1>9
  <2>. QED
    BY <2>1, <2>2
<1>11. whole = left \o right
  <2>. DEFINE rest == left \o right
  <2>1. rest \in Seq(Seq(V)) /\ Len(rest) = Len(whole) /\ \A k \in 1..Len(whole) : whole[k] = rest[k]
    BY <1>8, <1>9, <1>10
  <2>. HIDE DEF rest
  <2>2. whole = rest
    BY <1>8, <2>1, SeqEqual
  <2>. QED
    BY <2>2 DEF rest
<1>. QED
  BY <1>11 DEF left, right, whole, both

\* A line without data tells nothing.
LEMMA NothingTold == AlertsOf(<<>>) = <<>> /\ AlertsOf(<<"nl">>) = <<>>
<1>. DEFINE dull == <<"nl">>
<1>1. dull \in Seq({"nl"}) /\ <<>> \in Seq({"nl"})
  OBVIOUS
<1>2. AlertLines(dull) = {} /\ AlertLines(<<>>) = {}
  BY DEF AlertLines
<1>3. Cardinality({}) = 0
  BY FS_EmptySet
<1>4. /\ AlertsOf(dull) \in Seq(Seq({"nl"})) /\ Len(AlertsOf(dull)) = 0
      /\ AlertsOf(<<>>) \in Seq(Seq({"nl"})) /\ Len(AlertsOf(<<>>)) = 0
  <2>. HIDE DEF dull
  <2>. QED
    BY <1>1, <1>2, <1>3, AlertsType
<1>. QED
  BY <1>4, EmptySeq

LEMMA BlankTail ==
  ASSUME NEW V, NEW s \in Seq(V), "nl" \in V PROVE AlertsOf(s \o <<"nl">>) = AlertsOf(s)
<1>. DEFINE dull == <<"nl">>
<1>1. dull \in Seq(V) /\ dull[1] = "nl"
  OBVIOUS
<1>. HIDE DEF dull
<1>2. AlertsOf(s \o dull) = AlertsOf(s) \o AlertsOf(dull)
  BY <1>1, AlertsOfBoth DEF Apart
<1>3. AlertsOf(dull) = <<>> /\ AlertsOf(s) \in Seq(Seq(V))
  BY NothingTold, AlertsType DEF dull
<1>. QED
  BY <1>2, <1>3, ConcatEmptySeq DEF dull

-----------------------------------------------------------------------------
\* EventStream: what its variables hold.  The texts are made of the symbols of
\* the frames, and of the character that stands for an undecodable byte.
LEMMA FrameType ==
  ASSUME NEW frame \in Frames
  PROVE  /\ frame \in Seq(Symbols) /\ Len(frame) \in Nat /\ Len(frame) > 1 /\ frame[1] # "nl"
         /\ frame[Len(frame)] = "nl" /\ Gaps(frame) = {Len(frame) - 1}
<1>1. /\ frame \in Seq(STRING) /\ Len(frame) > 1 /\ frame[1] # "nl"
      /\ Gaps(frame) = {Len(frame) - 1}
  BY FrameAssumption
<1>2. Len(frame) \in Nat /\ DOMAIN frame = 1..Len(frame)
  BY <1>1
<1>3. \A i \in 1..Len(frame) : frame[i] \in Symbols
  <2>1. Range(frame) \in {Range(f) : f \in Frames} /\ \A i \in 1..Len(frame) : frame[i] \in Range(frame)
    BY <1>2 DEF Range
  <2>. QED
    BY <2>1 DEF Symbols
<1>4. SubSeq(frame, 1, Len(frame)) \in Seq(Symbols)
  BY <1>2, <1>3, SubSeqProperties
<1>5. SubSeq(frame, 1, Len(frame)) = frame
  BY <1>1, SubSeqFull
<1>6. frame[(Len(frame) - 1) + 1] = "nl"
  <2>1. Len(frame) - 1 \in Gaps(frame)
    BY <1>1
  <2>. QED
    BY <2>1 DEF Gaps
<1>7. (Len(frame) - 1) + 1 = Len(frame)
  BY <1>2
<1>. QED
  BY <1>1, <1>2, <1>4, <1>5, <1>6, <1>7

LEMMA DecodeType ==
  ASSUME NEW chunk \in Seq(Symbols) PROVE Decode(chunk) \in Seq(Symbols)
<1>1. "?" \in Symbols
  BY DEF Symbols
<1>2. Len(chunk) \in Nat /\ DOMAIN chunk = 1..Len(chunk) /\ \A i \in 1..Len(chunk) : chunk[i] \in Symbols
  OBVIOUS
<1>3. Decode(chunk) \in [1..Len(chunk) -> Symbols]
  BY <1>1, <1>2 DEF Decode
<1>. QED
  BY <1>2, <1>3

LEMMA PartType ==
  ASSUME NEW V, NEW s \in Seq(V), NEW m \in 1..(Len(s) + 1), NEW n \in 0..Len(s)
  PROVE  /\ SubSeq(s, m, n) \in Seq(V) /\ Len(SubSeq(s, m, n)) = IF m <= n THEN n - m + 1 ELSE 0
         /\ \A i \in 1..(n - m + 1) : SubSeq(s, m, n)[i] = s[m + i - 1]
<1>1. \A i \in m..n : s[i] \in V
  OBVIOUS
<1>. QED
  BY <1>1, SubSeqProperties

\* A chunk is a first part of what is on the wire.
LEMMA ChunkType ==
  ASSUME StreamTypeOK, NEW n \in 1..Len(wire)
  PROVE  /\ SubSeq(wire, 1, n) \in Seq(Symbols) /\ SubSeq(wire, n + 1, Len(wire)) \in Seq(Symbols)
         /\ SubSeq(wire, 1, n) \o SubSeq(wire, n + 1, Len(wire)) = wire
<1>1. wire \in Seq(Symbols) /\ Len(wire) \in Nat /\ n \in 0..Len(wire)
      /\ n + 1 \in 1..(Len(wire) + 1) /\ Len(wire) \in 0..Len(wire) /\ 1 \in 1..(Len(wire) + 1)
  BY DEF StreamTypeOK
<1>2. SubSeq(wire, 1, n) \o SubSeq(wire, n + 1, Len(wire)) = SubSeq(wire, 1, Len(wire))
  BY <1>1, ConcatAdjacentSubSeq
<1>3. SubSeq(wire, 1, Len(wire)) = wire
  BY <1>1, SubSeqFull
<1>. QED
  BY <1>1, <1>2, <1>3, PartType

\* The first frame in the buffer, if a blank line ends one.
LEMMA FirstFrame ==
  ASSUME StreamTypeOK, Gaps(buf) # {}
  PROVE  LET g == Min(Gaps(buf))
         IN /\ g \in 1..(Len(buf) - 1) /\ Len(buf) \in Nat /\ buf[g] = "nl" /\ buf[g + 1] = "nl"
            /\ \A h \in Gaps(buf) : g <= h
            /\ Frame = SubSeq(buf, 1, g - 1) /\ Frame \in Seq(Symbols)
            /\ SubSeq(buf, g + 2, Len(buf)) \in Seq(Symbols)
<1>. DEFINE g == Min(Gaps(buf))
<1>1. buf \in Seq(Symbols) /\ Len(buf) \in Nat /\ Gaps(buf) \in SUBSET (1..Len(buf))
  BY DEF StreamTypeOK, Gaps
<1>2. g \in Gaps(buf) /\ \A h \in Gaps(buf) : g <= h
  BY <1>1, SmallestOf
<1>. HIDE DEF g
<1>3. g \in 1..(Len(buf) - 1) /\ buf[g] = "nl" /\ buf[g + 1] = "nl"
  BY <1>2 DEF Gaps
<1>4. Frame = SubSeq(buf, 1, g - 1)
  BY DEF Frame, g
<1>5. 1 \in 1..(Len(buf) + 1) /\ g - 1 \in 0..Len(buf) /\ g + 2 \in 1..(Len(buf) + 1)
      /\ Len(buf) \in 0..Len(buf)
  BY <1>1, <1>3
<1>6. SubSeq(buf, 1, g - 1) \in Seq(Symbols) /\ SubSeq(buf, g + 2, Len(buf)) \in Seq(Symbols)
  BY <1>1, <1>5, PartType
<1>. QED
  BY <1>1, <1>2, <1>3, <1>4, <1>6 DEF g

LEMMA FrameTextType == StreamTypeOK => Frame \in Seq(Symbols) /\ AlertsOf(Frame) \in Seq(Seq(Symbols))
<1>. SUFFICES ASSUME StreamTypeOK PROVE Frame \in Seq(Symbols)
  BY AlertsType
<1>1. CASE Gaps(buf) = {}
  BY <1>1, EmptySeq DEF Frame
<1>2. CASE Gaps(buf) # {}
  BY <1>2, FirstFrame
<1>. QED
  BY <1>1, <1>2

LEMMA StreamInitType == StreamInit => StreamTypeOK
<1>. SUFFICES ASSUME StreamInit PROVE StreamTypeOK
  OBVIOUS
<1>1. <<>> \in Seq(Symbols) /\ <<>> \in Seq(Seq(Symbols)) /\ Len(found) = 0
  BY EmptySeq DEF StreamInit
<1>2. MaxSent \in Nat /\ MaxBreaks \in Nat /\ MaxSilent \in Nat
  BY StreamBoundAssumption
<1>. QED
  BY <1>1, <1>2 DEF StreamInit, StreamTypeOK

LEMMA StreamNextType == StreamTypeOK /\ [StreamNext]_streamVars => StreamTypeOK'
<1>. SUFFICES ASSUME StreamTypeOK, [StreamNext]_streamVars PROVE StreamTypeOK'
  OBVIOUS
<1>. USE DEF StreamTypeOK
<1>0. /\ Len(found) \in Nat /\ Len(wire) \in Nat /\ <<>> \in Seq(Symbols)
      /\ MaxSent \in Nat /\ MaxBreaks \in Nat /\ MaxSilent \in Nat
  BY EmptySeq, StreamBoundAssumption
<1>1. CASE UNCHANGED streamVars
  BY <1>1 DEF streamVars
<1>2. CASE OpenStream
  BY <1>0, <1>2 DEF OpenStream
<1>3. ASSUME NEW n \in 1..Len(wire), Receive(n) PROVE StreamTypeOK'
  <2>. DEFINE chunk == SubSeq(wire, 1, n)
  <2>1. chunk \in Seq(Symbols) /\ SubSeq(wire, n + 1, Len(wire)) \in Seq(Symbols)
    BY ChunkType
  <2>. HIDE DEF chunk
  <2>2. buf \o Decode(chunk) \in Seq(Symbols) /\ got \o chunk \in Seq(Symbols)
    BY <2>1, DecodeType, ConcatProperties
  <2>. QED
    BY <1>3, <2>1, <2>2 DEF Receive, analyzer, chunk
<1>4. CASE Cut
  <2>1. buf' \in Seq(Symbols) /\ pc' \in {"cut", "read"}
    BY <1>4, FirstFrame DEF Cut, CutBuffer
  <2>. DEFINE told == AlertsOf(Frame)
  <2>2. told \in Seq(Seq(Symbols)) /\ found' = found \o told
    BY <1>4, FrameTextType DEF Cut
  <2>. HIDE DEF told
  <2>3. found' \in Seq(Seq(Symbols)) /\ before \in 0..Len(found')
    BY <1>0, <2>2, ConcatProperties
  <2>. QED
    BY <1>4, <2>1, <2>3 DEF Cut, CutBuffer, analyzer
<1>5. CASE StreamEnds
  BY <1>5 DEF StreamEnds
<1>6. CASE Wake
  BY <1>6 DEF Wake, analyzer
<1>7. CASE Return
  BY <1>7 DEF Return
<1>8. CASE Vanish
  BY <1>0, <1>8 DEF Vanish
<1>9. ASSUME NEW frame \in Frames, SendFrame(frame) PROVE StreamTypeOK'
  <2>1. wire \o frame \in Seq(Symbols)
    BY FrameType, ConcatProperties
  <2>. QED
    BY <1>0, <1>9, <2>1 DEF SendFrame
<1>10. ASSUME NEW arrives \in 0..Len(wire), Break(arrives) PROVE StreamTypeOK'
  <2>1. SubSeq(wire, 1, arrives) \in Seq(Symbols)
    BY <1>0, PartType
  <2>. QED
    <3>1. link' \in Links /\ serving' \in BOOLEAN /\ peer' \in {"none", "open", "closed", "lost"}
      BY <1>10 DEF Break
    <3>2. /\ pc' = pc /\ found' = found /\ before' = before /\ sent' = sent /\ silent' = silent
          /\ {wire', buf', got'} \subseteq Seq(Symbols)
      BY <1>10, <2>1 DEF Break
    <3>3. breaks' \in 0..MaxBreaks
      BY <1>0, <1>10 DEF Break
    <3>. QED
      BY <3>1, <3>2, <3>3
<1>. QED
  BY <1>1, <1>2, <1>3, <1>4, <1>5, <1>6, <1>7, <1>8, <1>9, <1>10 DEF StreamNext, Listen

\* What the listener holds is text: nothing else reaches its buffer or the UI.
THEOREM StreamTypeCorrect == StreamSpec => []StreamTypeOK
<1>1. StreamInit => StreamTypeOK
  BY StreamInitType
<1>2. StreamTypeOK /\ [StreamNext]_streamVars => StreamTypeOK'
  BY StreamNextType
<1>. QED
  BY <1>1, <1>2, PTL DEF StreamSpec

-----------------------------------------------------------------------------
\* Blank lines in parts of a text.
LEMMA GapsOfBoth ==
  ASSUME NEW V, NEW p \in Seq(V), NEW q \in Seq(V)
  PROVE  /\ \A g \in 1..(Len(p) - 1) : g \in Gaps(p \o q) <=> g \in Gaps(p)
         /\ \A g \in 1..(Len(q) - 1) : Len(p) + g \in Gaps(p \o q) <=> g \in Gaps(q)
         /\ \A g \in Gaps(p \o q) : g > Len(p) => g - Len(p) \in Gaps(q)
         /\ Len(p) \in Gaps(p \o q) => p[Len(p)] = "nl" /\ q[1] = "nl"
<1>. DEFINE both == p \o q
            n == Len(p)
<1>1. /\ Len(both) = n + Len(q) /\ n \in Nat /\ Len(q) \in Nat
      /\ \A k \in 1..n : both[k] = p[k]
      /\ \A k \in 1..Len(q) : both[n + k] = q[k]
  BY ConcatProperties
<1>. HIDE DEF both, n
<1>2. ASSUME NEW g \in 1..(n - 1) PROVE g \in Gaps(both) <=> g \in Gaps(p)
  <2>1. both[g] = p[g] /\ both[g + 1] = p[g + 1] /\ g \in 1..(Len(both) - 1) /\ g \in 1..(Len(p) - 1)
    BY <1>1 DEF n
  <2>. QED
    BY <2>1 DEF Gaps
<1>3. ASSUME NEW g \in 1..(Len(q) - 1) PROVE n + g \in Gaps(both) <=> g \in Gaps(q)
  <2>1. both[n + g] = q[g] /\ both[n + (g + 1)] = q[g + 1] /\ n + (g + 1) = (n + g) + 1
        /\ n + g \in 1..(Len(both) - 1)
    BY <1>1
  <2>. QED
    BY <2>1 DEF Gaps
<1>4. ASSUME NEW g \in Gaps(both), g > n PROVE g - n \in Gaps(q)
  <2>1. g \in 1..(Len(both) - 1)
    BY DEF Gaps
  <2>2. g - n \in 1..(Len(q) - 1) /\ n + (g - n) = g
    BY <1>1, <1>4, <2>1
  <2>. QED
    BY <1>3, <1>4, <2>2
<1>5. n \in Gaps(both) => p[n] = "nl" /\ q[1] = "nl"
  <2>. SUFFICES ASSUME n \in Gaps(both) PROVE p[n] = "nl" /\ q[1] = "nl"
    OBVIOUS
  <2>1. n \in 1..(Len(both) - 1) /\ both[n] = "nl" /\ both[n + 1] = "nl"
    BY DEF Gaps
  <2>2. n \in 1..n /\ 1 \in 1..Len(q)
    BY <1>1, <2>1
  <2>. QED
    BY <1>1, <2>1, <2>2
<1>. QED
  BY <1>2, <1>3, <1>4, <1>5 DEF both, n

\* What ends in a blank line can do without the end.
LEMMA LastBlank ==
  ASSUME NEW V, NEW s \in Seq(V), NEW n \in 1..Len(s), s[n] = "nl"
  PROVE  AlertsOf(SubSeq(s, 1, n)) = AlertsOf(SubSeq(s, 1, n - 1))
<1>1. Len(s) \in Nat /\ 1 \in 1..Len(s) /\ n \in 1..Len(s) /\ s[n] \in V /\ n - 1 \in 0..Len(s)
      /\ 1 \in 1..(Len(s) + 1)
  OBVIOUS
<1>2. SubSeq(s, 1, n) = SubSeq(s, 1, n - 1) \o <<s[n]>>
  BY <1>1, SubSeqRecursiveSecond
<1>3. SubSeq(s, 1, n - 1) \in Seq(V)
  BY <1>1, PartType
<1>. QED
  BY <1>1, <1>2, <1>3, BlankTail

EndsBlank(t) == t = <<>> \/ Len(t) - 1 \in Gaps(t)

LEMMA BlankEnd ==
  ASSUME NEW V, NEW t \in Seq(V), EndsBlank(t), t # <<>>
  PROVE  /\ Len(t) \in Nat /\ Len(t) >= 2 /\ t[Len(t)] = "nl" /\ t[Len(t) - 1] = "nl" /\ "nl" \in V
         /\ AlertsOf(SubSeq(t, 1, Len(t) - 1)) = AlertsOf(t)
         /\ AlertsOf(SubSeq(t, 1, Len(t) - 2)) = AlertsOf(t)
<1>. DEFINE n == Len(t)
<1>1. n \in Nat /\ n - 1 \in 1..(n - 1) /\ t[n - 1] = "nl" /\ t[(n - 1) + 1] = "nl"
  BY DEF EndsBlank, Gaps
<1>2. n >= 2 /\ (n - 1) + 1 = n /\ n \in 1..n /\ n - 1 \in 1..n /\ (n - 1) - 1 = n - 2
  BY <1>1
<1>3. t[n] = "nl" /\ t[n] \in V
  BY <1>1, <1>2
<1>4. AlertsOf(SubSeq(t, 1, n)) = AlertsOf(SubSeq(t, 1, n - 1))
  BY <1>2, <1>3, LastBlank
<1>5. AlertsOf(SubSeq(t, 1, n - 1)) = AlertsOf(SubSeq(t, 1, n - 2))
  BY <1>1, <1>2, LastBlank
<1>6. SubSeq(t, 1, n) = t
  BY SubSeqFull
<1>. QED
  BY <1>1, <1>2, <1>3, <1>4, <1>5, <1>6

-----------------------------------------------------------------------------
\* What the listener has done with a connection's bytes: what it has delivered
\* is a part that ended in a blank line and that has been told, and the buffer.
Ascii == \A frame \in Frames : Range(frame) \cap {"e1", "e2"} = {}
Handled(done) == got = done \o buf /\ EndsBlank(done) /\ Told = AlertsOf(done)
ListenInv == /\ \E done \in Seq(Symbols) : Handled(done)
             /\ pc # "cut" => Gaps(buf) = {}

LEMMA AsciiDecode ==
  ASSUME Ascii, NEW chunk \in Seq(Symbols) PROVE Decode(chunk) = chunk
<1>1. "e1" \notin Symbols /\ "e2" \notin Symbols
  BY DEF Ascii, Symbols
<1>2. \A i \in DOMAIN chunk : chunk[i] \in Symbols
  OBVIOUS
<1>3. Decode(chunk) = [i \in DOMAIN chunk |-> chunk[i]]
  BY <1>1, <1>2 DEF Decode
<1>. QED
  BY <1>3

LEMMA ToldGrows ==
  ASSUME NEW W, NEW s \in Seq(W), NEW x \in Seq(W), NEW n \in 0..Len(s)
  PROVE  SubSeq(s \o x, n + 1, Len(s \o x)) = SubSeq(s, n + 1, Len(s)) \o x
<1>. DEFINE both == s \o x
            left == SubSeq(s, n + 1, Len(s))
            right == SubSeq(both, n + 1, Len(both))
<1>1. /\ both \in Seq(W) /\ Len(both) = Len(s) + Len(x) /\ Len(s) \in Nat /\ Len(x) \in Nat
      /\ n \in Nat /\ n <= Len(s)
      /\ \A i \in 1..Len(s) : both[i] = s[i]
      /\ \A i \in 1..Len(x) : both[Len(s) + i] = x[i]
  BY ConcatProperties
<1>. HIDE DEF both
<1>2. /\ left \in Seq(W) /\ Len(left) = Len(s) - n
      /\ \A i \in 1..(Len(s) - n) : left[i] = s[n + i]
  <2>1. n + 1 \in 1..(Len(s) + 1) /\ Len(s) \in 0..Len(s)
    BY <1>1
  <2>2. /\ left \in Seq(W)
        /\ Len(left) = IF n + 1 <= Len(s) THEN Len(s) - (n + 1) + 1 ELSE 0
        /\ \A i \in 1..(Len(s) - (n + 1) + 1) : left[i] = s[(n + 1) + i - 1]
    BY <2>1, PartType
  <2>3. \A i \in 1..(Len(s) - n) : i \in 1..(Len(s) - (n + 1) + 1) /\ (n + 1) + i - 1 = n + i
    BY <1>1
  <2>. HIDE DEF left
  <2>. QED
    BY <1>1, <2>2, <2>3
<1>3. /\ right \in Seq(W) /\ Len(right) = Len(both) - n
      /\ \A i \in 1..(Len(both) - n) : right[i] = both[n + i]
  <2>1. n + 1 \in 1..(Len(both) + 1) /\ Len(both) \in 0..Len(both)
    BY <1>1
  <2>2. /\ right \in Seq(W)
        /\ Len(right) = IF n + 1 <= Len(both) THEN Len(both) - (n + 1) + 1 ELSE 0
        /\ \A i \in 1..(Len(both) - (n + 1) + 1) : right[i] = both[(n + 1) + i - 1]
    BY <1>1, <2>1, PartType
  <2>3. \A i \in 1..(Len(both) - n) : i \in 1..(Len(both) - (n + 1) + 1) /\ (n + 1) + i - 1 = n + i
    BY <1>1
  <2>. HIDE DEF right
  <2>. QED
    BY <1>1, <2>2, <2>3
<1>. HIDE DEF left, right
<1>. DEFINE longer == left \o x
<1>4. /\ longer \in Seq(W) /\ Len(longer) = Len(s) - n + Len(x)
      /\ \A i \in 1..(Len(s) - n + Len(x)) :
           longer[i] = IF i <= Len(s) - n THEN left[i] ELSE x[i - (Len(s) - n)]
  <2>1. /\ longer \in Seq(W) /\ Len(longer) = Len(left) + Len(x)
        /\ \A i \in 1..(Len(left) + Len(x)) :
             longer[i] = IF i <= Len(left) THEN left[i] ELSE x[i - Len(left)]
    BY <1>2, ConcatProperties
  <2>. HIDE DEF longer
  <2>. QED
    BY <1>2, <2>1
<1>. HIDE DEF longer
<1>5. Len(right) = Len(longer)
  BY <1>1, <1>3, <1>4
<1>6. ASSUME NEW i \in 1..Len(right) PROVE right[i] = longer[i]
  <2>1. i \in 1..(Len(both) - n) /\ i \in 1..(Len(s) - n + Len(x)) /\ right[i] = both[n + i]
    BY <1>1, <1>3, <1>4, <1>5
  <2>2. CASE i <= Len(s) - n
    <3>1. n + i \in 1..Len(s) /\ i \in 1..(Len(s) - n)
      BY <1>1, <2>1, <2>2
    <3>. QED
      BY <1>1, <1>2, <1>4, <2>1, <2>2, <3>1
  <2>3. CASE ~(i <= Len(s) - n)
    <3>1. i - (Len(s) - n) \in 1..Len(x) /\ Len(s) + (i - (Len(s) - n)) = n + i
      BY <1>1, <2>1, <2>3
    <3>2. both[n + i] = x[i - (Len(s) - n)]
      BY <1>1, <3>1
    <3>. QED
      BY <1>4, <2>1, <2>3, <3>2
  <2>. QED
    BY <2>2, <2>3
<1>7. right = longer
  BY <1>3, <1>4, <1>5, <1>6, SeqEqual
<1>. QED
  BY <1>7 DEF longer, left, right, both

LEMMA ListenInit == StreamInit => ListenInv
<1>. SUFFICES ASSUME StreamInit PROVE ListenInv
  OBVIOUS
<1>1. got = <<>> /\ buf = <<>> /\ found = <<>> /\ before = 0 /\ Len(found) = 0
  BY EmptySeq DEF StreamInit
<1>2. <<>> \in Seq(Symbols) /\ <<>> \o <<>> = <<>>
  BY EmptySeq, ConcatEmptySeq
<1>3. Told = <<>>
  BY <1>1, SubSeqEmpty DEF Told
<1>4. Handled(<<>>)
  BY <1>1, <1>2, <1>3, NothingTold DEF Handled, EndsBlank
<1>5. Gaps(buf) = {}
  BY <1>1, EmptySeq DEF Gaps
<1>. QED
  BY <1>2, <1>4, <1>5 DEF ListenInv

\* What is told of the first frame is what it has to tell with its blank line.
LEMMA CutAlerts ==
  ASSUME StreamTypeOK, Gaps(buf) # {}
  PROVE  AlertsOf(SubSeq(buf, 1, Min(Gaps(buf)) + 1)) = AlertsOf(Frame)
<1>. DEFINE g == Min(Gaps(buf))
<1>1. /\ g \in 1..(Len(buf) - 1) /\ Len(buf) \in Nat /\ buf[g] = "nl" /\ buf[g + 1] = "nl"
      /\ Frame = SubSeq(buf, 1, g - 1) /\ buf \in Seq(Symbols)
  BY FirstFrame DEF StreamTypeOK
<1>. HIDE DEF g
<1>2. g \in 1..Len(buf) /\ g + 1 \in 1..Len(buf) /\ (g + 1) - 1 = g
  BY <1>1
<1>3. AlertsOf(SubSeq(buf, 1, g + 1)) = AlertsOf(SubSeq(buf, 1, g))
  BY <1>1, <1>2, LastBlank
<1>4. AlertsOf(SubSeq(buf, 1, g)) = AlertsOf(SubSeq(buf, 1, g - 1))
  BY <1>1, <1>2, LastBlank
<1>. QED
  BY <1>1, <1>3, <1>4 DEF g

\* A frame is cut off: the part that is dealt with grows by it, and its alerts
\* are told.
LEMMA CutHandles ==
  ASSUME StreamTypeOK, ListenInv, Cut, Gaps(buf) # {}
  PROVE  \E done \in Seq(Symbols) : Handled(done)'
<1>. DEFINE g == Min(Gaps(buf))
            head == SubSeq(buf, 1, g + 1)
            rest == SubSeq(buf, g + 2, Len(buf))
<1>1. /\ g \in 1..(Len(buf) - 1) /\ Len(buf) \in Nat /\ buf[g] = "nl" /\ buf[g + 1] = "nl"
      /\ Frame = SubSeq(buf, 1, g - 1) /\ rest \in Seq(Symbols) /\ buf \in Seq(Symbols)
  BY FirstFrame DEF StreamTypeOK
<1>2. PICK done \in Seq(Symbols) : Handled(done)
  BY DEF ListenInv
<1>3. /\ buf' = rest /\ got' = got /\ before' = before /\ found' = found \o AlertsOf(Frame)
  BY DEF Cut, CutBuffer
<1>. HIDE DEF g
<1>4. head \in Seq(Symbols) /\ Len(head) = g + 1 /\ head[g] = "nl" /\ head[g + 1] = "nl"
  <2>1. 1 \in 1..(Len(buf) + 1) /\ g + 1 \in 0..Len(buf) /\ g \in 1..(g + 1 - 1 + 1)
        /\ g + 1 \in 1..(g + 1 - 1 + 1) /\ 1 + g - 1 = g /\ 1 + (g + 1) - 1 = g + 1 /\ 1 <= g + 1
        /\ g + 1 - 1 + 1 = g + 1
    BY <1>1
  <2>2. /\ head \in Seq(Symbols) /\ Len(head) = IF 1 <= g + 1 THEN g + 1 - 1 + 1 ELSE 0
        /\ \A i \in 1..(g + 1 - 1 + 1) : head[i] = buf[1 + i - 1]
    BY <1>1, <2>1, PartType
  <2>. HIDE DEF head
  <2>. QED
    BY <1>1, <2>1, <2>2
<1>5. head \o rest = buf
  <2>1. 1 \in 1..(Len(buf) + 1) /\ g + 1 \in (1 - 1)..Len(buf) /\ Len(buf) \in (g + 1)..Len(buf)
        /\ (g + 1) + 1 = g + 2
    BY <1>1
  <2>2. head \o SubSeq(buf, (g + 1) + 1, Len(buf)) = SubSeq(buf, 1, Len(buf))
    BY <1>1, <2>1, ConcatAdjacentSubSeq
  <2>3. SubSeq(buf, 1, Len(buf)) = buf
    BY <1>1, SubSeqFull
  <2>. QED
    BY <2>1, <2>2, <2>3
<1>6. AlertsOf(head) = AlertsOf(Frame)
  BY CutAlerts DEF g
<1>. HIDE DEF head, rest
<1>. DEFINE more == done \o head
<1>7. more \in Seq(Symbols) /\ Len(more) = Len(done) + (g + 1) /\ Len(done) \in Nat
      /\ more[Len(done) + g] = "nl" /\ more[Len(done) + (g + 1)] = "nl"
  <2>1. /\ more \in Seq(Symbols) /\ Len(more) = Len(done) + Len(head) /\ Len(done) \in Nat
        /\ \A i \in 1..(Len(done) + Len(head)) :
             more[i] = IF i <= Len(done) THEN done[i] ELSE head[i - Len(done)]
    <3>1. done \in Seq(Symbols) /\ head \in Seq(Symbols)
      BY <1>2, <1>4
    <3>. QED
      BY <3>1, ConcatProperties
  <2>2. /\ Len(done) + g \in 1..(Len(done) + Len(head)) /\ ~(Len(done) + g <= Len(done))
        /\ (Len(done) + g) - Len(done) = g
        /\ Len(done) + (g + 1) \in 1..(Len(done) + Len(head)) /\ ~(Len(done) + (g + 1) <= Len(done))
        /\ (Len(done) + (g + 1)) - Len(done) = g + 1
    BY <1>1, <1>4, <2>1
  <2>. HIDE DEF more
  <2>3. more[Len(done) + g] = head[g] /\ more[Len(done) + (g + 1)] = head[g + 1]
    BY <2>1, <2>2
  <2>. QED
    BY <1>4, <2>1, <2>3
<1>8. got = more \o rest
  <2>1. got = done \o (head \o rest)
    BY <1>2, <1>5 DEF Handled
  <2>2. (done \o head) \o rest = done \o (head \o rest)
    <3>1. done \in Seq(Symbols) /\ head \in Seq(Symbols) /\ rest \in Seq(Symbols)
      BY <1>1, <1>2, <1>4
    <3>. QED
      BY <3>1, ConcatAssociative
  <2>. QED
    BY <2>1, <2>2
<1>9. AlertsOf(more) = AlertsOf(done) \o AlertsOf(Frame)
  <2>1. Apart(done, head)
    BY <1>2, BlankEnd DEF Handled, Apart
  <2>. QED
    BY <1>2, <1>4, <1>6, <2>1, AlertsOfBoth
<1>10. EndsBlank(more)
  <2>1. Len(more) - 1 = Len(done) + g /\ Len(done) + g \in 1..(Len(more) - 1)
        /\ (Len(done) + g) + 1 = Len(done) + (g + 1)
    BY <1>1, <1>7
  <2>. HIDE DEF more
  <2>. QED
    BY <1>7, <2>1 DEF EndsBlank, Gaps
<1>11. PICK m \in Seq(Symbols) : /\ got = m \o rest /\ EndsBlank(m)
                                  /\ AlertsOf(m) = AlertsOf(done) \o AlertsOf(Frame)
  BY <1>7, <1>8, <1>9, <1>10
<1>12. Told' = Told \o AlertsOf(Frame)
  <2>. DEFINE told == AlertsOf(Frame)
  <2>1. found \in Seq(Seq(Symbols)) /\ told \in Seq(Seq(Symbols)) /\ before \in 0..Len(found)
    BY FrameTextType DEF StreamTypeOK
  <2>2. found' = found \o told /\ before' = before
    BY <1>3
  <2>. HIDE DEF told
  <2>3. SubSeq(found \o told, before + 1, Len(found \o told))
          = SubSeq(found, before + 1, Len(found)) \o told
    BY <2>1, ToldGrows
  <2>4. Told' = Told \o told
    BY <2>2, <2>3 DEF Told
  <2>. QED
    BY <2>4 DEF told
<1>13. Handled(m)'
  BY <1>2, <1>3, <1>11, <1>12 DEF Handled, EndsBlank
<1>. QED
  BY <1>11, <1>13

LEMMA ListenNext ==
  Ascii /\ StreamTypeOK /\ ListenInv /\ [StreamNext]_streamVars => ListenInv'
<1>. SUFFICES ASSUME Ascii, StreamTypeOK, ListenInv, [StreamNext]_streamVars PROVE ListenInv'
  OBVIOUS
<1>1. ASSUME UNCHANGED <<got, buf, found, before>>, pc = "cut" => pc' = "cut" PROVE ListenInv'
  <2>1. PICK done \in Seq(Symbols) : Handled(done)
    BY DEF ListenInv
  <2>2. Handled(done)'
    BY <1>1, <2>1 DEF Handled, Told
  <2>3. pc' # "cut" => Gaps(buf)' = {}
    BY <1>1 DEF ListenInv, Gaps
  <2>. QED
    BY <2>2, <2>3 DEF ListenInv
<1>2. CASE OpenStream
  <2>1. got' = <<>> /\ buf' = <<>> /\ found' = found /\ before' = Len(found) /\ Len(found) \in Nat
    BY <1>2 DEF OpenStream, StreamTypeOK
  <2>2. <<>> \in Seq(Symbols) /\ <<>> \o <<>> = <<>>
    BY EmptySeq, ConcatEmptySeq
  <2>3. Told' = <<>>
    <3>1. SubSeq(found, Len(found) + 1, Len(found)) = <<>>
      BY <2>1, SubSeqEmpty
    <3>. QED
      BY <2>1, <3>1 DEF Told
  <2>4. Handled(<<>>)'
    BY <2>1, <2>2, <2>3, NothingTold DEF Handled, EndsBlank
  <2>5. Gaps(buf)' = {}
    BY <2>1, EmptySeq DEF Gaps
  <2>. QED
    BY <2>2, <2>4, <2>5 DEF ListenInv
<1>3. ASSUME NEW n \in 1..Len(wire), Receive(n) PROVE ListenInv'
  <2>. DEFINE chunk == SubSeq(wire, 1, n)
  <2>1. chunk \in Seq(Symbols) /\ buf \in Seq(Symbols)
    BY ChunkType DEF StreamTypeOK
  <2>2. Decode(chunk) = chunk
    BY <2>1, AsciiDecode
  <2>3. /\ got' = got \o chunk /\ buf' = buf \o chunk /\ found' = found /\ before' = before
        /\ pc' = "cut"
    BY <1>3, <2>2 DEF Receive, analyzer
  <2>. HIDE DEF chunk
  <2>4. PICK done \in Seq(Symbols) : Handled(done)
    BY DEF ListenInv
  <2>5. (done \o buf) \o chunk = done \o (buf \o chunk)
    <3>1. done \in Seq(Symbols)
      BY <2>4
    <3>. QED
      BY <2>1, <3>1, ConcatAssociative
  <2>6. Handled(done)'
    BY <2>3, <2>4, <2>5 DEF Handled, Told
  <2>. QED
    BY <2>3, <2>4, <2>6 DEF ListenInv
<1>4. CASE Cut
  <2>1. CASE Gaps(buf) # {}
    <3>1. pc' = "cut"
      BY <1>4, <2>1 DEF Cut, CutBuffer
    <3>2. PICK done \in Seq(Symbols) : Handled(done)'
      BY <1>4, <2>1, CutHandles
    <3>. QED
      BY <3>1, <3>2 DEF ListenInv
  <2>2. CASE Gaps(buf) = {}
    <3>1. /\ got' = got /\ buf' = buf /\ before' = before
          /\ found' = found \o AlertsOf(<<>>)
      BY <1>4, <2>2 DEF Cut, CutBuffer, Frame
    <3>2. found' = found
      BY <3>1, NothingTold, ConcatEmptySeq DEF StreamTypeOK
    <3>3. PICK done \in Seq(Symbols) : Handled(done)
      BY DEF ListenInv
    <3>4. Handled(done)'
      BY <3>1, <3>2, <3>3 DEF Handled, Told
    <3>5. Gaps(buf)' = {}
      BY <2>2, <3>1 DEF Gaps
    <3>. QED
      BY <3>3, <3>4, <3>5 DEF ListenInv
  <2>. QED
    BY <2>1, <2>2
<1>5. CASE StreamEnds
  BY <1>1, <1>5 DEF StreamEnds
<1>6. CASE Wake
  BY <1>1, <1>6 DEF Wake
<1>7. CASE Return
  BY <1>1, <1>7 DEF Return
<1>8. CASE Vanish
  BY <1>1, <1>8 DEF Vanish
<1>9. ASSUME NEW frame \in Frames, SendFrame(frame) PROVE ListenInv'
  BY <1>1, <1>9 DEF SendFrame
<1>10. ASSUME NEW arrives \in 0..Len(wire), Break(arrives) PROVE ListenInv'
  BY <1>1, <1>10 DEF Break
<1>11. CASE UNCHANGED streamVars
  BY <1>1, <1>11 DEF streamVars
<1>. QED
  BY <1>2, <1>3, <1>4, <1>5, <1>6, <1>7, <1>8, <1>9, <1>10, <1>11 DEF StreamNext, Listen

LEMMA ListenTells == StreamTypeOK /\ ListenInv => ChunksDoNotMatter
<1>. SUFFICES ASSUME StreamTypeOK, ListenInv, pc # "cut"
     PROVE  Told = AlertsOf(IF Gaps(got) = {} THEN <<>> ELSE SubSeq(got, 1, Max(Gaps(got)) - 1))
  BY DEF ChunksDoNotMatter
<1>1. PICK done \in Seq(Symbols) : Handled(done)
  BY DEF ListenInv
<1>2. /\ got = done \o buf /\ EndsBlank(done) /\ Told = AlertsOf(done) /\ Gaps(buf) = {}
      /\ buf \in Seq(Symbols) /\ done \in Seq(Symbols) /\ got \in Seq(Symbols)
  BY <1>1 DEF Handled, ListenInv, StreamTypeOK
<1>3. CASE done = <<>>
  <2>1. got = buf
    BY <1>2, <1>3, ConcatEmptySeq
  <2>. QED
    BY <1>2, <1>3, <2>1
<1>4. CASE done # <<>>
  <2>. DEFINE d == Len(done)
              last == Max(Gaps(got))
  <2>1. d \in Nat /\ d >= 2 /\ d - 1 \in Gaps(done)
    BY <1>2, <1>4, BlankEnd DEF EndsBlank
  <2>2. d - 1 \in Gaps(got)
    <3>1. d - 1 \in 1..(d - 1)
      BY <2>1
    <3>. QED
      BY <1>2, <2>1, <3>1, GapsOfBoth
  <2>3. Gaps(got) \in SUBSET (1..Len(got)) /\ Len(got) \in Nat /\ Gaps(got) # {}
    <3>1. Len(got) \in Nat
      BY <1>2
    <3>2. \A g \in Gaps(got) : g \in 1..Len(got)
      BY <3>1 DEF Gaps
    <3>. QED
      BY <2>2, <3>1, <3>2
  <2>4. last \in Gaps(got) /\ d - 1 <= last
    BY <2>2, <2>3, LargestOf
  <2>5. last <= d
    <3>1. ~(last > d)
      BY <1>2, <2>4, GapsOfBoth
    <3>. QED
      BY <2>1, <2>3, <2>4, <3>1
  <2>. HIDE DEF last
  <2>6. last \in Nat /\ (last = d - 1 \/ last = d)
    BY <2>1, <2>3, <2>4, <2>5
  <2>7. SubSeq(got, 1, last - 1) = SubSeq(done, 1, last - 1)
    <3>1. CASE last = 1
      <4>1. last - 1 < 1 /\ last - 1 \in Int
        BY <3>1
      <4>. QED
        BY <4>1, SubSeqEmpty
    <3>2. CASE last # 1
      <4>1. last - 1 \in 1..Len(done) /\ 1 \in 1..Len(done)
        BY <2>1, <2>6, <3>2
      <4>. QED
        BY <1>2, <4>1, SubSeqOfConcat1
    <3>. QED
      BY <3>1, <3>2
  <2>8. AlertsOf(SubSeq(done, 1, last - 1)) = AlertsOf(done)
    <3>1. last - 1 = d - 1 \/ last - 1 = d - 2
      BY <2>1, <2>6
    <3>2. AlertsOf(SubSeq(done, 1, d - 1)) = AlertsOf(done) /\ AlertsOf(SubSeq(done, 1, d - 2)) = AlertsOf(done)
      BY <1>2, <1>4, BlankEnd
    <3>. QED
      BY <3>1, <3>2
  <2>. QED
    BY <1>2, <2>3, <2>7, <2>8 DEF last
<1>. QED
  BY <1>3, <1>4

\* However the network cuts a stream of plain characters into chunks, the alerts
\* of a connection are those of its text taken as a whole: for any frames, any
\* chunks and any number of them.
THEOREM ChunkingIsHarmless == ASSUME Ascii PROVE StreamSpec => []ChunksDoNotMatter
<1>1. StreamInit => StreamTypeOK /\ ListenInv
  BY StreamInitType, ListenInit
<1>2. (StreamTypeOK /\ ListenInv) /\ [StreamNext]_streamVars => (StreamTypeOK /\ ListenInv)'
  BY StreamNextType, ListenNext
<1>3. StreamTypeOK /\ ListenInv => ChunksDoNotMatter
  BY ListenTells
<1>. QED
  BY <1>1, <1>2, <1>3, PTL DEF StreamSpec

-----------------------------------------------------------------------------
\* What a connection carries is cut at its blank lines into frames, and while it
\* is open ends in one.
Starts(t) == {0} \cup {h + 1 : h \in Gaps(t)}
Framed(t) == \A g \in Gaps(t) : \E b \in Starts(t) : b < g /\ SubSeq(t, b + 1, g + 1) \in Frames
SentInv == Framed(got \o wire) /\ (peer = "open" => EndsBlank(got \o wire))

LEMMA FramedFirst ==
  ASSUME NEW p \in Seq(Symbols), NEW q \in Seq(Symbols), Framed(p \o q) PROVE Framed(p)
<1>. DEFINE both == p \o q
<1>. SUFFICES ASSUME NEW g \in Gaps(p)
     PROVE  \E b \in Starts(p) : b < g /\ SubSeq(p, b + 1, g + 1) \in Frames
  BY DEF Framed
<1>1. Len(p) \in Nat /\ g \in 1..(Len(p) - 1)
  BY DEF Gaps
<1>2. g \in Gaps(both)
  BY <1>1, GapsOfBoth
<1>3. PICK b \in Starts(both) : b < g /\ SubSeq(both, b + 1, g + 1) \in Frames
  BY <1>2 DEF Framed
<1>4. b \in Nat /\ b \in Starts(p)
  <2>1. CASE b = 0
    BY <2>1 DEF Starts
  <2>2. CASE b # 0
    <3>1. PICK h \in Gaps(both) : b = h + 1
      BY <1>3, <2>2 DEF Starts
    <3>2. h \in Nat
      BY DEF Gaps
    <3>3. h \in 1..(Len(p) - 1)
      <4>1. h \in 1..(Len(both) - 1)
        BY DEF Gaps
      <4>. QED
        BY <1>1, <1>3, <3>1, <3>2, <4>1
    <3>4. h \in Gaps(p)
      BY <3>3, GapsOfBoth
    <3>. QED
      BY <3>1, <3>2, <3>4 DEF Starts
  <2>. QED
    BY <2>1, <2>2
<1>5. b + 1 \in 1..Len(p) /\ g + 1 \in 1..Len(p)
  BY <1>1, <1>3, <1>4
<1>6. SubSeq(both, b + 1, g + 1) = SubSeq(p, b + 1, g + 1)
  BY <1>5, SubSeqOfConcat1
<1>. QED
  BY <1>3, <1>4, <1>6

LEMMA FramedMore ==
  ASSUME NEW t \in Seq(Symbols), Framed(t), EndsBlank(t), NEW frame \in Frames
  PROVE  Framed(t \o frame) /\ EndsBlank(t \o frame)
<1>. DEFINE both == t \o frame
            n == Len(t)
            f == Len(frame)
<1>1. /\ frame \in Seq(Symbols) /\ f \in Nat /\ f > 1 /\ frame[1] # "nl" /\ Gaps(frame) = {f - 1}
  BY FrameType
<1>2. Len(both) = n + f /\ n \in Nat
  BY <1>1, ConcatProperties
<1>3. n + (f - 1) \in Gaps(both)
  <2>1. f - 1 \in 1..(Len(frame) - 1) /\ f - 1 \in Gaps(frame)
    BY <1>1
  <2>. QED
    BY <1>1, <2>1, GapsOfBoth
<1>4. \A h \in Gaps(t) : h \in 1..(n - 1) /\ h \in Gaps(both)
  <2>. SUFFICES ASSUME NEW h \in Gaps(t) PROVE h \in 1..(n - 1) /\ h \in Gaps(both)
    OBVIOUS
  <2>1. h \in 1..(Len(t) - 1)
    BY DEF Gaps
  <2>. QED
    BY <1>1, <2>1, GapsOfBoth
<1>5. EndsBlank(both)
  <2>1. Len(both) - 1 = n + (f - 1)
    BY <1>1, <1>2
  <2>. HIDE DEF both, n, f
  <2>. QED
    BY <1>3, <2>1 DEF EndsBlank
<1>6. \A b \in Starts(t) : b \in Starts(both) /\ b \in Nat
  <2>. HIDE DEF both
  <2>. SUFFICES ASSUME NEW b \in Starts(t) PROVE b \in Starts(both) /\ b \in Nat
    OBVIOUS
  <2>1. CASE b = 0
    BY <2>1 DEF Starts
  <2>2. CASE b # 0
    <3>1. PICK h \in Gaps(t) : b = h + 1
      BY <2>2 DEF Starts
    <3>. QED
      BY <3>1, <1>2, <1>4 DEF Starts
  <2>. QED
    BY <2>1, <2>2
<1>7. ASSUME NEW g \in Gaps(both)
      PROVE  \E b \in Starts(both) : b < g /\ SubSeq(both, b + 1, g + 1) \in Frames
  <2>1. g \in 1..((n + f) - 1)
    <3>. HIDE DEF both
    <3>. QED
      BY <1>2 DEF Gaps
  <2>2. CASE g < n
    <3>1. g \in 1..(Len(t) - 1)
      BY <1>2, <2>1, <2>2
    <3>2. g \in Gaps(t)
      BY <1>1, <3>1, GapsOfBoth
    <3>3. PICK b \in Starts(t) : b < g /\ SubSeq(t, b + 1, g + 1) \in Frames
      BY <3>2 DEF Framed
    <3>4. b \in Starts(both) /\ b \in Nat
      BY <1>6, <3>3
    <3>5. b + 1 \in 1..Len(t) /\ g + 1 \in 1..Len(t)
      BY <1>2, <3>1, <3>3, <3>4
    <3>6. SubSeq(both, b + 1, g + 1) = SubSeq(t, b + 1, g + 1)
      BY <1>1, <3>5, SubSeqOfConcat1
    <3>. QED
      BY <3>3, <3>4, <3>6
  <2>3. CASE g = n
    <3>1. Len(t) \in Gaps(t \o frame)
      BY <2>3
    <3>2. frame[1] = "nl"
      BY <1>1, <3>1, GapsOfBoth
    <3>. QED
      BY <1>1, <3>2
  <2>4. CASE g > n
    <3>1. g - n \in Gaps(frame)
      BY <1>1, <2>4, GapsOfBoth
    <3>2. g + 1 = n + f /\ n < g
      BY <1>1, <1>2, <2>1, <2>4, <3>1
    <3>3. n \in Starts(both)
      <4>1. CASE t = <<>>
        <5>1. n = 0
          BY <4>1, EmptySeq
        <5>. QED
          BY <5>1 DEF Starts
      <4>2. CASE n - 1 \in Gaps(t)
        <5>1. n - 1 \in Gaps(both) /\ (n - 1) + 1 = n
          BY <1>2, <1>4, <4>2
        <5>. HIDE DEF both, n
        <5>. QED
          BY <5>1 DEF Starts
      <4>. QED
        BY <4>1, <4>2 DEF EndsBlank
    <3>4. SubSeq(both, n + 1, n + f) = frame
      <4>1. n + 1 \in (Len(t) + 1)..(Len(t) + Len(frame)) /\ n + f \in (Len(t) + 1)..(Len(t) + Len(frame))
            /\ (n + 1) - Len(t) = 1 /\ (n + f) - Len(t) = Len(frame)
        BY <1>1, <1>2
      <4>2. SubSeq(both, n + 1, n + f) = SubSeq(frame, (n + 1) - Len(t), (n + f) - Len(t))
        BY <1>1, <4>1, SubSeqOfConcat2
      <4>3. SubSeq(frame, 1, Len(frame)) = frame
        BY <1>1, SubSeqFull
      <4>. QED
        BY <4>1, <4>2, <4>3
    <3>. HIDE DEF both, n, f
    <3>. QED
      BY <3>2, <3>3, <3>4
  <2>. QED
    BY <1>2, <2>1, <2>2, <2>3, <2>4
<1>. QED
  BY <1>5, <1>7 DEF Framed

\* A frame has no blank line within, and none goes over into it.
LEMMA NoGapWithin ==
  ASSUME NEW t \in Seq(Symbols), NEW b \in Nat, NEW g \in Gaps(t), b < g,
         SubSeq(t, b + 1, g + 1) \in Frames, NEW h \in Gaps(t)
  PROVE  ~(b <= h /\ h < g)
<1>. SUFFICES ASSUME b <= h, h < g PROVE FALSE
  OBVIOUS
<1>. DEFINE F == SubSeq(t, b + 1, g + 1)
<1>1. /\ Len(t) \in Nat /\ g \in 1..(Len(t) - 1) /\ h \in 1..(Len(t) - 1)
      /\ t[h] = "nl" /\ t[h + 1] = "nl"
  BY DEF Gaps
<1>2. F[1] # "nl" /\ Gaps(F) = {Len(F) - 1}
  BY FrameType
<1>3. Len(F) = (g - b) + 1 /\ \A i \in 1..((g - b) + 1) : F[i] = t[b + i]
  <2>1. b + 1 \in 1..(Len(t) + 1) /\ g + 1 \in 0..Len(t) /\ b + 1 <= g + 1
        /\ (g + 1) - (b + 1) + 1 = (g - b) + 1
    BY <1>1
  <2>2. /\ Len(F) = IF b + 1 <= g + 1 THEN (g + 1) - (b + 1) + 1 ELSE 0
        /\ \A i \in 1..((g + 1) - (b + 1) + 1) : F[i] = t[(b + 1) + i - 1]
    BY <2>1, PartType
  <2>3. \A i \in 1..((g - b) + 1) : (b + 1) + i - 1 = b + i
    BY <1>1
  <2>. HIDE DEF F
  <2>. QED
    BY <2>1, <2>2, <2>3
<1>. HIDE DEF F
<1>4. CASE h = b
  <2>1. 1 \in 1..((g - b) + 1)
    BY <1>1
  <2>2. F[1] = t[b + 1]
    BY <1>3, <2>1
  <2>. QED
    BY <1>1, <1>2, <1>4, <2>2
<1>5. CASE h # b
  <2>. DEFINE i == h - b
  <2>1. /\ i \in 1..(Len(F) - 1) /\ i \in 1..((g - b) + 1) /\ i + 1 \in 1..((g - b) + 1)
        /\ b + i = h /\ b + (i + 1) = h + 1 /\ i # Len(F) - 1
    BY <1>1, <1>3, <1>5
  <2>. HIDE DEF i
  <2>2. F[i] = "nl" /\ F[i + 1] = "nl"
    BY <1>1, <1>3, <2>1
  <2>3. i \in Gaps(F)
    BY <2>1, <2>2 DEF Gaps
  <2>. QED
    BY <1>2, <2>1, <2>3
<1>. QED
  BY <1>4, <1>5

LEMMA SentInit == StreamInit => SentInv
<1>. SUFFICES ASSUME StreamInit PROVE SentInv
  OBVIOUS
<1>1. got = <<>> /\ wire = <<>> /\ <<>> \o <<>> = <<>> /\ peer # "open"
  BY ConcatEmptySeq, EmptySeq DEF StreamInit
<1>2. Framed(<<>>)
  BY EmptySeq DEF Framed, Gaps
<1>. QED
  BY <1>1, <1>2 DEF SentInv

LEMMA SentNext == StreamTypeOK /\ SentInv /\ [StreamNext]_streamVars => SentInv'
<1>. SUFFICES ASSUME StreamTypeOK, SentInv, [StreamNext]_streamVars PROVE SentInv'
  OBVIOUS
<1>0. wire \in Seq(Symbols) /\ got \in Seq(Symbols) /\ Len(wire) \in Nat
  BY DEF StreamTypeOK
<1>1. ASSUME got' \o wire' = got \o wire, peer' = "open" => peer = "open" PROVE SentInv'
  BY <1>1 DEF SentInv, EndsBlank, Framed, Starts, Gaps
<1>2. CASE OpenStream
  <2>1. got' = <<>> /\ wire' = <<>> /\ <<>> \o <<>> = <<>>
    BY <1>2, ConcatEmptySeq, EmptySeq DEF OpenStream
  <2>2. Framed(<<>>) /\ EndsBlank(<<>>)
    BY EmptySeq DEF Framed, Gaps, EndsBlank
  <2>. QED
    BY <2>1, <2>2 DEF SentInv, Framed, EndsBlank, Starts, Gaps
<1>3. ASSUME NEW n \in 1..Len(wire), Receive(n) PROVE SentInv'
  <2>. DEFINE chunk == SubSeq(wire, 1, n)
              rest == SubSeq(wire, n + 1, Len(wire))
  <2>1. chunk \in Seq(Symbols) /\ rest \in Seq(Symbols) /\ chunk \o rest = wire
    BY ChunkType
  <2>2. got' = got \o chunk /\ wire' = rest /\ peer' = peer
    BY <1>3 DEF Receive, analyzer
  <2>. HIDE DEF chunk, rest
  <2>3. (got \o chunk) \o rest = got \o (chunk \o rest)
    <3>1. got \in Seq(Symbols) /\ chunk \in Seq(Symbols) /\ rest \in Seq(Symbols)
      BY <1>0, <2>1
    <3>. QED
      BY <3>1, ConcatAssociative
  <2>. QED
    BY <1>1, <2>1, <2>2, <2>3
<1>4. CASE Cut
  BY <1>1, <1>4 DEF Cut, CutBuffer, analyzer
<1>5. CASE StreamEnds
  BY <1>1, <1>5 DEF StreamEnds
<1>6. CASE Wake
  BY <1>1, <1>6 DEF Wake, analyzer
<1>7. CASE Return
  BY <1>1, <1>7 DEF Return
<1>8. CASE Vanish
  <2>1. got' = got /\ wire' = <<>> /\ peer' # "open"
    BY <1>8 DEF Vanish
  <2>2. got \o <<>> = got
    BY <1>0, ConcatEmptySeq
  <2>3. Framed(got)
    BY <1>0, FramedFirst DEF SentInv
  <2>. QED
    BY <2>1, <2>2, <2>3 DEF SentInv, Framed, Starts, Gaps
<1>9. ASSUME NEW frame \in Frames, SendFrame(frame) PROVE SentInv'
  <2>1. wire' = wire \o frame /\ got' = got /\ peer = "open"
    BY <1>9 DEF SendFrame
  <2>2. frame \in Seq(Symbols) /\ got \o wire \in Seq(Symbols)
    BY <1>0, FrameType, ConcatProperties
  <2>3. (got \o wire) \o frame = got \o (wire \o frame)
    BY <1>0, <2>2, ConcatAssociative
  <2>4. Framed((got \o wire) \o frame) /\ EndsBlank((got \o wire) \o frame)
    BY <2>1, <2>2, FramedMore DEF SentInv
  <2>. QED
    BY <2>1, <2>3, <2>4 DEF SentInv, Framed, EndsBlank, Starts, Gaps
<1>10. ASSUME NEW arrives \in 0..Len(wire), Break(arrives) PROVE SentInv'
  <2>. DEFINE first == SubSeq(wire, 1, arrives)
              rest == SubSeq(wire, arrives + 1, Len(wire))
  <2>1. first \in Seq(Symbols) /\ rest \in Seq(Symbols) /\ first \o rest = wire
    <3>1. 1 \in 1..(Len(wire) + 1) /\ arrives \in (1 - 1)..Len(wire) /\ arrives \in 0..Len(wire)
          /\ Len(wire) \in arrives..Len(wire) /\ arrives + 1 \in 1..(Len(wire) + 1)
          /\ Len(wire) \in 0..Len(wire)
      BY <1>0
    <3>2. first \o rest = SubSeq(wire, 1, Len(wire))
      BY <1>0, <3>1, ConcatAdjacentSubSeq
    <3>3. SubSeq(wire, 1, Len(wire)) = wire
      BY <1>0, SubSeqFull
    <3>. QED
      BY <1>0, <3>1, <3>2, <3>3, PartType
  <2>2. wire' = first /\ got' = got /\ peer' # "open"
    BY <1>10 DEF Break
  <2>. HIDE DEF first, rest
  <2>3. (got \o first) \o rest = got \o wire /\ got \o first \in Seq(Symbols)
    <3>1. got \in Seq(Symbols) /\ first \in Seq(Symbols) /\ rest \in Seq(Symbols)
      BY <1>0, <2>1
    <3>2. (got \o first) \o rest = got \o (first \o rest) /\ got \o first \in Seq(Symbols)
      BY <3>1, ConcatAssociative, ConcatProperties
    <3>. QED
      BY <2>1, <3>2
  <2>4. Framed(got \o first)
    BY <2>1, <2>3, FramedFirst DEF SentInv
  <2>. QED
    BY <2>2, <2>4 DEF SentInv, Framed, Starts, Gaps
<1>11. CASE UNCHANGED streamVars
  BY <1>1, <1>11 DEF streamVars
<1>. QED
  BY <1>2, <1>3, <1>4, <1>5, <1>6, <1>7, <1>8, <1>9, <1>10, <1>11 DEF StreamNext, Listen

\* What Cut takes for a frame is one that was sent: it begins where the last one
\* ended, and ends at the blank line that ends it.
LEMMA CutIsAFrame ==
  ASSUME StreamTypeOK, ListenInv, SentInv, Gaps(buf) # {}
  PROVE  \E frame \in Frames : AlertsOf(Frame) = AlertsOf(frame)
<1>. DEFINE g == Min(Gaps(buf))
<1>1. /\ g \in 1..(Len(buf) - 1) /\ Len(buf) \in Nat /\ \A h \in Gaps(buf) : g <= h
      /\ buf \in Seq(Symbols) /\ got \in Seq(Symbols) /\ wire \in Seq(Symbols)
  BY FirstFrame DEF StreamTypeOK
<1>2. g \in Gaps(buf)
  <2>1. Gaps(buf) \in SUBSET (1..Len(buf))
    <3>1. \A h \in Gaps(buf) : h \in 1..Len(buf)
      BY <1>1 DEF Gaps
    <3>. QED
      BY <3>1
  <2>. QED
    BY <1>1, <2>1, SmallestOf
<1>. HIDE DEF g
<1>3. PICK done \in Seq(Symbols) : Handled(done)
  BY DEF ListenInv
<1>. DEFINE d == Len(done)
<1>4. got = done \o buf /\ EndsBlank(done) /\ d \in Nat
  BY <1>3 DEF Handled
<1>5. Framed(got)
  BY <1>1, FramedFirst DEF SentInv
<1>6. d + g \in Gaps(got)
  <2>1. done \in Seq(Symbols)
    BY <1>3
  <2>. QED
    BY <1>1, <1>2, <1>4, <2>1, GapsOfBoth
<1>7. d # 0 => d - 1 \in Gaps(got) /\ d - 1 \in Nat /\ d >= 2
  <2>. SUFFICES ASSUME d # 0 PROVE d - 1 \in Gaps(got) /\ d - 1 \in Nat /\ d >= 2
    OBVIOUS
  <2>1. done \in Seq(Symbols) /\ done # <<>>
    BY <1>3, EmptySeq
  <2>2. d >= 2 /\ d - 1 \in Gaps(done)
    BY <1>4, <2>1, BlankEnd DEF EndsBlank
  <2>3. d - 1 \in 1..(Len(done) - 1)
    BY <1>4, <2>2
  <2>. QED
    BY <1>1, <1>4, <2>1, <2>2, <2>3, GapsOfBoth
<1>8. PICK b \in Starts(got) : b < d + g /\ SubSeq(got, b + 1, (d + g) + 1) \in Frames
  BY <1>5, <1>6 DEF Framed
<1>9. \A h \in Gaps(got) : h \in Nat /\ h >= 1
  BY DEF Gaps
<1>10. \A c \in Starts(got) : c \in Nat /\ (c # 0 => c - 1 \in Gaps(got))
  <2>. SUFFICES ASSUME NEW c \in Starts(got) PROVE c \in Nat /\ (c # 0 => c - 1 \in Gaps(got))
    OBVIOUS
  <2>1. CASE c = 0
    BY <2>1
  <2>2. CASE c # 0
    <3>1. PICK h \in Gaps(got) : c = h + 1
      BY <2>2 DEF Starts
    <3>2. h \in Nat /\ c - 1 = h
      BY <1>9, <3>1
    <3>. QED
      BY <3>1, <3>2
  <2>. QED
    BY <2>1, <2>2
<1>11. b \in Nat /\ (b # 0 => b - 1 \in Gaps(got))
  BY <1>8, <1>10
<1>. HIDE DEF d
<1>12. ~(b < d)
  <2>. SUFFICES ASSUME b < d PROVE FALSE
    OBVIOUS
  <2>1. d - 1 \in Gaps(got) /\ b <= d - 1 /\ d - 1 < d + g
    BY <1>1, <1>4, <1>7, <1>11
  <2>. QED
    BY <1>1, <1>6, <1>8, <1>11, <2>1, NoGapWithin
<1>13. ~(b > d)
  <2>. SUFFICES ASSUME b > d PROVE FALSE
    OBVIOUS
  <2>1. b - 1 \in Gaps(got) /\ b - 1 >= d
    BY <1>4, <1>11
  <2>2. CASE b - 1 > d
    <3>1. done \in Seq(Symbols)
      BY <1>3
    <3>2. (b - 1) - d \in Gaps(buf)
      BY <1>1, <1>4, <2>1, <2>2, <3>1, GapsOfBoth DEF d
    <3>3. g <= (b - 1) - d
      BY <1>1, <3>2
    <3>. QED
      BY <1>1, <1>4, <1>8, <1>11, <3>3
  <2>3. CASE b - 1 = d
    <3>1. d \in Gaps(got) /\ d # 0
      BY <1>9, <2>1, <2>3
    <3>2. PICK c \in Starts(got) : c < d /\ SubSeq(got, c + 1, d + 1) \in Frames
      BY <1>5, <3>1 DEF Framed
    <3>3. c \in Nat
      BY <1>10, <3>2
    <3>4. d - 1 \in Gaps(got) /\ c <= d - 1 /\ d - 1 < d
      BY <1>4, <1>7, <3>1, <3>2, <3>3
    <3>. QED
      BY <1>1, <3>1, <3>2, <3>3, <3>4, NoGapWithin
  <2>. QED
    BY <1>4, <1>11, <2>1, <2>2, <2>3
<1>14. b = d
  BY <1>4, <1>11, <1>12, <1>13
<1>15. SubSeq(got, d + 1, (d + g) + 1) = SubSeq(buf, 1, g + 1)
  <2>1. /\ d + 1 \in (Len(done) + 1)..(Len(done) + Len(buf))
        /\ (d + g) + 1 \in (Len(done) + 1)..(Len(done) + Len(buf))
        /\ (d + 1) - Len(done) = 1 /\ ((d + g) + 1) - Len(done) = g + 1
        /\ done \in Seq(Symbols)
    BY <1>1, <1>3, <1>4 DEF d
  <2>2. SubSeq(done \o buf, d + 1, (d + g) + 1)
          = SubSeq(buf, (d + 1) - Len(done), ((d + g) + 1) - Len(done))
    BY <1>1, <2>1, SubSeqOfConcat2
  <2>. QED
    BY <1>4, <2>1, <2>2
<1>. QED
  BY <1>8, <1>14, <1>15, CutAlerts DEF g

LEMMA WholeFramesNext ==
  StreamTypeOK /\ ListenInv /\ SentInv /\ NoPartOfAFrame /\ [StreamNext]_streamVars
    => NoPartOfAFrame'
<1>. SUFFICES ASSUME StreamTypeOK, ListenInv, SentInv, NoPartOfAFrame, [StreamNext]_streamVars
     PROVE  NoPartOfAFrame'
  OBVIOUS
<1>1. CASE found' = found
  BY <1>1 DEF NoPartOfAFrame
<1>2. CASE Cut /\ Gaps(buf) = {}
  <2>1. found' = found \o <<>>
    BY <1>2, NothingTold DEF Cut, Frame
  <2>2. found' = found
    BY <2>1, ConcatEmptySeq DEF StreamTypeOK
  <2>. QED
    BY <1>1, <2>2
<1>3. CASE Cut /\ Gaps(buf) # {}
  <2>1. PICK frame \in Frames : AlertsOf(Frame) = AlertsOf(frame)
    BY <1>3, CutIsAFrame
  <2>. DEFINE told == AlertsOf(frame)
  <2>2. found' = found \o told
    BY <1>3, <2>1 DEF Cut
  <2>3. found \in Seq(Seq(Symbols)) /\ told \in Seq(Seq(Symbols))
    BY FrameType, AlertsType DEF StreamTypeOK
  <2>. HIDE DEF told
  <2>4. /\ Len(found') = Len(found) + Len(told) /\ Len(found) \in Nat /\ Len(told) \in Nat
        /\ DOMAIN found' = 1..(Len(found) + Len(told)) /\ DOMAIN told = 1..Len(told)
        /\ \A k \in 1..(Len(found) + Len(told)) :
             found'[k] = IF k <= Len(found) THEN found[k] ELSE told[k - Len(found)]
    BY <2>2, <2>3, ConcatProperties
  <2>5. ASSUME NEW k \in DOMAIN found'
        PROVE  \E source \in Frames : found'[k] \in Range(AlertsOf(source))
    <3>1. CASE k <= Len(found)
      <4>1. k \in DOMAIN found /\ found'[k] = found[k]
        BY <2>3, <2>4, <3>1
      <4>. QED
        BY <4>1 DEF NoPartOfAFrame
    <3>2. CASE ~(k <= Len(found))
      <4>1. k - Len(found) \in DOMAIN told /\ found'[k] = told[k - Len(found)]
        BY <2>4, <3>2
      <4>2. found'[k] \in Range(told)
        BY <4>1 DEF Range
      <4>. QED
        BY <4>2 DEF told
    <3>. QED
      BY <3>1, <3>2
  <2>. QED
    BY <2>5 DEF NoPartOfAFrame
<1>. QED
  BY <1>1, <1>2, <1>3 DEF StreamNext, Listen, OpenStream, Receive, StreamEnds, Wake, Return,
     Vanish, SendFrame, Break, streamVars

\* Every alert is one that was sent: whatever connections break in whatever part
\* of a frame, of that frame nothing is told.
THEOREM TellsWholeFrames == ASSUME Ascii PROVE StreamSpec => []NoPartOfAFrame
<1>. DEFINE Inv == StreamTypeOK /\ ListenInv /\ SentInv /\ NoPartOfAFrame
<1>1. StreamInit => Inv
  <2>1. StreamInit => NoPartOfAFrame
    BY DEF StreamInit, NoPartOfAFrame
  <2>. QED
    BY <2>1, StreamInitType, ListenInit, SentInit
<1>2. Inv /\ [StreamNext]_streamVars => Inv'
  BY StreamNextType, ListenNext, SentNext, WholeFramesNext
<1>. QED
  BY <1>1, <1>2, PTL DEF StreamSpec
=============================================================================
