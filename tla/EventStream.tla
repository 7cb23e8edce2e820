----------------------------- MODULE EventStream -----------------------------
(***************************************************************************)
(* The dashboard's listener for server-sent events (spawn_alerts and       *)
(* stream_events in crates/flow-analyzer-tui/src/main.rs): it opens        *)
(* /api/events, takes the bytes in whatever chunks they come, cuts frames  *)
(* at blank lines, and turns the data lines into alerts.  When the stream  *)
(* ends it waits 2 s and opens it again.                                   *)
(*                                                                         *)
(* A text is a sequence of symbols: "nl" and "cr" end lines, "data:" and   *)
(* "heartbeat" stand for themselves, "e1" and "e2" are the two bytes of    *)
(* one character, "?" is U+FFFD, and all others are plain characters.      *)
(***************************************************************************)
EXTENDS Naturals, SequencesExt, FiniteSetsExt

CONSTANTS Links,       \* what Addr::parse may find: "unix", "tcp"
          Frames,      \* what the analyzer may send at once
          MaxSent,     \* bound: frames sent
          MaxBreaks,   \* bound: connections broken
          MaxSilent    \* bound: connections lost without a sign

ASSUME LinkAssumption == Links \subseteq {"unix", "tcp"}
ASSUME StreamBoundAssumption == {MaxSent, MaxBreaks, MaxSilent} \subseteq Nat

\* buf.find("\n\n")
Gaps(s) == {i \in 1..(Len(s) - 1) : s[i] = "nl" /\ s[i + 1] = "nl"}

\* An event as the analyzer's library writes it: some lines and one blank line,
\* which ends it.
ASSUME FrameAssumption ==
  \A frame \in Frames : /\ frame \in Seq(STRING) /\ Len(frame) > 1
                        /\ frame[1] # "nl" /\ Gaps(frame) = {Len(frame) - 1}

VARIABLES link,        \* how the analyzer is reached
          serving,     \* whether the analyzer listens
          peer,        \* its end of the connection: "none", "open", "lost"
          wire,        \* bytes it has sent that have not been received
          pc,          \* the listener: "connect", "read", "cut", "sleep"
          buf,         \* its buffer
          found,       \* the DataEvent::Alerts it has sent to the UI
          got,         \* history: all that this connection has delivered
          before,      \* history: Len(found) when this connection was opened
          sent, breaks, silent

streamVars == <<link, serving, peer, wire, pc, buf, found, got, before, sent, breaks, silent>>
analyzer == <<link, serving, peer, sent, breaks, silent>>

StreamInit == /\ link \in Links /\ serving = TRUE /\ peer = "none" /\ wire = <<>>
              /\ pc = "connect" /\ buf = <<>> /\ found = <<>>
              /\ got = <<>> /\ before = 0
              /\ sent = 0 /\ breaks = 0 /\ silent = 0

-----------------------------------------------------------------------------
Blank == {" ", "cr"}

\* str::trim
Trim(s) == LET solid == {i \in DOMAIN s : s[i] \notin Blank}
           IN IF solid = {} THEN <<>> ELSE SubSeq(s, Min(solid), Max(solid))

\* String::from_utf8_lossy: a byte without its partner becomes U+FFFD.
Decode(chunk) ==
  [i \in DOMAIN chunk |->
     IF \/ chunk[i] = "e1" /\ ~(i < Len(chunk) /\ chunk[i + 1] = "e2")
        \/ chunk[i] = "e2" /\ ~(i > 1 /\ chunk[i - 1] = "e1")
     THEN "?" ELSE chunk[i]]

\* The text of the line that begins at i.
LineAt(s, i) ==
  SubSeq(s, i, Min({k \in i..Len(s) : s[k] = "nl"} \cup {Len(s) + 1}) - 1)

IsAlert(data) == data # <<>> /\ data # <<"heartbeat">>

\* The data of the line that begins at i, and where the lines begin that have
\* some to tell.
DataAt(s, i) == Trim(Tail(LineAt(s, i)))
AlertLines(s) == {i \in DOMAIN s : /\ s[i] = "data:" /\ (i = 1 \/ s[i - 1] = "nl")
                                 /\ IsAlert(DataAt(s, i))}

\* The alerts in the lines of a text, line after line.
Nth(S, k) == CHOOSE i \in S : Cardinality({j \in S : j <= i}) = k
AlertsOf(s) ==
  LET lines == AlertLines(s)
  IN [k \in 1..Cardinality(lines) |-> DataAt(s, Nth(lines, k))]

-----------------------------------------------------------------------------
\* The analyzer (and whatever serves /api/events): it sends a frame,
SendFrame(frame) ==
  /\ peer = "open" /\ sent < MaxSent
  /\ wire' = wire \o frame /\ sent' = sent + 1
  /\ UNCHANGED <<link, serving, peer, pc, buf, found, got, before, breaks, silent>>

\* ends with the connection, of which any part of the bytes still arrives,
Break(arrives) ==
  /\ serving /\ breaks < MaxBreaks
  /\ serving' = FALSE /\ breaks' = breaks + 1
  /\ peer' = IF peer = "open" THEN "closed" ELSE peer
  /\ wire' = SubSeq(wire, 1, arrives)
  /\ UNCHANGED <<link, pc, buf, found, got, before, sent, silent>>

Return ==
  /\ ~serving /\ serving' = TRUE
  /\ UNCHANGED <<link, peer, wire, pc, buf, found, got, before, sent, breaks, silent>>

\* or, over TCP, goes (a reboot, a route) without the listener being told.
Vanish ==
  /\ link = "tcp" /\ peer = "open" /\ silent < MaxSilent
  /\ peer' = "lost" /\ wire' = <<>> /\ silent' = silent + 1
  /\ UNCHANGED <<link, serving, pc, buf, found, got, before, sent, breaks>>

-----------------------------------------------------------------------------
\* Mutant of OpenStream: the buffer outlives the connection.
OpenStreamKeepsBuf ==
  /\ pc = "connect"
  /\ IF serving THEN peer' = "open" /\ pc' = "read" ELSE peer' = "none" /\ pc' = "sleep"
  /\ wire' = <<>> /\ got' = <<>> /\ before' = Len(found)
  /\ UNCHANGED <<link, serving, found, buf, sent, breaks, silent>>

\* stream_events: connect (an error ends the attempt),
OpenStream ==
  /\ pc = "connect"
  /\ IF serving THEN peer' = "open" /\ pc' = "read" ELSE peer' = "none" /\ pc' = "sleep"
  /\ wire' = <<>> /\ buf' = <<>> /\ got' = <<>> /\ before' = Len(found)
  /\ UNCHANGED <<link, serving, found, sent, breaks, silent>>

\* Mutant of Receive: each chunk is taken by itself.
ReceiveAlone(n) ==
  /\ pc = "read" /\ n \in 1..Len(wire)
  /\ LET chunk == SubSeq(wire, 1, n)
     IN buf' = Decode(chunk) /\ got' = got \o chunk
  /\ wire' = SubSeq(wire, n + 1, Len(wire)) /\ pc' = "cut"
  /\ UNCHANGED <<analyzer, found, before>>

\* take the next chunk, of any length, and append what it decodes to,
Receive(n) ==
  /\ pc = "read" /\ n \in 1..Len(wire)
  /\ LET chunk == SubSeq(wire, 1, n)
     IN buf' = buf \o Decode(chunk) /\ got' = got \o chunk
  /\ wire' = SubSeq(wire, n + 1, Len(wire)) /\ pc' = "cut"
  /\ UNCHANGED <<analyzer, found, before>>

\* and cut off frame after frame, telling its alerts; the last, unfinished one
\* stays.
Frame == IF Gaps(buf) = {} THEN <<>> ELSE SubSeq(buf, 1, Min(Gaps(buf)) - 1)
CutBuffer ==
  /\ pc = "cut"
  /\ IF Gaps(buf) = {} THEN pc' = "read" /\ UNCHANGED buf
     ELSE buf' = SubSeq(buf, Min(Gaps(buf)) + 2, Len(buf)) /\ UNCHANGED pc
  /\ UNCHANGED <<analyzer, wire, got, before>>
Cut == CutBuffer /\ found' = found \o AlertsOf(Frame)

\* Mutant of StreamEnds: an end of the stream ends the task.
StreamEndsForGood ==
  /\ pc = "read" /\ peer = "closed" /\ wire = <<>>
  /\ pc' = "done" /\ peer' = "none"
  /\ UNCHANGED <<link, serving, wire, buf, found, got, before, sent, breaks, silent>>

\* The stream ends, or fails, with what the buffer holds.
StreamEnds ==
  /\ pc = "read" /\ peer = "closed" /\ wire = <<>>
  /\ pc' = "sleep" /\ peer' = "none"
  /\ UNCHANGED <<link, serving, wire, buf, found, got, before, sent, breaks, silent>>

\* spawn_alerts: back off for 2 s, then reconnect.
Wake ==
  /\ pc = "sleep" /\ pc' = "connect"
  /\ UNCHANGED <<analyzer, wire, buf, found, got, before>>

-----------------------------------------------------------------------------
Listen == OpenStream \/ (\E n \in 1..Len(wire) : Receive(n)) \/ Cut \/ StreamEnds \/ Wake

StreamNext == \/ Listen \/ Return \/ Vanish
              \/ \E frame \in Frames : SendFrame(frame)
              \/ \E arrives \in 0..Len(wire) : Break(arrives)

\* The listener is a task of its own that goes on, whatever it has to tell, and
\* an analyzer that went down is started again.  Nobody has to send.
GoOn == OpenStream \/ (\E n \in 1..Len(wire) : Receive(n)) \/ CutBuffer \/ StreamEnds \/ Wake
StreamSpec == StreamInit /\ [][StreamNext]_streamVars /\ WF_<<pc, buf>>(GoOn) /\ WF_streamVars(Return)

-----------------------------------------------------------------------------
Symbols == {"?"} \cup UNION {Range(f) : f \in Frames}
Told == SubSeq(found, before + 1, Len(found))

StreamTypeOK == /\ link \in Links /\ serving \in BOOLEAN
                /\ peer \in {"none", "open", "closed", "lost"}
                /\ pc \in {"connect", "read", "cut", "sleep"}
                /\ {wire, buf, got} \subseteq Seq(Symbols) /\ found \in Seq(Seq(Symbols))
                /\ before \in 0..Len(found)
                /\ sent \in 0..MaxSent /\ breaks \in 0..MaxBreaks /\ silent \in 0..MaxSilent

\* However the network cuts the bytes into chunks, in a line, in a blank line or
\* after several frames at once, the alerts of a connection are those of the
\* text it delivered taken as a whole, up to its last blank line: frame by frame
\* and buffer by buffer, stream_events finds what one pass would.
ChunksDoNotMatter ==
  pc # "cut" => Told = AlertsOf(IF Gaps(got) = {} THEN <<>> ELSE SubSeq(got, 1, Max(Gaps(got)) - 1))

\* Every alert is one that was sent: of a frame that a broken connection cut
\* short, nothing is told, and nothing of it is glued to the next connection's.
NoPartOfAFrame ==
  \A k \in DOMAIN found : \E frame \in Frames : found[k] \in Range(AlertsOf(frame))

\* If the analyzer comes to stay, the listener ends up connected to it and
\* having received all it sent, however many connections broke before.  Over
\* TCP only if no connection vanished silently: see StreamsAgain.
ListensAgain ==
  (<>[]serving /\ [](silent = 0)) => <>[](peer = "open") /\ []<>(wire = <<>>)

\* "Spawn the SSE listener for `/api/events`, reconnecting on failure."
\* (main.rs:410): if the analyzer comes to stay, the listener is connected to it.
StreamsAgain == <>[]serving => <>[](peer = "open")
=============================================================================
