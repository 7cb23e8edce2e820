--------------------------- MODULE MCEventStream ---------------------------
(***************************************************************************)
(* Instances of EventStream for TLC.  The frames: one alert, with a space  *)
(* after the colon as the analyzer's library writes it; an alert of two    *)
(* lines; the heartbeat; a keep-alive comment; empty data; and, in a run   *)
(* of its own, an alert with a character of two bytes.                     *)
(***************************************************************************)
EXTENDS EventStream

AsciiFrames == { <<"data:", " ", "a", "nl", "nl">>,
                 <<"data:", "b", "nl", "data:", "c", "nl", "nl">>,
                 <<"data:", " ", "heartbeat", "nl", "nl">>,
                 <<":", "nl", "nl">>,
                 <<"data:", " ", "nl", "nl">> }
\* The enumeration of AlertsOf is what a loop over the lines finds.
OneByOne(s) ==
  LET Begins(i) == s[i] = "data:" /\ (i = 1 \/ s[i - 1] = "nl")
      lines == SelectSeq([i \in DOMAIN s |-> i], Begins)
  IN SelectSeq([k \in DOMAIN lines |-> DataAt(s, lines[k])], IsAlert)
ASSUME AlertsAssumption ==
  \A s \in BoundedSeq({"data:", "heartbeat", "a", " ", "nl"}, 5) : AlertsOf(s) = OneByOne(s)

WideFrames == { <<"data:", "e1", "e2", "nl", "nl">> }
=============================================================================
