------------------------------- MODULE Panel -------------------------------
(***************************************************************************)
(* main() of main.c around the parts modelled elsewhere: it publishes the  *)
(* settings the user chooses with KEY[1] and KEY[2] (Txt_Renderer.v), and  *)
(* shows each message AMQTT_Poll (arm_mqtt.c) returns, as text             *)
(* (TextCursor) or as data (DataMessage), according to SW[0].  Beside it   *)
(* the user presses keys and moves switches, and the fabric copies the     *)
(* columns to the graphs.                                                  *)
(*                                                                         *)
(* The MQTT client is here what MqttSession is shown to promise: a queue   *)
(* of publications the broker receives once and in order, until there is   *)
(* an error, which the panel never leaves and never looks at.              *)
(***************************************************************************)
EXTENDS TextCursor, DataMessage

CONSTANTS
    Modes,     \* values of the mode counter (3 bits: 8)
    LastT,     \* the period counter goes back to 0 after it (6)
    OutMsg,    \* the least period that "M-%u.%u" has no room for in out_msg (10)
    Cap,       \* messages in the send buffer
    Scenes     \* what happens around the panel: how many keys are pressed (a
               \* bound), the positions of the switches, the messages of the broker,
               \* whether the link may stall or break; and how it starts: the
               \* counters, the screen, what lies after out_msg on the stack

\* What SW[0] and SW[1] have port 2 read: the text, the columns, or one cell.
Selectors == {"text", "graph", "debug"}

\* A line of data: its quantity, the values after it, and whether what comes
\* before the colon, or the newline when there is none, fits in msg_head.
LineRecord == {l \in [of : Scalars \cup {"axes", "other"}, values : Seq(Byte \cup {Wild}),
                      fits : BOOLEAN] : l.of # "other" => l.fits}

\* A message as the two displays take it apart: the lengths of its rows; what
\* comes before its first colon and whether that fits in msg_head, as "Data
\* read" does; and the lines that follow.
MessageRecord == [rows : Seq(Nat) \ {<< >>}, head : {"data", "other", "none"},
                  fits : BOOLEAN, lines : Seq(LineRecord)]

ASSUME PanelAssumption ==
    /\ Modes \in Nat \ {0} /\ LastT \in Nat /\ OutMsg \in Nat
    /\ Cap \in Nat \ {0}
    /\ \A s \in Scenes : /\ s.keys \in Nat /\ s.switch \subseteq Selectors /\ s.trouble \in BOOLEAN
                        /\ s.beside \subseteq {"nothing", "old_mode", "old_period"}
                        /\ s.counters \subseteq (0 .. Modes - 1) \X (0 .. LastT)
                        /\ \A m \in s.msgs : m \in MessageRecord /\ (m.head = "data" => m.fits)

VARIABLES
    sens_mode, sens_t,       \* the counters, as to_HPS has them
    sel,                     \* SW[0] and SW[1]
    scene, presses,          \* the scene, and the keys pressed so far
    pc, new_mode, old,       \* main(): new_mode, and old_mode with old_period
    beside, smashed,         \* what out_msg overflows into; whether an overflow
                             \* has changed old_mode or old_period (history)
    queue, error,            \* the send buffer and client->error
    broker,                  \* the settings the broker has
    mqtt_callback_buffer,
    todo,                    \* the rows of a text message still to print
    how                      \* history: what was done with the last message

user == <<sens_mode, sens_t, sel, scene, presses>>
link == <<queue, error, broker>>
loop == <<pc, new_mode, old, beside, smashed, mqtt_callback_buffer, todo, how>>
pvars == <<text, data, user, link, loop>>
-----------------------------------------------------------------------------
\* CNT.v: n is a power of 2.
CNT(x, n) == (x + 1) % n

\* Mutant: the counter wraps one step late.
UDL_CNT_Late(x) == IF x = LastT + 1 THEN 0 ELSE x + 1

\* UDL_CNT.v: the step loads 0 when the counter is at its last value.
UDL_CNT(x) == IF x = LastT THEN 0 ELSE x + 1

\* sens_t_mod has four bits; so has the field of to_HPS.
sens_t_mod(t) == ((t + 1) * 2) % 16

Setting(m, p) == [mode |-> m, period |-> p]
Settings == [mode : 0 .. Modes - 1, period : {sens_t_mod(t) : t \in 0 .. LastT}]
Chosen   == Setting(sens_mode, sens_t_mod(sens_t))

\* The empty message: mqtt_callback_buffer before the first.
Empty == [rows |-> <<0>>, head |-> "none", fits |-> TRUE, lines |-> << >>]
-----------------------------------------------------------------------------
\* The user.  KEY[2] or KEY[1] steps its counter once, however long it is held.
Count == /\ \/ sens_mode' = CNT(sens_mode, Modes) /\ UNCHANGED sens_t
            \/ sens_t' = UDL_CNT(sens_t) /\ UNCHANGED sens_mode
         /\ UNCHANGED <<text, data, loop>>

\* The command word is cleared under main(), which spins in a write_8b for ever:
\* of a line, of a sample or of the trigger.
Hang == /\ pc' = "hung"
        /\ \/ /\ pc = "print" /\ todo # << >>
              /\ CutLine(Head(todo))
              /\ UNCHANGED parsed
           \/ /\ pc = "parse"
              /\ CutSample \/ (lines = << >> /\ plots = << >> /\ UNCHANGED parsed)
              /\ UNCHANGED text
        /\ UNCHANGED <<new_mode, old, beside, smashed, mqtt_callback_buffer, todo, how>>

\* KEY[0] resets the fabric and not the processor: the counters, the graphs and
\* the command word, if main() has written one.
Reset == /\ sens_mode' = 0
         /\ sens_t' = 0
         /\ ResetGraphs
         /\ UNCHANGED <<text, parsed, loop>> \/ Hang

Key == /\ presses < scene.keys
       /\ presses' = presses + 1
       /\ Count \/ Reset
       /\ UNCHANGED <<sel, scene, link>>

Switch == /\ sel' \in scene.switch \ {sel}
          /\ Moved(sel' # "graph")
          /\ UNCHANGED <<text, parsed, sens_mode, sens_t, scene, presses, link, loop>>

\* The fabric, whatever main() does.
Copy == Copied /\ UNCHANGED <<text, user, link, loop>>
-----------------------------------------------------------------------------
\* sprintf to out_msg[6]: with two digits of period the terminator lands on
\* the byte after it.
Overflown(s) ==
    IF s.period < OutMsg THEN s
    ELSE CASE beside = "nothing"    -> s
           [] beside = "old_mode"   -> Setting(0, s.period)
           [] beside = "old_period" -> Setting(s.mode, 0)

\* MQTT_CLIENT_TRY_PACK: a full buffer is an error, and an error stays.
Stage(p) == IF error = "OK" /\ Len(queue) < Cap
            THEN queue' = Append(queue, p) /\ UNCHANGED error
            ELSE /\ error' = IF error = "OK" THEN "full" ELSE error
                 /\ UNCHANGED queue

\* AMQTT_Publish with the settings that were read; its result is not looked at.
PublishSettings(s) ==
    /\ old' = Overflown(s)
    /\ smashed' = (smashed \/ Overflown(s) # s)
    /\ Stage(s)
    /\ UNCHANGED broker

\* AMQTT_Init: without a broker client is NULL, and AMQTT_Subscribe's first
\* access to it ends the program.
Connect == /\ pc = "start"
           /\ pc' \in {"first", "dead"}
           /\ UNCHANGED <<text, data, user, link, new_mode, old, beside, smashed,
                          mqtt_callback_buffer, todo, how>>

\* get_sensor_mode(), before the loop and in it.
ReadMode == /\ pc \in {"first", "loop"}
            /\ new_mode' = sens_mode
            /\ pc' = IF pc = "first" THEN "announce" ELSE "period"
            /\ UNCHANGED <<text, data, user, link, old, beside, smashed,
                           mqtt_callback_buffer, todo, how>>

Announce == /\ pc = "announce"
            /\ PublishSettings(Setting(new_mode, sens_t_mod(sens_t)))
            /\ pc' = "loop"
            /\ UNCHANGED <<text, data, user, new_mode, beside, mqtt_callback_buffer, todo, how>>

\* Mutant: both must have changed.
Changed_Both(s) == s.mode # old.mode /\ s.period # old.period

Changed(s) == s.mode # old.mode \/ s.period # old.period

\* get_sensor_period(), and the comparison.
ReadPeriod ==
    /\ pc = "period"
    /\ LET s == Setting(new_mode, sens_t_mod(sens_t))
       IN  IF Changed(s) THEN PublishSettings(s) ELSE UNCHANGED <<old, smashed, link>>
    /\ pc' = "poll"
    /\ UNCHANGED <<text, data, user, new_mode, beside, mqtt_callback_buffer, todo, how>>
-----------------------------------------------------------------------------
\* mqtt_sync sends the first k of the queue; the broker keeps the last
\* settings it gets.  When nothing is sent, a keep-alive may be due.
Ping == [mode |-> 0, period |-> 0]
Sent(k) == {i \in 1 .. k : queue[i] # Ping}
Send(k) ==
    /\ error \in {"OK", "full"}
    /\ broker' = IF Sent(k) = {} THEN broker
                 ELSE queue[CHOOSE i \in Sent(k) : \A j \in Sent(k) : j <= i]
    /\ \/ queue' = SubSeq(queue, k + 1, Len(queue)) /\ UNCHANGED error
       \/ k = 0 /\ scene.trouble /\ Stage(Ping)
    /\ scene.trouble \/ k = Len(queue)

\* The connection is lost, or an answer makes the client stop sending; it
\* sends no more, but what still arrives is received.
Break  == /\ scene.trouble
          /\ error # "lost"
          /\ error' \in {"lost", "confused"}
          /\ UNCHANGED <<queue, broker>>
Silent == /\ error \in {"lost", "confused"}
          /\ UNCHANGED <<queue, error, broker>>

\* Mutant: only the lengths are compared.
Noticed_Length(before, after) == Len(before.rows) # Len(after.rows)

\* AMQTT_Poll's strcmp of the buffer with the copy made before mqtt_sync.
Noticed(before, after) == before # after

\* AMQTT_Poll: mqtt_sync calls publish_callback_ for each message it receives,
\* the last of which stays in the buffer; its result is ignored.  A message
\* that is noticed is printed or taken apart (is_graph_mode).
Received == {mqtt_callback_buffer} \cup IF error = "lost" THEN {} ELSE scene.msgs

Poll(k) ==
    /\ pc = "poll"
    /\ \E m \in Received :
         /\ mqtt_callback_buffer' = m
         /\ pc' = IF Noticed(mqtt_callback_buffer, m) THEN "message" ELSE "loop"
    /\ Send(k) \/ Break \/ Silent
    /\ UNCHANGED <<text, data, user, new_mode, old, beside, smashed, todo, how>>
-----------------------------------------------------------------------------
\* A message is split at its newlines; new_line_ follows every part except an
\* empty one at the end, unless the message is empty.
PrintedRows(m) == LET n == Len(m.rows)
                  IN  IF n > 1 /\ m.rows[n] = 0 THEN SubSeq(m.rows, 1, n - 1) ELSE m.rows

\* A head that does not fit in msg_head runs over the stack of main(): the
\* program ends, or goes on with other old values.
HeadCopied(fits, next) ==
    \/ fits /\ pc' = next /\ UNCHANGED <<old, smashed>>
    \/ ~fits /\ pc' \in {"dead", next} /\ old' \in Settings /\ smashed' = TRUE

\* main() reads SW[0].
Show ==
    /\ pc = "message"
    /\ \/ /\ sel = "text"
          /\ todo' = PrintedRows(mqtt_callback_buffer)
          /\ pc' = "print"
          /\ how' = "printed"
          /\ UNCHANGED <<data, old, smashed>>
       \/ /\ sel # "text"
          /\ StartParse(mqtt_callback_buffer)
          /\ HeadCopied(mqtt_callback_buffer.fits, IF head' = "data" THEN "parse" ELSE "loop")
          /\ how' = IF head' = "data" THEN "plotted" ELSE "ignored"
          /\ UNCHANGED todo
    /\ UNCHANGED <<text, user, link, new_mode, beside, mqtt_callback_buffer>>

\* print_str, a line at a time.
PutLine == /\ pc = "print"
           /\ todo # << >>
           /\ PrintLine(Head(todo))
           /\ trg_addr' = FALSE
           /\ todo' = Tail(todo)
           /\ pc' = IF Len(todo) = 1 THEN "loop" ELSE "print"
           /\ UNCHANGED <<parsed, refr, hs_buf, garbled, user, link, new_mode, old, beside, smashed,
                          mqtt_callback_buffer, how>>

Parse == /\ pc = "parse"
         /\ \/ TakeLine /\ HeadCopied(Head(lines).fits, "parse")
            \/ Plot /\ UNCHANGED <<pc, old, smashed>>
            \/ /\ lines = << >> /\ plots = << >>
               /\ Trigger(sel # "graph")
               /\ pc' = "loop"
               /\ UNCHANGED <<old, smashed>>
         /\ UNCHANGED <<text, user, link, new_mode, beside, mqtt_callback_buffer, todo, how>>
-----------------------------------------------------------------------------
PInit == /\ scene \in Scenes
         /\ ink \in scene.screen
         /\ TextInit
         /\ DataInit
         /\ \E c \in scene.counters : sens_mode = c[1] /\ sens_t = c[2]
         /\ sel \in scene.switch
         /\ presses = 0
         /\ pc = "start"
         /\ new_mode = 0
         /\ old = Setting(0, 0)
         /\ beside \in scene.beside
         /\ smashed = FALSE
         /\ queue = << >>
         /\ error = "OK"
         /\ broker = Ping
         /\ mqtt_callback_buffer = Empty
         /\ todo = << >>
         /\ how = "none"

PNext == \/ Key
         \/ Switch
         \/ Copy
         \/ Connect
         \/ ReadMode
         \/ Announce
         \/ ReadPeriod
         \/ \E k \in 0 .. Len(queue) : Poll(k)
         \/ Show
         \/ PutLine
         \/ Parse

PSpec == PInit /\ [][PNext]_pvars

\* main() goes on, and so does the fabric at every edge; a socket that is
\* writable again and again, while something waits to be sent, takes it in one
\* of the calls.
PollSends == \E k \in 1 .. Len(queue) : Poll(k)
PFairSpec == /\ PSpec
             /\ WF_pvars(ReadMode \/ Announce \/ ReadPeriod \/ Show \/ PutLine \/ Parse)
             /\ WF_pvars(Copy)
             /\ WF_pvars(\E k \in 0 .. Len(queue) : Poll(k))
             /\ SF_pvars(PollSends)
-----------------------------------------------------------------------------
PTypeOK == /\ TextTypeOK
           /\ win \in [Cbs -> UNION {[1 .. n -> Byte] : n \in 0 .. Size}]
           /\ \A c \in AxisCbs : Len(age[c]) = Len(win[c])
           /\ columns \in Heights /\ hs_buf \in Heights \cup {Spoilt}
           /\ Chosen \in Settings
           /\ new_mode \in 0 .. Modes - 1
           /\ old.mode \in 0 .. Modes - 1
           /\ \A i \in 1 .. Len(queue) : queue[i] \in Settings \cup {Ping}
           /\ Len(queue) <= Cap

\* When main() begins its loop again, the last message received is on the
\* screen: as the newest rows in text mode, unless a row is too long, and in
\* graph mode, for a data message, once the copy is over, in the last column of
\* the graph of every quantity it gives a value in range, unless a switch or
\* KEY[0] has spoilt the copy.  A message that came unnoticed, because it equals
\* the one before, is there already (arm_mqtt.c:92-101, main.c:134-199,
\* Txt_Renderer.v:273-301).
RowsAbove(m) ==
    LET n == Len(m.rows)
        k == IF n > 1 /\ m.rows[n] = 0 THEN n - 1 ELSE n
    IN  (\A i \in 1 .. k : m.rows[i] < H_CH) /\ Len(recent) >= k
            => \A i \in 1 .. k : recent[i] = m.rows[k + 1 - i]
LinesOf(m, q) == {i \in 1 .. Len(m.lines) : m.lines[i].of = q}
EndsIn(m, c, q, j) ==
    LinesOf(m, q) # {} =>
        LET last == CHOOSE i \in LinesOf(m, q) : \A k \in LinesOf(m, q) : k <= i
            v    == Value(m.lines[last], j)
        IN  v \in Byte => hs_buf[c][Size - 1] = v
LastIsVisible ==
    LET m == mqtt_callback_buffer
    IN  pc = "loop" =>
          /\ how = "none" => m = Empty
          /\ how = "printed" => RowsAbove(m)
          /\ how = "plotted" /\ m.head = "data" /\ ~refr /\ ~garbled =>
               /\ \A c \in Scalars : EndsIn(m, c, c, 1)
               /\ \A j \in 1 .. Len(Axes) : EndsIn(m, Axes[j], "axes", j)

\* The three graphs of Magneto advance together, also when a line is cut off
\* or malformed: column by column their samples are from the same line
\* (main.c:167-181).
AxesTogether == pc = "loop" => \A i, j \in DOMAIN Axes : age[Axes[i]] = age[Axes[j]]

\* Only data messages move the graphs, although msg_head is compared when
\* nothing has been written to it, or nothing that ends (main.c:144-158).
PlotsOnlyData == [][win' # win => mqtt_callback_buffer.head = "data"]_pvars

\* When the user leaves the keys alone, the broker ends up with the settings
\* of the panel, although main() reads mode and period in two accesses and may
\* publish a pair that never was.  When the send buffer was full, or out_msg or
\* msg_head has overflowed so that the old settings are the new ones, it still
\* gets all that was accepted (main.c:121-132).  Nothing is promised of a
\* connection that is lost or a program that has ended or hangs.
Accepted == Sent(Len(queue)) = {}
SettingsArrive == <>[](\/ pc \in {"start", "dead", "hung"}
                       \/ error \in {"lost", "confused"}
                       \/ broker = Chosen
                       \/ (error = "full" \/ (smashed /\ old = Chosen)) /\ Accepted)
=============================================================================
