------------------------------ MODULE MCPanel ------------------------------
EXTENDS Panel

Line(q, vs) == [of |-> q, values |-> vs, fits |-> TRUE]
LongLine    == [of |-> "other", values |-> << >>, fits |-> FALSE]
Msg(rs, h, ls) == [rows |-> rs, head |-> h, fits |-> TRUE, lines |-> ls]

MCAxes == <<"magx", "magy">>

\* Texts: one row, rows that end in a newline, an empty row inside, the widths
\* around H_CH = 2 and above XMod = 4.
Texts == {Msg(<<1>>, "none", << >>), Msg(<<1, 0>>, "none", << >>),
          Msg(<<0, 1>>, "none", << >>), Msg(<<0>>, "none", << >>),
          Msg(<<2>>, "none", << >>), Msg(<<3, 1>>, "none", << >>),
          Msg(<<5>>, "none", << >>)}

\* Data: two scalars in one message, a quantity twice, an axis missing, a value
\* out of range, a header of its own among the lines; and messages that are not
\* data, one of which has lines that look like it.
Samples == {Msg(<<1>>, "data", <<Line("hum", <<0>>), Line("axes", <<1, 0>>)>>),
            Msg(<<1>>, "data", <<Line("axes", <<0, 1>>), Line("hum", <<1>>), Line("hum", <<0>>)>>),
            Msg(<<1>>, "data", <<Line("axes", <<1>>), Line("other", << >>), Line("hum", <<Wild>>)>>),
            Msg(<<1>>, "data", << >>),
            Msg(<<1>>, "other", <<Line("hum", <<1>>)>>),
            Msg(<<1>>, "none", << >>)}
LongBody == Msg(<<1>>, "data", <<Line("hum", <<1>>), LongLine, Line("axes", <<1, 1>>)>>)
Long == [rows |-> <<1>>, head |-> "other", fits |-> FALSE, lines |-> << >>]

\* What an earlier run left: everything, or single rows.
Inked  == {[r \in Rows |-> [c \in Cols |-> TRUE]]}
Ragged == Inked \cup {[r \in Rows |-> [c \in Cols |-> r = s]] : s \in Rows}

KeyScene == [keys |-> 2, switch |-> {"graph"}, trouble |-> TRUE, msgs |-> {},
             counters |-> {0, Modes - 2, Modes - 1} \X {0, 3, 6}, screen |-> Inked,
             beside |-> {"nothing", "old_mode", "old_period"}]
TextScene == [keys |-> 0, switch |-> {"text", "graph"}, trouble |-> FALSE, msgs |-> Texts,
              counters |-> {<<0, 0>>}, screen |-> Ragged, beside |-> {"nothing"}]
DataScene == [keys |-> 0, switch |-> {"graph"}, trouble |-> FALSE, msgs |-> Samples \cup {Long, LongBody},
              counters |-> {<<0, 0>>}, screen |-> Inked, beside |-> {"nothing"}]
\* Keys, switches, a text and data at once.
MixedScene == [keys |-> 1, switch |-> Selectors, trouble |-> FALSE,
               msgs |-> {Msg(<<1, 1>>, "none", << >>),
                         Msg(<<1>>, "data", <<Line("axes", <<0, 1>>)>>)},
               counters |-> {<<0, 0>>}, screen |-> Inked, beside |-> {"nothing"}]
MCScenes == {KeyScene, TextScene, DataScene, MixedScene}
=============================================================================
