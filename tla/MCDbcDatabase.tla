--------------------------- MODULE MCDbcDatabase ---------------------------
(* Small DBC files.                                                         *)
EXTENDS DbcDatabase

Bo(id) == [kind |-> "BO", id |-> id, more |-> 0]
Sg(name, start, length, order, signed) ==
  [kind |-> "SG", more |-> 0, name |-> name, mux |-> "none", num |-> 0,
   start |-> start, length |-> length, order |-> order, signed |-> signed,
   factor |-> 1, offset |-> 0]
Scaled(line, factor, offset) == [line EXCEPT !.factor = factor, !.offset = offset]
Muxed(line, mux, num) == [line EXCEPT !.mux = mux, !.num = num, !.more = 1]
Other == [kind |-> "other"]

\* Two messages with signals of both byte orders, scaled and not, and a list of transmitters.
Plain == <<Other, Bo(111), Scaled(Sg("a", 7, 8, 0, FALSE), 2, -40), Sg("b", 11, 12, 0, TRUE), Other,
           Bo(222), Sg("c", 0, 8, 1, FALSE), Scaled(Sg("d", 12, 20, 1, TRUE), -5, 7),
           Scaled(Sg("e", 38, 7, 0, TRUE), 100, 0),
           [kind |-> "TX", id |-> 111, more |-> -1]>>

\* A multiplexer between the signals; two signals share their bits.
Multiplexed == <<Bo(111), Sg("a", 7, 8, 0, FALSE), Muxed(Sg("x", 16, 8, 1, FALSE), "m", 2),
                 Muxed(Scaled(Sg("mux", 8, 8, 1, FALSE), 2, 1), "M", 0),
                 Muxed(Sg("y", 16, 12, 1, TRUE), "m", 3), Bo(222), Sg("c", 0, 8, 1, FALSE)>>

\* A unit with a blank in the first message, a comment about a signal of the last one.
Foreign == <<Bo(111), [Sg("a", 7, 8, 0, FALSE) EXCEPT !.more = 1], Bo(222), Sg("c", 0, 8, 1, FALSE),
             Bo(333), Sg("b", 11, 12, 0, TRUE), [Sg("a", 0, 1, 0, FALSE) EXCEPT !.kind = "CM"]>>

Ba(more) == [kind |-> "BA", more |-> more]
Cm(more) == [Sg("a", 0, 1, 0, FALSE) EXCEPT !.kind = "CM", !.more = more]

\* Names of sections with SG_ in them, of one token, before the first message.
Sections == <<Cm(-1), Ba(-1), Bo(111), Sg("a", 7, 8, 0, FALSE)>>
\* A comment about a message, of many tokens.
Comments == <<Bo(111), Sg("a", 7, 8, 0, FALSE), Ba(0), Bo(222), Sg("c", 0, 8, 1, FALSE)>>
\* As in the first message of config/dbc.dbc: one signal lies across the bits of another.
Overlapping == <<Bo(111), Sg("a", 23, 8, 0, FALSE), Sg("b", 27, 8, 0, FALSE),
                 Sg("c", 31, 8, 0, FALSE)>>

MCFiles == {Plain, Multiplexed, Foreign, Sections, Comments, Overlapping}
MCMultiplexed == {Multiplexed}
MCValues == {{}, Word, {0, 3, 7, 11, 19}}
=============================================================================
