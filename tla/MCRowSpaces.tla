---------------------------- MODULE MCRowSpaces ----------------------------
(* RowSpaces on a small instance: chunks of none to four events, among them   *)
(* some with as many entries as events and some with a single entry; every    *)
(* pair of factors.                                                           *)
EXTENDS RowSpaces

Event(own, other, gone) == [own |-> own, other |-> other, gone |-> gone]

MCChunks ==
    LET events == {Event(0, 0, FALSE), Event(0, 2, FALSE), Event(1, 1, FALSE), Event(1, 0, TRUE),
                   Event(2, 1, FALSE), Event(2, 2, TRUE), Event(3, 3, TRUE)}
    IN BoundedSeq(events, 2)
           \cup {<<a, b, c>> : a \in events, b \in events,
                              c \in {Event(0, 2, FALSE), Event(1, 1, FALSE), Event(2, 0, TRUE)}}
           \cup {<<Event(2, 2, TRUE), Event(0, 0, FALSE), Event(2, 2, FALSE), Event(0, 0, FALSE)>>}

FactorForms == {"event", "object", "flat", "other", "selected", "scalar"}
Factors == {<<>>} \cup {<<f>> : f \in FactorForms \cup {"record"}}
               \cup {<<f, g>> : f \in {"event", "flat"}, g \in FactorForms}

MCCalls ==
    {[value |-> v[1], missing |-> v[2], second |-> k, factors |-> fs, forced |-> b] :
        v \in {<<"event", "no">>, <<"object", "no">>, <<"flat", "no">>, <<"event", "events">>,
               <<"object", "entries">>, <<"object", "events">>},
        k \in {NoRows}, fs \in Factors, b \in BOOLEAN}
    \cup {[value |-> v, missing |-> "no", second |-> k, factors |-> fs, forced |-> FALSE] :
        v \in {"event", "object", "flat", "record"}, k \in {"event", "object", "flat", "record"},
        fs \in {<<>>, <<"event">>}}
=============================================================================
