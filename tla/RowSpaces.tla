------------------------------ MODULE RowSpaces ------------------------------
(* The rows of one fill: a chunk's values are per event, or per object in     *)
(* each event, nested or flattened, and a weight factor has rows of its own.  *)
(* The recorded types decide whether a broadcast is recorded                  *)
(* (_mixed_row_spaces), the guard and the broadcast then line each factor up  *)
(* with the value on every chunk, and boost multiplies entry by entry.        *)
EXTENDS Naturals, FiniteSets, Sequences, SequencesExt

CONSTANTS
    Calls,          \* the fill calls: [value, missing, second, factors, forced]
    Chunks,         \* the chunks: per event, [own, other, gone]
    NoRows,         \* what a scalar has for rows, and a call without a second column
    Missing         \* a missing entry

(* value, second (another axis, or sample=) and factors are forms: "event";   *)
(* "object", the chunk's own collection nested; "flat", the entries there are *)
(* of it, flattened before the fill; "other", a nested collection of other    *)
(* counts; "selected", per event of a selection the value is not at;          *)
(* "scalar"; "record".  missing says where the value's type is an option:     *)
(* "no", "entries" or "events"; forced that the call has a context or a       *)
(* Varied.  Per event, own and other count entries, and gone says the option  *)
(* is missing: the event, or its first entry.                                 *)

Kinds == {"event", "object", "flat", "other", "selected", "scalar", "record"}
ASSUME CallsAssumption ==
    \A c \in Calls : /\ c.value \in {"event", "object", "flat", "record"}
                     /\ c.second \in Kinds \cup {NoRows} /\ c.factors \in Seq(Kinds)
                     /\ c.missing \in {"no", "entries", "events"}
                     /\ c.missing = "entries" => c.value = "object"
                     /\ c.missing = "events" => c.value \in {"event", "object"}
ASSUME ChunksAssumption == Chunks \subseteq Seq([own : Nat, other : Nat, gone : BOOLEAN])

\* An entry is its tag: its column, its event and its place in it, 0 for the event's own.
Tags == {"event", "object", "other"} \X Nat \X Nat
ASSUME MissingAssumption == Missing \notin Tags
ASSUME NoRowsAssumption ==
    NoRows \notin Kinds \cup Seq(Tags \cup {Missing}) \cup Seq(Seq(Tags \cup {Missing}))

VARIABLES
    call,           \* the fill call
    recorded,       \* "no", "refused", "plain", or "broadcast" with its guards
    chunk,          \* the chunk last evaluated
    result          \* what that gave: [is |-> "none" | "filled" | "blamed" | "raised", ...]

rowsVars == <<call, recorded, chunk, result>>

-----------------------------------------------------------------------------
(* Recording: forms only *)

\* _depth: 0 for no row space.
Depth(form) ==
    CASE form \in {"object", "other"} -> 2 [] form \in {"scalar", "record"} -> 0 [] OTHER -> 1
ColumnsOf(c) == {c.value} \cup ({c.second} \ {NoRows})

\* check_fill_types: no record, and the value columns at one list depth.
CheckFillTypes(c) ==
    /\ "record" \notin ColumnsOf(c) \cup ToSet(c.factors)
    /\ \A a, b \in ColumnsOf(c) : Depth(a) = Depth(b)

\* _mixed_row_spaces: a factor shallower than a value that drops no rows.
MixedRowSpaces(c) ==
    /\ c.missing = "no"
    /\ \E f \in ToSet(c.factors) : Depth(f) \in 1 .. Depth(c.value) - 1

RowsInit ==
    /\ call \in Calls
    /\ recorded = "no"
    /\ chunk = <<>>
    /\ result = [is |-> "none"]

Record ==
    /\ recorded = "no"
    /\ recorded' = IF ~CheckFillTypes(call) THEN "refused"
                   ELSE IF call.forced \/ MixedRowSpaces(call) THEN "broadcast" ELSE "plain"
    /\ UNCHANGED <<call, chunk, result>>

-----------------------------------------------------------------------------
(* Evaluation: a column is [deep, rows], its rows entries, or per event a      *)
(* sequence of them                                                            *)

Nested(ck, kind, n) ==
    [deep |-> TRUE, rows |-> [e \in DOMAIN ck |-> [j \in 1 .. n[e] |-> <<kind, e, j>>]]]
\* A column with the entries a value of option type misses in ck.
Without(ck, missing, col) ==
    [col EXCEPT !.rows = [e \in DOMAIN @ |->
        IF missing = "no" \/ ~ck[e].gone THEN @[e]
        ELSE IF ~col.deep THEN Missing
        ELSE IF missing = "events" THEN [j \in DOMAIN @[e] |-> Missing]
        ELSE [j \in DOMAIN @[e] |-> IF j = 1 THEN Missing ELSE @[e][j]]]]
\* _flat: every entry of a column that is there.
There(row) == FoldLeft(LAMBDA s, t : IF t = Missing THEN s ELSE Append(s, t), <<>>, row)
Flat(col) ==
    IF col.deep THEN FoldLeft(LAMBDA s, row : s \o There(row), <<>>, col.rows)
    ELSE There(col.rows)

Column(ck, c, form) ==
    LET events == [e \in DOMAIN ck |-> <<"event", e, 0>>]
        own == Nested(ck, "object", [e \in DOMAIN ck |-> ck[e].own])
    IN CASE form = "event" -> [deep |-> FALSE, rows |-> events]
         [] form = "selected" -> [deep |-> FALSE, rows |-> SubSeq(events, 2, Len(ck))]
         [] form = "object" -> own
         [] form = "flat" -> [deep |-> FALSE, rows |-> Flat(Without(ck, c.missing, own))]
         [] form = "other" -> Nested(ck, "other", [e \in DOMAIN ck |-> ck[e].other])
         [] form = "scalar" -> [deep |-> FALSE, rows |-> NoRows]

Value(ck, c) == Without(ck, c.missing, Column(ck, c, c.value))

\* _renest: a flat factor cut at the counts of the value.
Before(rows, e) == FoldLeft(LAMBDA n, k : n + Len(rows[k]), 0, [k \in 1 .. e - 1 |-> k])
Renest(value, col) ==
    IF ~value.deep THEN col
    ELSE [deep |-> TRUE, rows |-> [e \in DOMAIN value.rows |->
            SubSeq(col.rows, Before(value.rows, e) + 1, Before(value.rows, e + 1))]]

Blamed == [is |-> "blamed"]
Raised == [is |-> "raised"]

\* Guard gone wrong: the factor with the value's leaf rows is blamed.
GuardOuterOnly(c, value, col) ==
    IF col.rows = NoRows \/ Len(col.rows) = Len(value.rows) THEN col ELSE Blamed

\* Guard gone wrong: the factor's leaf rows are read before the value's outer ones.
GuardLeavesFirst(c, value, col) ==
    IF col.rows = NoRows THEN col
    ELSE IF c.missing = "no" /\ Len(col.rows) = Len(Flat(value)) THEN Renest(value, col)
    ELSE IF Len(col.rows) = Len(value.rows) THEN col
    ELSE Blamed

\* _WeightGuard: a factor with the value's outer rows passes; one with its leaf rows
\* takes its nesting; any other is blamed.
Guard(c, value, col) ==
    IF col.rows = NoRows \/ Len(col.rows) = Len(value.rows) THEN col
    ELSE IF c.missing = "no" /\ Len(col.rows) = Len(Flat(value)) THEN Renest(value, col)
    ELSE Blamed

\* The backend's broadcast_like: a flat factor repeated over the entries of each
\* event; a deeper one as it is; and raising on a nesting that is not the value's.
BroadcastLike(value, col) ==
    LET lens(c) == [e \in DOMAIN c.rows |-> Len(c.rows[e])]
    IN IF col = Blamed \/ col.rows = NoRows \/ ~value.deep THEN col
       ELSE IF ~col.deep THEN [deep |-> TRUE, rows |-> [e \in DOMAIN value.rows |->
                                  [j \in DOMAIN value.rows[e] |-> col.rows[e]]]]
       ELSE IF lens(col) = lens(value) THEN col ELSE Raised

\* LinedUp gone wrong: the broadcast runs before the guard.
LinedUpUnguarded(c, ck, f, carried) ==
    LET value == Value(ck, c)
        col == Column(ck, c, f)
        wide == IF Len(col.rows) = Len(value.rows) THEN BroadcastLike(value, col) ELSE Raised
    IN IF recorded # "broadcast" \/ col.rows = NoRows THEN col ELSE wide

\* One factor, guarded and broadcast when that was recorded; the broadcast may or may
\* not carry over the entries the value misses.
LinedUp(c, ck, f, carried) ==
    LET value == Value(ck, c)
        wide == BroadcastLike(value, Guard(c, value, Column(ck, c, f)))
    IN IF recorded # "broadcast" THEN Column(ck, c, f)
       ELSE IF carried /\ wide \notin {Blamed, Raised} /\ wide.rows # NoRows
               /\ wide.deep = value.deep
       THEN Without(ck, c.missing, wide) ELSE wide

\* Columns of one length, but for those of a single entry, which may be repeated.
InStep(lens) == \A m, n \in lens \ {1} : m = n
LengthOf(lens) == IF lens \subseteq {1} THEN 1 ELSE CHOOSE n \in lens : n # 1
Repeated(col, n) == IF Len(col) = 1 THEN [k \in 1 .. n |-> col[1]] ELSE col

\* One chunk evaluated: blamed on the factor whose guard runs first of those that
\* fail, or filled.  The factors' product repeats a single entry, as numpy does; boost
\* fills from columns of one length, and may repeat one of a single entry or refuse it.
Chunk(ck, carried, repeats) ==
    LET cols == [i \in DOMAIN call.factors |-> LinedUp(call, ck, call.factors[i], carried)]
        failing == {i \in DOMAIN cols : cols[i] = Blamed}
        leaves == Flat(Value(ck, call))
        second == IF call.second = NoRows THEN leaves ELSE Flat(Column(ck, call, call.second))
        arrays == {i \in DOMAIN cols : cols[i].rows # NoRows}
        weights == {Len(Flat(cols[i])) : i \in arrays}
        lens == {Len(leaves), Len(second)} \cup {LengthOf(w) : w \in {weights} \ {{}}}
        n == LengthOf(lens)
    IN /\ recorded \in {"plain", "broadcast"} /\ result.is = "none"
       /\ chunk' = ck
       /\ \/ /\ failing # {}
             /\ \E i \in failing : result' = [is |-> "blamed", factor |-> i]
          \/ /\ Raised \in Range(cols)
             /\ result' = Raised
          \/ /\ {Blamed, Raised} \cap Range(cols) = {}
             /\ result' = IF InStep(weights) /\ (lens = {n} \/ (repeats /\ InStep(lens)))
                          THEN [is |-> "filled", value |-> Repeated(leaves, n),
                                second |-> Repeated(second, n),
                                factors |-> [i \in arrays |-> Repeated(Flat(cols[i]), n)]]
                          ELSE Raised
       /\ UNCHANGED <<call, recorded>>

RowsNext ==
    Record \/ \E ck \in Chunks, carried, repeats \in BOOLEAN : Chunk(ck, carried, repeats)

RowsSpec == RowsInit /\ [][RowsNext]_rowsVars

-----------------------------------------------------------------------------
(* Properties *)

\* Entry s belongs with entry t: same event, and same entry unless one is per event.
With(t, s) == t[2] = s[2] /\ (s[3] = t[3] \/ 0 \in {s[3], t[3]})
Aligned(ts, ss) == \A k \in DOMAIN ts : With(ts[k], ss[k])

Forms == ColumnsOf(call) \cup ToSet(call.factors)
Present(ck) == Len(Flat(Value(ck, call)))

\* An unflattened fill never raises, whatever the chunk's counts: per-event, nested,
\* flat and scalar factors, in any mixture.
UnflattenedFills ==
    LET lined == {"event", "object", "flat", "scalar"}
    IN (result.is # "none" /\ call.value = "object" /\ call.missing = "no"
        /\ call.second \in {NoRows, "object", "flat"} /\ ToSet(call.factors) \subseteq lined)
       => result.is = "filled"

\* An unflattened per-object value with factors that are not flattened lines up on
\* every chunk, the ones whose counts agree by chance as well: each entry's weight is
\* its own event's, or its own.  (A value with missing entries needs the broadcast
\* recorded, and may not be left with a single one, which boost could repeat.)
EventsNeverSlip ==
    result.is = "filled" /\ call.value = "object"
    /\ (call.missing = "no" \/ (recorded = "broadcast" /\ Present(chunk) # 1))
    /\ call.second \in {NoRows, "object"} /\ ToSet(call.factors) \subseteq {"event", "object"}
        => /\ Aligned(result.value, result.second)
           /\ \A i \in DOMAIN result.factors : Aligned(result.value, result.factors[i])

\* Where a broadcast is recorded a factor at no row space of the value is named, never
\* left for boost or the backend to raise on; and none is blamed that lines up.
OffenderNamed ==
    LET fits(f) == \/ f = "scalar"
                   \/ Len(Column(chunk, call, f).rows)
                         \in {Len(Value(chunk, call).rows), Present(chunk)}
    IN (recorded = "broadcast" /\ call.missing = "no" /\ call.second = NoRows
        /\ "other" \notin Forms /\ ~(call.value = "event" /\ "object" \in Forms))
       => /\ result.is # "raised"
          /\ result.is = "blamed" => ~fits(call.factors[result.factor])
=============================================================================
