---------------------------- MODULE UnrunWarnings ----------------------------
(* A deferred histogram and its copies: which fills are staged on which, and   *)
(* which read of one warns that it never ran.  A warning shows once per        *)
(* registry and line; the registry is in the histogram's __dict__ from its     *)
(* first warning on, and a copy's __dict__ has what the original's has.        *)
EXTENDS Naturals, FiniteSets

CONSTANTS
    Hists,          \* histograms, made one after the other
    Lines,          \* lines of the user's code
    Nothing,
    MaxFills,       \* bound: fills in all
    MaxUses         \* bound: uses

ASSUME NothingAssumption == Nothing \notin Hists
ASSUME BoundsAssumption == {MaxFills, MaxUses} \subseteq Nat

VARIABLES
    lists,          \* lists[h]: the histogram whose fill lists h has, Nothing before h is made
    staged,         \* staged[h]: the fills in the lists made with h
    deferred,       \* whether h is of the deferred class; hist.Hist(h) is not
    registry,       \* registry[h]: the histogram whose registry h has, or Nothing
    seen,           \* seen[h]: the lines in the registry made for h
    origin,         \* origin[h]: the first original of h, through all copies
    uses,           \* uses so far
    readOn,         \* history: <<h, line>> of reads since the filters last changed
    last            \* the last use: [line, read, shown], histograms read and warned of

warningsVars == <<lists, staged, deferred, registry, seen, origin, uses, readOn, last>>

Made == {h \in Hists : lists[h] # Nothing}
Fills(h) == staged[lists[h]]
NoUse == [line |-> Nothing, read |-> {}, shown |-> {}]

WarningsInit ==
    /\ \E h \in Hists :
        /\ lists = [g \in Hists |-> IF g = h THEN h ELSE Nothing]
        /\ origin = lists
    /\ staged = [h \in Hists |-> 0]
    /\ deferred = [h \in Hists |-> TRUE]
    /\ registry = [h \in Hists |-> Nothing]
    /\ seen = [h \in Hists |-> {}]
    /\ uses = 0
    /\ readOn = {}
    /\ last = NoUse

\* Histogram(...): a histogram of its own.
New(h) ==
    /\ h \notin Made
    /\ lists' = [lists EXCEPT ![h] = h]
    /\ origin' = [origin EXCEPT ![h] = h]
    /\ last' = NoUse
    /\ UNCHANGED <<staged, deferred, registry, seen, uses, readOn>>

\* fill: one more staged fill.
Fill(h) ==
    /\ h \in Made /\ deferred[h] /\ staged[lists[h]] < MaxFills
    /\ staged' = [staged EXCEPT ![lists[h]] = @ + 1]
    /\ last' = NoUse
    /\ UNCHANGED <<lists, deferred, registry, seen, origin, uses, readOn>>

\* RegistryOf gone wrong: one registry for all.
RegistryOfAll(reg, h) == CHOOSE g \in Hists : TRUE

\* h.__dict__.setdefault("_warned", {}): its registry, a new one when it has none.
RegistryOf(reg, h) == IF reg[h] = Nothing THEN h ELSE reg[h]

\* _warn_if_unrun at a line: the registries, their lines and what was shown afterwards.
Warned(w, h, fills, line) ==
    LET r == RegistryOf(w.registry, h)
    IN IF fills = 0 THEN w
       ELSE [registry |-> [w.registry EXCEPT ![h] = r],
             seen |-> [w.seen EXCEPT ![r] = @ \cup {line}],
             shown |-> IF line \in w.seen[r] THEN w.shown ELSE w.shown \cup {h}]

Unwarned == [registry |-> registry, seen |-> seen, shown |-> {}]

Using(line, read, w) ==
    /\ uses < MaxUses
    /\ uses' = uses + 1
    /\ registry' = w.registry
    /\ seen' = w.seen
    /\ readOn' = readOn \cup (read \X {line})
    /\ last' = [line |-> line, read |-> read, shown |-> w.shown]

\* A read: view, sum, h[...], project, ==, h * 2, in place, ... warns first.
Read(h, line) ==
    /\ h \in Made /\ deferred[h]
    /\ Using(line, {h}, Warned(Unwarned, h, Fills(h), line))
    /\ UNCHANGED <<lists, staged, deferred, origin>>

\* _import_bh_: what a fill records is copied.
CopiedLists(h, c) == [lists EXCEPT ![c] = c]

Copied(h, c) ==
    /\ h \in Made /\ c \notin Made
    /\ lists' = CopiedLists(h, c)
    /\ staged' = [staged EXCEPT ![c] = Fills(h)]
    /\ origin' = [origin EXCEPT ![c] = origin[h]]

\* copy.copy(h): the copy has h's registry, when h has one.
Copy(h, c) ==
    /\ deferred[h] /\ Copied(h, c)
    /\ registry' = [registry EXCEPT ![c] = registry[h]]
    /\ last' = NoUse
    /\ UNCHANGED <<deferred, seen, uses, readOn>>

\* h.copy(), copy.deepcopy(h): the copy has a copy of h's registry.
DeepCopy(h, c) ==
    /\ deferred[h] /\ Copied(h, c)
    /\ registry' = [registry EXCEPT ![c] = IF registry[h] = Nothing THEN Nothing ELSE c]
    /\ seen' = [seen EXCEPT ![c] = IF registry[h] = Nothing THEN {} ELSE seen[registry[h]]]
    /\ last' = NoUse
    /\ UNCHANGED <<deferred, uses, readOn>>

\* hist.Hist(h): _export_bh_ warns of the new histogram, which is not deferred.
Convert(h, c, line) ==
    LET w == [Unwarned EXCEPT !.registry[c] = registry[h]]
    IN /\ deferred[h] /\ Copied(h, c)
       /\ deferred' = [deferred EXCEPT ![c] = FALSE]
       /\ Using(line, {c}, Warned(w, c, Fills(h), line))

\* Operands gone wrong: __add__ has no seam, __iadd__ on the copy warns.
OperandsLate(h, g, c, line) ==
    LET w == [Unwarned EXCEPT !.registry[c] = registry[h]]
    IN Warned(Warned(w, c, Fills(h), line), g, Fills(g), line)

\* h + g: __add__ warns of both; the copy it runs __iadd__ on has h's registry by then.
Operands(h, g, c, line) ==
    LET w == Warned(Warned(Unwarned, h, Fills(h), line), g, Fills(g), line)
        onCopy == [w EXCEPT !.registry[c] = w.registry[h]]
    IN Warned(Warned(onCopy, c, Fills(h), line), g, Fills(g), line)

Add(h, g, c, line) ==
    /\ deferred[h] /\ g \in Made /\ deferred[g] /\ Copied(h, c)
    /\ Using(line, {h, g}, Operands(h, g, c, line))
    /\ UNCHANGED deferred

\* The warning filters change: Python empties every registry.
ChangeFilters ==
    /\ seen' = [h \in Hists |-> {}]
    /\ readOn' = {}
    /\ last' = NoUse
    /\ UNCHANGED <<lists, staged, deferred, registry, origin, uses>>

WarningsNext ==
    \/ \E h \in Hists : New(h) \/ Fill(h) \/ \E line \in Lines : Read(h, line)
    \/ \E h, c \in Hists :
        \/ Copy(h, c) \/ DeepCopy(h, c)
        \/ \E line \in Lines : Convert(h, c, line) \/ \E g \in Hists : Add(h, g, c, line)
    \/ ChangeFilters

WarningsSpec == WarningsInit /\ [][WarningsNext]_warningsVars

-----------------------------------------------------------------------------
(* Properties *)

\* Of one use, each staged operand shows at most one warning, the copy that arithmetic
\* makes none: what is shown is of what was read ("the copy ... inherits the warning").
UseShowsItsOperands == last.shown \subseteq last.read

\* A staged histogram's read is hidden only when it, or one it shares an original with,
\* was read on that line: two histograms of their own never hide each other.
OnlyKinHide ==
    [][uses' > uses =>
        \A h \in Made : h \in last'.read /\ Fills(h) > 0 /\ h \notin last'.shown =>
            \E k \in Made : /\ origin[k] = origin[h]
                            /\ <<k, last'.line>> \in readOn \/ k \in last'.shown]_warningsVars
=============================================================================
