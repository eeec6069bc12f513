------------------------------ MODULE SpecCodec ------------------------------
(* The spec of a histogram: what spec_of writes of its axes and storage, what  *)
(* it refuses, and what zero_of rebuilds from it, in this release and in one   *)
(* that predates growth.  PlanShape has the plan it travels in.                *)
EXTENDS Naturals

CONSTANTS
    None,           \* an attribute set to None
    Str(_)          \* str() of an attribute's value

\* A histogram is [storage, axes], an axis [type, bins, traits, transform, attrs]: bins is
\* its edges or categories, traits those of "underflow", "overflow", "circular", "growth"
\* it has, attrs its public attributes.
IsAxis(a) ==
    /\ a = [type |-> a.type, bins |-> a.bins, traits |-> a.traits, transform |-> a.transform,
            attrs |-> a.attrs]
    /\ a.transform \in BOOLEAN
Binned == {"Regular", "Integer"}        \* flow and growth are options of these
Category == {"IntCategory", "StrCategory"}

\* _metadata_of: each attribute as a string, those set to None left out.
Metadata(attrs) == [k \in {j \in DOMAIN attrs : attrs[j] # None} |-> Str(attrs[k])]

\* _encode_axis: the options an entry has room for.
Encoded(axis) ==
    [type |-> axis.type, bins |-> axis.bins, metadata |-> Metadata(axis.attrs),
     options |-> axis.traits \cap
        CASE axis.type \in Binned -> {"underflow", "overflow", "growth"}
          [] axis.type = "Variable" -> {"underflow", "overflow"}
          [] axis.type \in Category -> {"growth"}
          [] OTHER -> {}]

\* _make_axis, with boost-histogram's constructors: a category axis that does not grow
\* overflows, and one that grows has no flow bin.
MakeAxis(entry) ==
    [type |-> entry.type, bins |-> entry.bins, transform |-> FALSE, attrs |-> entry.metadata,
     traits |-> IF entry.type \in Category /\ "growth" \notin entry.options THEN {"overflow"}
                ELSE entry.options]

\* _axis_spec: what the rebuilt axis would not have.
Lost(axis) == axis.transform \/ MakeAxis(Encoded(axis)).traits # axis.traits

\* Version gone wrong: one version for all.
VersionOne(h) == 1

\* Version 2 marks a spec with a growth axis.
Version(h) == IF \E i \in DOMAIN h.axes : "growth" \in h.axes[i].traits THEN 2 ELSE 1

\* _axis_spec, of every axis: what Histogram(...) refuses.
Carries(h) == \A i \in DOMAIN h.axes : ~Lost(h.axes[i])

\* spec_of, of a histogram it carries.
SpecOf(h) ==
    [version |-> Version(h), storage |-> h.storage,
     axes |-> [i \in DOMAIN h.axes |-> Encoded(h.axes[i])]]

\* zero_of of a release: one that predates growth knows version 1 only, and no growth key.
Knows(growing) == IF growing THEN {1, 2} ELSE {1}
ZeroOf(s, growing) ==
    [storage |-> s.storage,
     axes |-> [i \in DOMAIN s.axes |->
                 MakeAxis(IF growing THEN s.axes[i]
                          ELSE [s.axes[i] EXCEPT !.options = @ \ {"growth"}])]]
=============================================================================
