----------------------------- MODULE MCTableStore -----------------------------
(* Two firmware images, and uploads that each component in turn refuses.       *)
EXTENDS TableStore

CONSTANTS lamp, horn

Table(version, valid, names, targets) ==
    [version |-> version, valid |-> valid, names |-> names, targets |-> targets]

MCBuiltIn ==
    { Table(1, SectionNames, {lamp}, {lamp}), Table(3, SectionNames, {lamp}, {lamp}) }

MCDocs ==
    MCBuiltIn \cup
    { Table(v, SectionNames, {lamp, horn}, {horn}) : v \in {1, 2} } \cup
    { Table(2, SectionNames \ {s}, {lamp}, {}) : s \in SectionNames } \cup
    { Table(2, SectionNames, {horn}, {lamp}) }
===============================================================================
