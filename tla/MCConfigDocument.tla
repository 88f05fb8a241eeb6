-------------------------- MODULE MCConfigDocument --------------------------
(* Instances of ConfigDocument for TLC. *)
EXTENDS ConfigDocument

CONSTANT Other   \* a value that is right nowhere

\* An element with or without white space between its children.
Layout(indented, tag, kids) ==
    Element(tag, IF indented THEN Indented(kids) ELSE kids)

Ifc(type, direction, params) ==
    Element("interface", <<Leaf("type", type), Leaf("direction", direction),
                           Leaf("params", params)>>)

Mod(ind, name, on, params, ifces) ==
    Layout(ind, "module",
           <<Leaf("name", name), Leaf("enabled", on), Leaf("path", "/bin/m"),
             Leaf("params", params), Layout(ind, "trapinterfaces", ifces)>>)

Group(ind, name, mods) ==
    Layout(ind, "modules", <<Leaf("name", name), Leaf("enabled", "true")>> \o mods)

Limit(n) == Element("supervisor", <<Leaf("module-restarts", n)>>)

Doc(ind, groups) == Layout(ind, "nemea-supervisor", <<Limit(2)>> \o groups)

In(p) == Ifc("TCP", "IN", p)

Out(p) == Ifc("UNIXSOCKET", "OUT", p)

\* One module.
One(ind, ifces) == Doc(ind, <<Group(ind, "g", <<Mod(ind, "a", "true", "x", ifces)>>)>>)

\* The same module with one interface changed, and with more interfaces than
\* the array has room for at first.
Base ==
    {One(TRUE, ifces) : ifces \in {<<In("1"), Out("2")>>, <<In("1"), Out("3")>>,
                                   <<In("1"), Out("2"), Out("3"), Out("4")>>}}

\* A compact document loses an interface in an update.
Compact == One(FALSE, <<In("1"), Out("3")>>)

\* An interface without attributes is accepted, and refused in a backup.
Hollow == One(TRUE, <<Element("interface", <<Blank>>)>>)

\* The documents that one edit makes of this one: a node is dropped, doubled,
\* emptied, given another value or put where it does not belong.
RECURSIVE Edits(_)
Edits(e) ==
    LET n == Len(e.kids)
        real == {i \in 1..n : e.kids[i].tag # "text"}
        With(kids) == [e EXCEPT !.kids = kids]
        At(i, k) == With(ReplaceAt(e.kids, i, k))
    IN  {With(RemoveAt(e.kids, i)) : i \in real}
        \cup {With(InsertAt(e.kids, i, e.kids[i])) : i \in real}
        \cup {With(Append(e.kids, Leaf("other", NULL)))}
        \cup {At(i, [e.kids[i] EXCEPT !.val = NULL, !.kids = <<>>]) : i \in real}
        \cup {At(i, Leaf(e.kids[i].tag, Other)) :
                 i \in {j \in real : e.kids[j].tag \in {"enabled", "type", "direction",
                                                         "module-restarts"}}}
        \cup UNION {{At(i, k) : k \in Edits(e.kids[i])} :
                       i \in {j \in real : e.kids[j].kids # <<>>}}

Edited ==
    Edits(Doc(TRUE, <<Group(TRUE, "g", <<Mod(TRUE, "a", "false", "x", <<In("1")>>)>>)>>))

SomeDocuments == Base \cup Edited \cup {Compact, Hollow}

\* A document that leaves out what the one before it gave, and is compact.
LeavesOut ==
    {One(TRUE, <<In("1"), Out("2")>>),
     Doc(FALSE, <<Group(FALSE, "g",
                  <<Element("module",
                            <<Leaf("name", "a"), Leaf("enabled", "true"),
                              Leaf("path", "/bin/m"),
                              Element("trapinterfaces", <<In("1"), Out("3")>>)>>)>>)>>)}

File(sup, state, size, nodes) ==
    [sup |-> sup, state |-> state, size |-> size, nodes |-> nodes]

Line(size, nodes) == [kind |-> "text", size |-> size, nodes |-> nodes]

Include(kind, files) == [kind |-> kind, files |-> files]

Groups ==
    <<Group(TRUE, "g", <<Mod(TRUE, "a", "true", "x", <<>>)>>),
      Group(TRUE, "h", <<Mod(TRUE, "b", "false", "x", <<>>)>>)>>

\* Lines and files of every kind, with sizes that fill the buffer exactly.
SomeTemplates ==
    {<<>>,
     <<Line(1, <<>>), Include("dir", {File(TRUE, "readable", 2, <<Groups[1]>>),
                                      File(TRUE, "readable", 1, <<Groups[2]>>),
                                      File(FALSE, "readable", 9, <<Limit(1)>>)}),
       Line(2, <<>>)>>,
     <<Line(1, <<Limit(1)>>), Include("file", {File(TRUE, "readable", 3, <<Groups[1]>>)}),
       Include("file", {File(FALSE, "readable", 3, <<Groups[2]>>)}), Line(1, <<>>)>>,
     <<Line(1, <<Groups[2]>>), Include("dir", {File(TRUE, "unreadable", 9, <<Limit(1)>>)})>>,
     <<Include("dir", {File(TRUE, "vanishing", 1, <<Groups[1]>>),
                       File(TRUE, "readable", 1, <<Groups[2]>>)})>>,
     <<Include("file", {File(TRUE, "unreadable", 1, <<Groups[1]>>)})>>,
     <<Include("file", {File(TRUE, "vanishing", 1, <<Groups[1]>>)})>>,
     <<Line(1, <<Groups[1]>>), Include("none", {})>>}

OneTemplate == {<<>>}
=============================================================================
