----------------------------- MODULE ConfigMerge -----------------------------
(***************************************************************************)
(* Package configmerge: the settings of a live mod configuration carried   *)
(* into the template of a new version.  Documents are kept as what the     *)
(* parsers make of them; spelling, comments and layout are left out.       *)
(***************************************************************************)
EXTENDS Naturals, Sequences, SequencesExt, FiniteSetsExt

CONSTANT Bad    \* a document that does not parse

-----------------------------------------------------------------------------
(* JSON: [t |-> "map", m |-> a function], or a scalar or list with its type *)

RECURSIVE MergeJSONValue(_, _)

\* Mutant: the live value is carried whatever its type.
MergeJSONValue_AnyType(tmpl, live) ==
    IF tmpl.t = "map" /\ live.t = "map"
    THEN [t |-> "map",
          m |-> [k \in DOMAIN tmpl.m |->
                    IF k \in DOMAIN live.m THEN MergeJSONValue(tmpl.m[k], live.m[k])
                    ELSE tmpl.m[k]]]
    ELSE live

\* The template's keys; a live value of the same type is carried, null never is.
MergeJSONValue(tmpl, live) ==
    IF tmpl.t = "map" /\ live.t = "map"
    THEN [t |-> "map",
          m |-> [k \in DOMAIN tmpl.m |->
                    IF k \in DOMAIN live.m THEN MergeJSONValue(tmpl.m[k], live.m[k])
                    ELSE tmpl.m[k]]]
    ELSE IF tmpl.t = live.t /\ live.t # "null" THEN live ELSE tmpl

-----------------------------------------------------------------------------
(* INI, properties and TOML: lines [t |-> "table" | "array", n, torn], *)
(* [t |-> "key", k, v] and [t |-> "raw"] (blank, comment, anything else)    *)

Global == [t |-> "table", n |-> ""]

\* parseINI: the global section and one section per header.  The header of a
\* TOML array of tables is read up to its first closing bracket.
ParseINI(doc) ==
    FoldLeft(LAMBDA secs, line :
                IF line.t \in {"table", "array"}
                THEN Append(secs, [head |-> line, lines |-> <<>>])
                ELSE [secs EXCEPT ![Len(secs)].lines = Append(@, line)],
             <<[head |-> Global, lines |-> <<>>]>>, doc)

\* What a header is written back as: the array's second closing bracket is lost.
Headers(head) == IF head = Global THEN <<>> ELSE <<[head EXCEPT !.torn = head.t = "array"]>>

\* liveKV: the last value of each key in the last section of that name.
LiveKV(live, head) ==
    LET secs == {i \in DOMAIN live : <<live[i].head.t, live[i].head.n>> = <<head.t, head.n>>}
        lines == IF secs = {} THEN <<>> ELSE live[Max(secs)].lines
        Of(k) == {j \in DOMAIN lines : lines[j].t = "key" /\ lines[j].k = k}
    IN  [k \in {lines[j].k : j \in {i \in DOMAIN lines : lines[i].t = "key"}} |->
            lines[Max(Of(k))].v]

MergeINI(tmpl, live) ==
    FlattenSeq([i \in DOMAIN ParseINI(tmpl) |->
        LET sec == ParseINI(tmpl)[i]
            kv == LiveKV(ParseINI(live), sec.head)
            Entry(line) == IF line.t = "key" /\ line.k \in DOMAIN kv
                           THEN [line EXCEPT !.v = kv[line.k]] ELSE line
        IN  Headers(sec.head) \o [j \in DOMAIN sec.lines |-> Entry(sec.lines[j])]])

-----------------------------------------------------------------------------
(* XML: a sequence of nodes [n (xmlNodeKey), a (attributes), x (text), c]   *)

\* writeXMLNode: text beside children is not written.
RECURSIVE SerializeXML(_)
SerializeXML(nodes) ==
    [i \in DOMAIN nodes |->
        [nodes[i] EXCEPT !.x = IF nodes[i].c = <<>> THEN @ ELSE "", !.c = SerializeXML(@)]]

RECURSIVE MergeXMLNodes(_, _)
MergeXMLNodes(tmpl, live) ==
    [i \in DOMAIN tmpl |->
        LET t == tmpl[i]
            same == {j \in DOMAIN live : live[j].n = t.n}
            l == live[Max(same)]
        IN  IF same = {} THEN t
            ELSE [n |-> t.n,
                  a |-> [k \in DOMAIN t.a |-> IF k \in DOMAIN l.a THEN l.a[k] ELSE t.a[k]],
                  x |-> IF t.c # <<>> THEN "" ELSE IF t.x # "" /\ l.x # "" THEN l.x ELSE t.x,
                  c |-> MergeXMLNodes(t.c, l.c)]]

-----------------------------------------------------------------------------
\* MergeFile, by the extension of the path; a document that does not parse and
\* the other extensions leave the template.
MergeFile(path, tmpl, live) ==
    IF path \notin {"json", "ini", "xml"} \/ Bad \in {tmpl, live}
    THEN [content |-> tmpl, skipped |-> TRUE]
    ELSE [content |-> CASE path = "json" -> MergeJSONValue(tmpl, live)
                        [] path = "ini" -> MergeINI(tmpl, live)
                        [] path = "xml" -> SerializeXML(MergeXMLNodes(tmpl, live)),
          skipped |-> FALSE]
=============================================================================
