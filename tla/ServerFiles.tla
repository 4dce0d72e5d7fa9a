---------------------------- MODULE ServerFiles ----------------------------
(***************************************************************************)
(* The files of one server under the agent's jobs: its world and backups,  *)
(* its jars and their configuration.  Jobs that change files go through    *)
(* the one-slot mutation gate of the agent.                                *)
(***************************************************************************)
EXTENDS Worlds, Mods

CONSTANT MaxJobs    \* bound: jobs executed

VARIABLE jobs       \* jobs executed so far

vars == <<worldVars, modVars, jobs>>

Init == WorldInit /\ ModInit /\ jobs = 0

\* A job that changes files; the next one waits until it has ended.
Mutation(A) ==
    /\ job = NoTask /\ jobs < MaxJobs
    /\ jobs' = jobs + 1
    /\ A

ModJob ==
    \/ JarJob /\ UNCHANGED configVars
    \/ \E n \in Names, hint \in Hints : QuarantineMod(n, hint)
    \/ \E zip \in Zips, pl \in UploadPlaces : UploadMod(zip, pl)
    \/ \E n \in Names : PreviewConfigMerge(n)
    \/ \E e \in Edits : WriteModConfig(e[1], e[2])
    \/ ApplyConfigMerge

\* MOD_QUARANTINE_LIST does not wait for the gate.
Query ==
    \/ /\ jobs < MaxJobs /\ jobs' = jobs + 1
       /\ \E hint \in Hints : ListQuarantinedMods(hint)
    \/ StageListed /\ UNCHANGED jobs

Next ==
    \/ WorldStep /\ UNCHANGED <<modVars, jobs>>
    \/ Mutation(WorldJob) /\ UNCHANGED modVars
    \/ Mutation(ModJob) /\ UNCHANGED worldVars
    \/ Query /\ UNCHANGED worldVars

Spec == Init /\ [][Next]_vars

-----------------------------------------------------------------------------
(* Properties                                                              *)

Missing == Empty

JsonAt(v, path) ==
    FoldLeft(LAMBDA x, k : IF x # Missing /\ x.t = "map" /\ k \in DOMAIN x.m THEN x.m[k] ELSE Missing,
             v, path)

JsonCarried(t, l, m) ==
    \A path \in UNION {[1 .. d -> {"a", "b"}] : d \in 0 .. 2} :
       LET tv == JsonAt(t, path)  lv == JsonAt(l, path)  mv == JsonAt(m, path) IN
       IF tv = Missing \/ tv.t = "map"
       THEN (mv = Missing) = (tv = Missing) /\ (tv # Missing => mv.t = "map")
       ELSE mv = IF lv # Missing /\ lv.t = tv.t /\ lv.t # "null" THEN lv ELSE tv

IsHeader(line) == line.t \in {"table", "array"}

\* The header above line i, and how often the document has it.
HeaderOf(doc, i) ==
    LET hs == {j \in 1 .. i : IsHeader(doc[j])} IN
    IF hs = {} THEN Global ELSE [t |-> doc[Max(hs)].t, n |-> doc[Max(hs)].n]
Repeated(doc, h) ==
    Cardinality({j \in DOMAIN doc : IsHeader(doc[j]) /\ [t |-> doc[j].t, n |-> doc[j].n] = h}) > 1

IniCarried(t, l, m) ==
    /\ Len(m) = Len(t)
    /\ \A i \in DOMAIN t :
          LET h == HeaderOf(t, i)
              set == {j \in DOMAIN l : l[j].t = "key" /\ l[j].k = t[i].k /\ HeaderOf(l, j) = h}
          IN  CASE t[i].t = "key" /\ ~Repeated(l, h) ->
                     m[i] = [t[i] EXCEPT !.v = IF set = {} THEN @ ELSE l[Max(set)].v]
                [] t[i].t = "key" -> m[i].t = "key" /\ m[i].k = t[i].k
                [] t[i].t = "array" -> m[i] = [t[i] EXCEPT !.torn = TRUE]
                [] OTHER -> m[i] = t[i]

XmlAt(nodes, path) ==
    FoldLeft(LAMBDA x, n :
                LET same == IF x = Missing THEN {} ELSE {i \in DOMAIN x.c : x.c[i].n = n}
                IN  IF same = {} THEN Missing ELSE x.c[Max(same)],
             [c |-> nodes], path)

XmlCarried(t, l, m) ==
    \A path \in UNION {[1 .. d -> {"r", "s"}] : d \in 1 .. 2} :
       LET tv == XmlAt(t, path)  lv == XmlAt(l, path)  mv == XmlAt(m, path) IN
       IF tv = Missing THEN mv = Missing
       ELSE /\ mv # Missing
            /\ mv.a = [k \in DOMAIN tv.a |->
                          IF lv # Missing /\ k \in DOMAIN lv.a THEN lv.a[k] ELSE tv.a[k]]
            /\ tv.c = <<>> =>
                  mv.x = IF lv # Missing /\ tv.x # "" /\ lv.x # "" THEN lv.x ELSE tv.x

\* MergeFile: a merged file has the settings of the template it was made from and no
\* other, and for each of them the operator's value where the live file has one of the
\* same type at the same place (in INI files: under a header that is not repeated).
\* Structure is kept line by line but for one: the header [[s]] of an array of tables
\* comes back as [[s] (merge_ini.go:35 closes one bracket), so that a TOML file with such
\* a header is no TOML any more, whatever docs/minecraft-adapter-config.md:79 promises.
SettingsCarried ==
    \A p \in DOMAIN preview :
       LET r == preview[p] IN
       ~r.skipped /\ r.live # Empty =>
          CASE p = "json" -> JsonCarried(r.tmpl, r.live, r.content)
            [] p = "ini" -> IniCarried(r.tmpl, r.live, r.content)
            [] p = "xml" -> XmlCarried(r.tmpl, r.live, r.content)
=============================================================================
