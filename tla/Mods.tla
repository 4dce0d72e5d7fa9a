-------------------------------- MODULE Mods --------------------------------
(***************************************************************************)
(* The configuration files of jars (mods.go, modconfig.go).  The jars are  *)
(* versions of one mod, so all of them claim the same configuration        *)
(* files.  Jobs that move jars or write files exclude each other; the      *)
(* inventory of the quarantine counts as a query and runs beside them,     *)
(* although it writes templates.                                           *)
(***************************************************************************)
EXTENDS TLC, Jars, ConfigMerge

CONSTANTS
    PackDefaults,   \* defaultconfigs/ of the pack, as config/ paths
    Edits,          \* what the editor writes: pairs of a path and a document
    FirstConfig,    \* the configuration files at the start
    Empty           \* a file without content

VARIABLES
    template,       \* .config-templates of each jar name
    live,           \* config/
    listing,        \* the quarantine inventory: the jars not staged yet
    preview         \* the result of the last merge preview

configVars == <<template, live, listing, preview>>
modVars == <<jarVars, configVars>>

\* stageConfigTemplatesForJar: the jar's own defaults replace the template, the pack's
\* defaults and the live files are copied where there is none.
Staging(own, t, cfg) == own @@ t @@ PackDefaults @@ cfg

\* The templates of the jar in the quarantine were staged when it was uploaded.
ModInit ==
    /\ live = FirstConfig /\ listing = <<>> /\ preview = NoFiles
    /\ \E zip \in Zips :
          /\ JarsFrom(zip)
          /\ template = [m \in Names |-> IF m = zip[1].name
                                         THEN Staging(zip[1].defaults, NoFiles, live) ELSE NoFiles]

-----------------------------------------------------------------------------
(* stageConfigTemplatesForJar                                              *)

\* The jar may have gone meanwhile, or be half written.
Staged(n, jar) ==
    Staging(IF jar = NoJar \/ ~jar.whole THEN NoFiles ELSE jar.defaults, template[n], live)

Stage(n, jar) == template' = [template EXCEPT ![n] = Staged(n, jar)]

\* A file of the template while it is written over.
Torn(p, doc) == {Empty} \cup IF p = "ini" THEN {SubSeq(doc, 1, Len(doc) - 1)} ELSE {Bad}

-----------------------------------------------------------------------------
(* Jobs on jars that stage templates                                       *)

\* The jar is moved, then its templates are staged from where it is.
QuarantineMod(n, hint) ==
    /\ QuarantineJar(n, hint)
    /\ Stage(n, place[Active(FindMod("active", n, hint))][n])
    /\ UNCHANGED <<live, listing, preview>>

\* UploadMod of an archive, the only form the agent's loop passes on: an upload to the
\* quarantine that worked stages the templates of its jars.
UploadMod(zip, pl) ==
    \E n \in 0 .. Len(zip), torn \in BOOLEAN :
       /\ WriteJars(zip, pl, n, torn)
       /\ template' = IF pl = Pending \/ n < Len(zip) THEN template
                      ELSE [m \in {zip[k].name : k \in 1 .. n} |-> Staged(m, place'[pl][m])] @@ template
       /\ UNCHANGED <<live, listing, preview>>

-----------------------------------------------------------------------------
(* MOD_QUARANTINE_LIST, beside the other jobs                              *)

ListQuarantinedMods(hint) ==
    LET kinds == IF hint = "" THEN Kinds ELSE {hint}
        found == {<<k, n>> \in kinds \X Names : place[Quarantine(k)][n] # NoJar}
    IN
    /\ listing = <<>> /\ found # {}
    /\ listing' = SetToSeq(found)
    /\ UNCHANGED <<jarVars, template, live, preview>>

\* The next jar is opened where it was listed; its defaults are written over.
StageListed ==
    /\ listing # <<>>
    /\ LET n == Head(listing)[2]
           jar == place[Quarantine(Head(listing)[1])][n]
       IN  \/ Stage(n, jar) /\ listing' = Tail(listing)
           \/ /\ jar # NoJar /\ jar.whole
              /\ \E p \in DOMAIN jar.defaults : \E half \in Torn(p, jar.defaults[p]) :
                    template' = [template EXCEPT ![n] = (p :> half) @@ @]
              /\ UNCHANGED listing
    /\ UNCHANGED <<jarVars, live, preview>>

-----------------------------------------------------------------------------
(* Configuration files                                                     *)

\* PreviewConfigMerge: the templates of the quarantined jar are staged again, then
\* every file of either side is merged; an empty file counts as absent.
PreviewConfigMerge(source) ==
    LET k == FindMod("quarantine", source, "")
        tmpl == IF k = "" THEN template[source] ELSE Staged(source, place[Quarantine(k)][source])
        Read(f, p) == IF p \in DOMAIN f THEN f[p] ELSE Empty
        Result(t, l, p) ==
            IF t = Empty THEN [content |-> l, skipped |-> TRUE]
            ELSE IF l = Empty THEN [content |-> t, skipped |-> FALSE]
            ELSE MergeFile(p, t, l)
        paths == {p \in DOMAIN tmpl \cup DOMAIN live : {Read(tmpl, p), Read(live, p)} # {Empty}}
    IN
    /\ template' = [template EXCEPT ![source] = tmpl]
    /\ preview' = [p \in paths |-> Result(Read(tmpl, p), Read(live, p), p)
                                   @@ [tmpl |-> Read(tmpl, p), live |-> Read(live, p)]]
    /\ UNCHANGED <<jarVars, live, listing>>

\* WriteModConfig: a temporary file renamed over the target.
WriteModConfig(p, doc) ==
    /\ live' = (p :> doc) @@ live
    /\ UNCHANGED <<jarVars, template, listing, preview>>

\* ApplyConfigMerge: the reviewed files are written in the order of their paths
\* until one fails.
ApplyConfigMerge ==
    LET order == SelectSeq(<<"ini", "json", "txt", "xml">>,
                           LAMBDA p : p \in DOMAIN preview /\ ~preview[p].skipped) IN
    /\ order # <<>>
    /\ \E k \in 0 .. Len(order) :
          live' = [p \in {order[i] : i \in 1 .. k} |-> preview[p].content] @@ live
    /\ UNCHANGED <<jarVars, template, listing, preview>>
=============================================================================
