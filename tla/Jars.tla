-------------------------------- MODULE Jars --------------------------------
(***************************************************************************)
(* The jars of one server and the jobs that write, move and delete them    *)
(* (mods.go).  A jar is known by the number of its upload; the agent runs  *)
(* one of these jobs at a time.  Mods adds the configuration files that    *)
(* some of the jobs write on the way.                                      *)
(***************************************************************************)
EXTENDS Naturals, Sequences, FiniteSetsExt

CONSTANTS
    Names,          \* file names of jars
    Zips,           \* what is uploaded: sequences of [name, defaults]
    FirstJar,       \* the name of the jar that is active at the start
    NoJar           \* no jar of that name

NoFiles == [p \in {} |-> NoJar]
AllDefaults == {NoFiles} \cup UNION {{zip[k].defaults : k \in DOMAIN zip} : zip \in Zips}
JarRow == [id : Nat, whole : BOOLEAN, defaults : AllDefaults]

ASSUME JarsAssumption ==
    /\ FirstJar \in Names /\ NoJar \notin JarRow
    /\ \A zip \in Zips :
          /\ zip \in Seq({zip[k] : k \in DOMAIN zip}) /\ zip # <<>>
          /\ \A k \in DOMAIN zip : zip[k].name \in Names

VARIABLES
    place,          \* the jar under each name in each directory
    made,           \* history: the jars written so far
    gone            \* history: the jars deleted, rejected or overridden

jarVars == <<place, made, gone>>

Kinds == {"mods", "plugins"}
Active(kind) == <<"active", kind>>
Quarantine(kind) == <<"quarantine", kind>>
Pending == <<"pending", "mods">>
Places == {Active(k) : k \in Kinds} \cup {Quarantine(k) : k \in Kinds} \cup {Pending}

\* One jar is active and the first of an archive was uploaded to the quarantine.
JarsFrom(zip) ==
    LET jar(i, d) == [id |-> i, whole |-> TRUE, defaults |-> d] IN
    /\ made = 2 /\ gone = {}
    /\ place = [pl \in Places |-> [m \in Names |->
                   CASE pl = Active("mods") /\ m = FirstJar -> jar(1, NoFiles)
                     [] pl = Quarantine("mods") /\ m = zip[1].name -> jar(2, zip[1].defaults)
                     [] OTHER -> NoJar]]

\* payloadModKind: a hint names the kind; without one mods are looked at first.
Hints == Kinds \cup {""}

FindMod(dir, n, hint) ==
    LET has == {k \in Kinds : hint \in {"", k} /\ place[<<dir, k>>][n] # NoJar}
    IN  CASE has = {} -> "" [] "mods" \in has -> "mods" [] OTHER -> "plugins"

Put(f, pl, n, jar) == [f EXCEPT ![pl][n] = jar]
Move(from, to, n) == place' = Put(Put(place, to, n, place[from][n]), from, n, NoJar)

-----------------------------------------------------------------------------
(* Jobs on jars                                                            *)

\* The jar that QuarantineMod moves; the templates of its files are staged by Mods.
QuarantineJar(n, hint) ==
    LET kind == FindMod("active", n, hint) IN
    /\ kind # "" /\ place[Quarantine(kind)][n] = NoJar
    /\ Move(Active(kind), Quarantine(kind), n)
    /\ UNCHANGED <<made, gone>>

\* With forceOverride the active jar is removed first; the rename may fail.
RestoreMod(n, hint, force) ==
    LET kind == FindMod("quarantine", n, hint)
        there == place[Active(kind)][n]
    IN
    /\ kind # "" /\ (there = NoJar \/ force)
    /\ \/ Move(Quarantine(kind), Active(kind), n)
       \/ there # NoJar /\ place' = Put(place, Active(kind), n, NoJar)
    /\ gone' = IF there = NoJar THEN gone ELSE gone \cup {there.id}
    /\ UNCHANGED made

Discard(pl, n) ==
    /\ place[pl][n] # NoJar
    /\ place' = Put(place, pl, n, NoJar)
    /\ gone' = gone \cup {place[pl][n].id}
    /\ UNCHANGED made

DeleteMod(n, source, hint) ==
    \/ source = "pending" /\ Discard(Pending, n)
    \/ /\ source \in {"active", "quarantine"} /\ FindMod(source, n, hint) # ""
       /\ Discard(<<source, FindMod(source, n, hint)>>, n)

RejectPendingMod(n) == Discard(Pending, n)

\* Mutant: the active directory is not looked at; the rename replaces the jar there.
ApprovePendingMod_NoCheck(n, kind) ==
    /\ place[Pending][n] # NoJar
    /\ Move(Pending, Active(kind), n)
    /\ UNCHANGED <<made, gone>>

ApprovePendingMod(n, kind) ==
    /\ place[Pending][n] # NoJar /\ place[Active(kind)][n] = NoJar
    /\ Move(Pending, Active(kind), n)
    /\ UNCHANGED <<made, gone>>

\* extractJarsFromZip: how many jars can be written before a name that exists.
Extractable(zip, pl) ==
    LET Taken(k) == \/ place[pl][zip[k].name] # NoJar
                    \/ \E j \in 1 .. k - 1 : zip[j].name = zip[k].name
    IN  Min({k \in DOMAIN zip : Taken(k)} \cup {Len(zip) + 1}) - 1

\* The jars of an archive that UploadMod leaves in a directory.  A name that exists or a
\* failed copy ends the job and leaves the jars before it; an agent that dies leaves the
\* next one half written.
WriteJars(zip, pl, n, torn) ==
    LET last == IF torn THEN n + 1 ELSE n
        Jar(k) == [id |-> made + k, whole |-> k <= n, defaults |-> zip[k].defaults]
        Of(m) == {k \in 1 .. last : zip[k].name = m}
    IN
    /\ last <= Extractable(zip, pl)
    /\ place' = [place EXCEPT ![pl] =
                    [m \in Names |-> IF Of(m) = {} THEN @[m] ELSE Jar(CHOOSE k \in Of(m) : TRUE)]]
    /\ made' = made + last
    /\ UNCHANGED gone

-----------------------------------------------------------------------------
\* The jobs that change no other files.
JarJob ==
    \/ \E n \in Names, hint \in Hints :
          \/ \E force \in BOOLEAN : RestoreMod(n, hint, force)
          \/ \E source \in {"active", "quarantine", "pending"} : DeleteMod(n, source, hint)
    \/ \E n \in Names : RejectPendingMod(n) \/ \E kind \in Kinds : ApprovePendingMod(n, kind)

\* UploadMod writes to the quarantine or to the jars waiting for approval.
UploadPlaces == Places \ {Active(k) : k \in Kinds}

JarsInit == \E zip \in Zips : JarsFrom(zip)

JarsNext ==
    \/ JarJob
    \/ \E n \in Names, hint \in Hints : QuarantineJar(n, hint)
    \/ \E zip \in Zips, pl \in UploadPlaces :
          \E n \in 0 .. Len(zip), torn \in BOOLEAN : WriteJars(zip, pl, n, torn)

JarsSpec == JarsInit /\ [][JarsNext]_jarVars

-----------------------------------------------------------------------------
\* Quarantine, restore, approval and upload move a jar or fail: each jar ever written
\* is in exactly one directory, or an operator deleted, rejected or overrode it.
JarsKept ==
    \A i \in 1 .. made :
       LET at == {w \in Places \X Names :
                     place[w[1]][w[2]] # NoJar /\ place[w[1]][w[2]].id = i}
       IN  IF i \in gone THEN at = {} ELSE Cardinality(at) = 1

=============================================================================
