--------------------------- MODULE MCServerFiles ---------------------------
(* ServerFiles on a small instance: two jar names and a document or two of  *)
(* every kind.  The uploads that bring a mod to the control plane (Uploads) *)
(* and the rows that say where a server is installed (Instances) are other  *)
(* state: a behaviour follows one of the three.                             *)
EXTENDS ServerFiles, Uploads, Instances

VARIABLE side       \* the part that a behaviour follows

Str(v) == [t |-> "str", v |-> v]
Map(f) == [t |-> "map", m |-> f]
Null == [t |-> "null"]

\* A new version's defaults, in JSON and INI, or in XML and a text format.
J1 == Map("a" :> Str("d") @@ "b" :> Map("a" :> Null @@ "b" :> Str("d")))
J2 == Map("a" :> Map("b" :> Str("d")) @@ "b" :> Null)
Head_(t, n) == [t |-> t, n |-> n, torn |-> FALSE]
Key(k, v) == [t |-> "key", k |-> k, v |-> v]
I1 == <<Key("k", "d"), Head_("table", "s"), Key("k", "d"), [t |-> "raw"], Head_("array", "s"), Key("k", "d")>>
I2 == <<Head_("table", "s"), Key("k", "u"), Key("q", "u"), Head_("table", "s"), Key("q", "w"), Head_("array", "s"), Key("k", "u")>>
I3 == <<Key("k", "u"), Head_("table", "s"), Key("k", "v"), Key("k", "w")>>
Node(n, a, x, c) == [n |-> n, a |-> a, x |-> x, c |-> c]
X1 == <<Node("r", "p" :> "d", "t", <<Node("r", "p" :> "d" @@ "q" :> "d", "", <<>>), Node("s", <<>>, "d", <<>>)>>)>>
X2 == <<Node("r", "p" :> "u", "", <<Node("s", <<>>, "u", <<>>), Node("r", "q" :> "u", "", <<>>)>>), Node("s", <<>>, "u", <<>>)>>

First == "json" :> J1 @@ "ini" :> I2 @@ "txt" :> "u"
Jar1 == [name |-> "m2", defaults |-> "json" :> J2 @@ "ini" :> I1]
Jar2 == [name |-> "m1", defaults |-> "xml" :> X1 @@ "txt" :> "d"]
SomeZips == {<<Jar1>>, <<Jar2, Jar1>>}
SomeEdits == {<<"json", Map("a" :> Str("u") @@ "b" :> Map("a" :> Str("u")))>>, <<"json", Bad>>, <<"txt", Empty>>,
              <<"ini", I3>>, <<"xml", X2>>}
SomePack == "xml" :> X2

FilesInit ==
    /\ Init /\ UploadsInit /\ InstancesInit
    /\ side \in {"server", "uploads", "rows"}
    /\ side # "uploads" => role = "viewer"

FilesNext ==
    /\ side' = side
    /\ \/ side = "server" /\ Next /\ UNCHANGED <<uploadVars, instanceVars>>
       \/ side = "uploads" /\ UploadsNext /\ UNCHANGED <<vars, instanceVars>>
       \/ side = "rows" /\ InstancesNext /\ UNCHANGED <<vars, uploadVars>>

FilesSpec == FilesInit /\ [][FilesNext]_<<vars, uploadVars, instanceVars, side>>
============================================================================
