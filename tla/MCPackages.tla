----------------------------- MODULE MCPackages -----------------------------
(* TLC's instance of the package ecosystems.  A behaviour is of one part,     *)
(* "proxy", "group", "pypi" or "routes"; the variables of the others keep     *)
(* their first value.                                                         *)
EXTENDS Packages

VARIABLE part

groups == <<group, tried, said, pc, member, at, physical, state, documents, canceled, open, gate, result>>
files == <<file, running, caching, reading>>
routes == <<from, tail, parsed, job, again, step>>

\* Releases, a candidate and a final of the same version, a snapshot, an artifact without
\* an id, three versions that the comparison does not order and a member that has another
\* artifact; versions are sequences of tokens as in MavenFetch.
Num(i) == [n |-> i, q |-> ""]
Qual(name) == [n |-> -1, q |-> name]
Dot(n, m) == <<Num(n), Num(m)>>
Rc(n, m) == <<Num(n), Num(m), Qual("cr"), Num(1)>>
Snapshot(n) == <<Num(n), Qual("snapshot")>>
SomeDocuments ==
    {[id |-> "a", versions |-> <<Dot(1, 0), Rc(1, 1)>>, latest |-> <<>>, release |-> <<Dot(1, 0)>>],
     [id |-> "a", versions |-> <<<<Num(1), Num(0), Qual("final")>>, Dot(1, 1)>>,
      latest |-> <<Snapshot(3)>>, release |-> <<>>],
     [id |-> "",  versions |-> <<Snapshot(2)>>, latest |-> <<Rc(2, 0)>>, release |-> <<Rc(2, 0)>>],
     [id |-> "b", versions |-> <<<<Num(1)>>, <<Num(1), Qual("foo")>>, <<Num(1), Num(0), Qual("alpha")>>>>,
      latest |-> <<>>, release |-> <<>>]}

\* One request may be a refresh, the other one of a part of the file.
SomeKinds == [r \in Requests |-> IF r = "first" THEN {"get", "refresh"} ELSE {"get", "partial"}]

MCInit ==
    /\ part \in {"proxy", "group", "pypi", "routes"}
    /\ Init /\ (part # "proxy" => route = "index" /\ row[1] = NoRow)
    /\ G!Init
    /\ part # "group" =>
          group.fallback /\ group.merge /\ group.head /\ \A m \in 1 .. Members : tried[m] = 1 .. Endpoints
    /\ F!Init /\ (part # "pypi" => file = "none")
    /\ N!Init /\ (part # "routes" => from = "dist" /\ tail = <<"v1">>)

MCNext ==
    \/ part = "proxy" /\ Next /\ UNCHANGED <<part, groups, files, routes>>
    \/ part = "group" /\ G!Next /\ UNCHANGED <<part, vars, files, routes>>
    \/ part = "pypi" /\ F!Next /\ UNCHANGED <<part, vars, groups, routes>>
    \/ part = "routes" /\ N!Next /\ UNCHANGED <<part, vars, groups, files>>

MCSpec ==
    /\ MCInit /\ [][MCNext]_<<part, vars, groups, files, routes>>
    /\ WF_vars(part = "proxy" /\ Progress)
    /\ WF_files(part = "pypi" /\ F!Progress)

\* Every request ends and gives back the fill and the slot it held.
PackagesEnd ==
    <>[](/\ part = "proxy" => AllEnded
         /\ part = "pypi" => F!AllEnded)
=============================================================================
