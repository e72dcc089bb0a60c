------------------------ MODULE ManifestCacheProofs -------------------------
(* The manifest proxy for every number of flights, responses, digests and     *)
(* time units.                                                                *)
EXTENDS ManifestCache, FiniteSetTheorems, TLAPS

Places == {"idle", "envelope", "tag", "row", "object", "head", "renew", "fetch", "read", "put",
           "saveRow", "saveTag", "body", "setEnvelope", "done"}
FlightType == [pc : Places, kind : {"none", "get", "refresh", "prepare"}, head : BOOLEAN,
               pass : {"fresh", "any", "revalidate", "stale"}, v : 0 .. MaxVersion, asked : Nat, exp : Nat,
               stored : BOOLEAN, strict : BOOLEAN, result : {"none", "hit", "stale", "error", "bypass"},
               pulls : Nat, once : {"off", "row", "tag", "done"}, failed : BOOLEAN]
ResponseType == [pc : {"idle", "admit", "wait", "complete", "done"}, head : BOOLEAN,
                 f : Flights \cup {"none"}, spool : BOOLEAN, whole : BOOLEAN, counted : 0 .. 1]
Entry == [v : 0 .. MaxVersion, exp : Nat]

TypeOK ==
    /\ now \in Nat /\ upstream \in Versions /\ until \in [Versions -> Nat] /\ lag \in Nat
    /\ envelope \in Entry /\ tag \in Entry /\ row \in [Versions -> Nat] /\ objects \subseteq Versions
    /\ flight \in [Flights -> FlightType]
    /\ resp \in [Responses -> ResponseType] /\ gate \in Int

(* Upstream left a digest in the past. *)
Left == \A v \in Versions : until[v] <= now

(* An expiry that may still be written for a digest. *)
Recent(v, exp) == v \in Versions /\ exp # 0 /\ exp <= Until(v) + lag + TTL

Rows ==
    /\ tag.v # 0 => Recent(tag.v, tag.exp) /\ row[tag.v] # 0
    /\ \A v \in Versions : row[v] # 0 => row[v] <= Until(v) + lag + TTL

(* Upstream had the digest when it answered. *)
Had(v, asked) == v \in Versions /\ asked <= Until(v)

(* What a flight has in hand at each place: a digest from a tag row, then an  *)
(* answer of upstream, the expiry stamped on it, a manifest row it wrote.     *)
Hands(f) ==
    LET x == flight[f] IN
    /\ x.pc \in {"row", "object", "head"} => x.v \in Versions
    /\ x.pc \in {"renew", "read"} => Had(x.v, x.asked)
    /\ x.pc \in {"put", "saveRow", "saveTag", "body", "setEnvelope"} => Recent(x.v, x.exp)
    /\ x.pc = "saveTag" => row[x.v] # 0
    /\ x.strict => x.pc \in {"saveRow", "saveTag", "body", "done"}
    /\ x.pc = "body" => x.strict
    /\ x.pc # "done" => x.result = "none" /\ x.once = "off" /\ ~x.failed
    /\ x.pc = "done" /\ Prepared(f) => Recent(x.v, x.exp)

(* The save of a prepared flight: it begins once and ends once. *)
Save(f) ==
    LET x == flight[f] IN
    /\ x.once # "off" => x.pc = "done" /\ Prepared(f)
    /\ x.once = "tag" => row[x.v] # 0
    /\ x.failed => x.once = "done"

(* Upstream answers a flight at most twice, with a revalidation and a fetch. *)
Pulls(f) ==
    LET x == flight[f] IN
    /\ x.kind = "none" <=> x.pc = "idle"
    /\ x.kind \in {"none", "refresh"} => x.pulls = 0
    /\ x.kind = "prepare" => x.pulls = IF x.once = "off" THEN 0 ELSE 1
    /\ x.kind = "get" =>
          /\ x.pulls <= 2
          /\ x.pc \in {"envelope", "tag", "row", "object", "head", "renew"} => x.pass = "stale" \/ x.pulls = 0
          /\ x.pc \in {"head", "renew"} => x.pass # "stale"
          /\ x.strict \/ x.pc \notin {"saveRow", "saveTag", "setEnvelope"} => x.pulls <= 1

Sound(f) == Hands(f) /\ Save(f) /\ Pulls(f)

(* A response waits for a prepared flight, and goes on when it has returned. *)
Response(r) ==
    LET y == resp[r] IN
    /\ y.pc \in {"wait", "complete"} \/ y.counted # 0 => y.f \in Flights /\ flight[y.f].kind = "prepare"
    /\ y.pc = "complete" \/ y.counted # 0 => flight[y.f].pc = "done"
    /\ y.counted # 0 => y.pc = "done" /\ y.whole /\ Saved(y.f) /\ ~flight[y.f].failed
    /\ y.spool => y.pc = "complete" \/ y.counted # 0

Waiting == {r \in Responses : resp[r].pc = "wait"}

Inv ==
    /\ TypeOK /\ Left /\ Rows
    /\ \A f \in Flights : Sound(f)
    /\ \A r \in Responses : Response(r)
    /\ gate = Cardinality(Waiting)
-----------------------------------------------------------------------------
(* Time. *)

(* The world while an expiry is stamped. *)
Stamping == UNCHANGED <<now, upstream, until>> /\ lag' \in Nat /\ lag <= lag'

LEMMA UntilTyped ==
    ASSUME TypeOK, NEW v \in Versions
    PROVE  Until(v) \in Nat
BY DEF TypeOK, Until

(* Whatever upstream does, a digest was last seen no earlier than before. *)
LEMMA UntilGrows ==
    ASSUME TypeOK, Left, UNCHANGED world \/ Push \/ Tick \/ Stamping
    PROVE  /\ \A v \in Versions : Until(v)' \in Nat /\ Until(v) <= Until(v)'
           /\ lag' \in Nat /\ lag <= lag'
<1>0. lag' \in Nat /\ lag <= lag'
    BY DEF TypeOK, world, Push, Tick, Stamping
<1> SUFFICES ASSUME NEW v \in Versions PROVE Until(v)' \in Nat /\ Until(v) <= Until(v)'
    BY <1>0
<1>1. CASE UNCHANGED world \/ Stamping
    BY <1>1 DEF TypeOK, Until, world, Stamping
<1>2. CASE Push
    BY <1>2, ManifestAssumption DEF TypeOK, Left, Until, Push, Versions
<1>3. CASE Tick
    BY <1>3 DEF TypeOK, Left, Until, Tick
<1> QED BY <1>1, <1>2, <1>3

LEMMA RecentStays ==
    ASSUME TypeOK, Left, UNCHANGED world \/ Push \/ Tick \/ Stamping,
           NEW v \in 0 .. MaxVersion, NEW exp \in Nat, Recent(v, exp)
    PROVE  Recent(v, exp)'
BY UntilGrows, UntilTyped DEF Recent, TTL, TypeOK

LEMMA HadStays ==
    ASSUME TypeOK, Left, UNCHANGED world \/ Push \/ Tick \/ Stamping,
           NEW v \in 0 .. MaxVersion, NEW asked \in Nat, Had(v, asked)
    PROVE  Had(v, asked)'
BY UntilGrows, UntilTyped DEF Had

(* Stamped: a digest that upstream had when it answered is recent from the    *)
(* stamp on, the time since the answer counted.                               *)
LEMMA StampRecent ==
    ASSUME TypeOK, Left, NEW f \in Flights, Stamped(f),
           NEW v \in Versions, v = flight[f].v, Had(v, flight[f].asked)
    PROVE  Stamping /\ Recent(v, now + TTL)'
<1>1. flight[f].asked \in Nat /\ flight[f].asked <= Until(v)
    BY DEF Had, TypeOK, FlightType
<1>2. Until(v) \in Nat /\ Until(v) <= now /\ now \in Nat /\ lag \in Nat
    BY UntilTyped DEF Until, TypeOK, Left
<1>3. lag' \in Nat /\ lag <= lag' /\ now - flight[f].asked <= lag' /\ UNCHANGED <<now, upstream, until>>
    BY <1>1, <1>2 DEF Stamped
<1>4. Until(v)' = Until(v)
    BY <1>3 DEF Until
<1> QED BY <1>1, <1>2, <1>3, <1>4 DEF Recent, TTL, Stamping

-----------------------------------------------------------------------------
(* A flight that takes no part in a step, while rows are only written. *)
LEMMA Untouched ==
    ASSUME Inv, NEW g \in Flights, UNCHANGED world \/ Push \/ Tick \/ Stamping, flight'[g] = flight[g],
           \A v \in Versions : row[v] # 0 => row'[v] # 0
    PROVE  Sound(g)'
<1>1. Sound(g)
    BY DEF Inv
<1>2. flight[g] \in FlightType
    BY DEF Inv, TypeOK
<1>3. Recent(flight[g].v, flight[g].exp) => Recent(flight[g].v, flight[g].exp)'
    BY <1>1, <1>2, RecentStays DEF Inv, FlightType
<1>9. Had(flight[g].v, flight[g].asked) => Had(flight[g].v, flight[g].asked)'
    BY <1>1, <1>2, HadStays DEF Inv, FlightType
<1>4. Recent(flight[g].v, flight[g].exp) => flight[g].v \in Versions
    BY DEF Recent
<1>5. Prepared(g)' <=> Prepared(g)
    BY DEF Prepared
<1>6. Hands(g)'
    BY <1>1, <1>3, <1>4, <1>5, <1>9 DEF Sound, Hands
<1>7. Save(g)'
    BY <1>1, <1>4, <1>5 DEF Sound, Save, Hands
<1>8. Pulls(g)'
    BY <1>1 DEF Sound, Pulls
<1> QED BY <1>6, <1>7, <1>8 DEF Sound

(* The step of one flight that has not returned.  What is left to show for an *)
(* action is what the flight has in hand afterwards and what it wrote.        *)

Advances(f) ==
    /\ flight' \in [Flights -> FlightType]
    /\ flight'[f].kind = flight[f].kind
    /\ \A g \in Flights \ {f} : flight'[g] = flight[g]
    /\ Sound(f)'

(* No response was counted for a flight that runs, or whose save does.        *)
Open(f) ==
    \/ flight[f].pc \notin {"idle", "done"}
    \/ flight[f].pc = "done" /\ flight'[f].pc = "done" /\ Prepared(f) /\ flight[f].once # "done"

LEMMA Moves ==
    ASSUME Inv, NEW f \in Flights, UNCHANGED world \/ Stamping, UNCHANGED front, Open(f), Advances(f),
           envelope' \in Entry, tag' \in Entry, row' \in [Versions -> Nat], objects' \subseteq Versions,
           \A v \in Versions : row[v] # 0 => row'[v] # 0,
           Rows'
    PROVE  Inv'
<1> USE DEF Advances
<1>5. TypeOK'
    BY DEF Inv, TypeOK, world, front, Stamping
<1>1. Left'
    BY DEF Inv, Left, world, Stamping
<1>2. ASSUME NEW g \in Flights PROVE Sound(g)'
    <2>1. CASE g = f
        BY <2>1
    <2>2. CASE g # f
        BY <2>2, Untouched
    <2> QED BY <2>1, <2>2
<1>3. ASSUME NEW r \in Responses PROVE Response(r)'
    <2>1. Response(r) /\ resp' = resp
        BY DEF Inv, front
    <2>2. CASE resp[r].f = f
        BY <2>1, <2>2 DEF Response, Open, Saved
    <2>3. CASE resp[r].f # f
        BY <2>1, <2>3 DEF Response, Saved, Prepared
    <2> QED BY <2>2, <2>3
<1>4. gate' = Cardinality(Waiting')
    BY DEF Inv, Waiting, front
<1> QED BY <1>1, <1>2, <1>3, <1>4, <1>5 DEF Inv
LEMMA Emptied ==
    ASSUME NEW kind \in {"none", "get", "refresh", "prepare"}, NEW result \in {"none", "error"}
    PROVE  LET x == [NewFlight EXCEPT !.pc = "done", !.kind = kind, !.result = result]
           IN  x \in FlightType /\ x.pc = "done" /\ x.kind = kind
<1>1. NewFlight \in FlightType
    BY ManifestAssumption DEF NewFlight, FlightType, Places
<1> QED BY <1>1 DEF FlightType, Places

(* Ended: only a prepared flight keeps what it found, and only an answer of   *)
(* upstream is left to be saved.                                              *)
LEMMA Returns ==
    ASSUME Inv, NEW f \in Flights, NEW v \in 0 .. MaxVersion, NEW result \in {"hit", "stale", "error", "bypass"},
           flight' = [flight EXCEPT ![f] = Ended(f, v, result)],
           flight[f].pc \notin {"idle", "done"}, UNCHANGED world,
           flight[f].strict \/ result = "bypass" => Recent(v, flight[f].exp)
    PROVE  Advances(f)
<1> USE DEF Advances
<1> DEFINE x == Ended(f, v, result)
<1>1. flight \in [Flights -> FlightType] /\ Sound(f)
    BY DEF Inv, TypeOK
<1>2. x \in FlightType /\ x.pc = "done" /\ x.kind = flight[f].kind
    <2>1. flight[f] \in FlightType
        BY <1>1
    <2>2. CASE flight[f].kind = "prepare" /\ result # "error"
        BY <2>1, <2>2, ZenonT(40) DEF Ended, FlightType, Places
    <2>3. CASE ~(flight[f].kind = "prepare" /\ result # "error")
        <3>1. flight[f].kind \in {"none", "get", "refresh", "prepare"}
            BY <2>1 DEF FlightType
        <3>2. CASE flight[f].kind = "prepare"
            BY <2>3, <3>1, <3>2, Emptied DEF Ended
        <3>3. CASE flight[f].kind # "prepare"
            BY <2>3, <3>1, <3>3, Emptied, ZenonT(40) DEF Ended
        <3> QED BY <3>2, <3>3
    <2> QED BY <2>2, <2>3
<1>3. flight'[f] = x
    BY <1>1
<1>4. CASE flight[f].kind = "prepare" /\ result # "error"
    <2>1. /\ x.v = v /\ x.result = result /\ x.strict = flight[f].strict /\ x.once = "off" /\ ~x.failed
          /\ x.pulls = flight[f].pulls
          /\ flight[f].strict \/ result = "bypass" => x.exp = flight[f].exp
        BY <1>1, <1>4 DEF Ended, Sound, Hands, FlightType
    <2>2. \A e \in Nat : Recent(v, e) => Recent(v, e)'
        BY RecentStays DEF Inv
    <2>5. flight[f].exp \in Nat
        BY <1>1 DEF FlightType
    <2>3. Hands(f)'
        BY <1>2, <1>3, <2>1, <2>2, <2>5 DEF Hands, Prepared
    <2>4. Save(f)' /\ Pulls(f)'
        BY <1>1, <1>2, <1>3, <2>1, <1>4 DEF Save, Pulls, Sound, Hands
    <2> QED BY <1>1, <1>2, <1>3, <2>3, <2>4 DEF Sound
<1>5. CASE ~(flight[f].kind = "prepare" /\ result # "error")
    <2>1. /\ x.result \in {"none", "error"} /\ ~x.strict /\ x.once = "off" /\ ~x.failed /\ x.pulls = 0
        BY <1>1, <1>5 DEF Ended, NewFlight
    <2>2. Hands(f)'
        BY <1>2, <1>3, <2>1 DEF Hands, Prepared
    <2>3. Save(f)' /\ Pulls(f)'
        BY <1>1, <1>2, <1>3, <2>1, <1>5 DEF Save, Pulls, Sound
    <2> QED BY <1>1, <1>2, <1>3, <2>2, <2>3 DEF Sound
<1> QED BY <1>4, <1>5

(* A step that writes no row. *)
LEMMA Reads ==
    ASSUME Inv, NEW f \in Flights, UNCHANGED world \/ Stamping, UNCHANGED <<tag, row, front>>,
           flight[f].pc \notin {"idle", "done"}, Advances(f),
           envelope' \in Entry, objects' \subseteq Versions
    PROVE  Inv'
<1>1. Recent(tag.v, tag.exp) => Recent(tag.v, tag.exp)'
    BY RecentStays DEF Inv, TypeOK, Entry
<1>2. /\ \A v \in Versions : Until(v)' = Until(v) /\ Until(v) \in Nat /\ row[v] \in Nat
      /\ lag \in Nat /\ lag' \in Nat /\ lag <= lag'
    BY UntilTyped, UntilGrows DEF Until, world, Stamping, Inv, TypeOK
<1>4. \A v \in Versions : row[v] # 0 => row[v] <= Until(v)' + lag' + TTL
    BY <1>2 DEF Rows, Inv, TTL
<1>3. Rows'
    BY <1>1, <1>4 DEF Rows, Inv
<1> QED BY <1>3, Moves DEF Inv, TypeOK, Open

(* setManifestCache *)
LEMMA EnvelopeTyped ==
    ASSUME TypeOK, NEW f \in Flights, NEW exp \in Nat, SetEnvelope(f, exp)
    PROVE  envelope' \in Entry
BY DEF TypeOK, SetEnvelope, Entry, FlightType

(* What holds of a flight at every place. *)
LEMMA Facts ==
    ASSUME Inv, NEW f \in Flights
    PROVE  /\ flight \in [Flights -> FlightType] /\ flight[f] \in FlightType /\ Sound(f)
           /\ flight[f].v \in 0 .. MaxVersion /\ flight[f].exp \in Nat
           /\ 0 \in 0 .. MaxVersion /\ 0 \in Nat /\ now + TTL \in Nat
           /\ upstream \in Versions /\ upstream \in 0 .. MaxVersion /\ envelope \in Entry
BY ManifestAssumption DEF Inv, TypeOK, FlightType, TTL, Versions

(* A place that a revalidation does not reach is left with nothing to save. *)
LEMMA ReturnsPlain ==
    ASSUME Inv, NEW f \in Flights, NEW result \in {"hit", "stale", "error"}, Return(f, result),
           flight[f].pc \in {"envelope", "tag", "row", "object", "head", "fetch", "read"}, UNCHANGED world
    PROVE  Advances(f)
<1>1. ~flight[f].strict
    BY Facts DEF Sound, Hands
<1> QED BY <1>1, Facts, Returns DEF Return

LEMMA LookupEnvelopeKeeps ==
    ASSUME Inv, NEW f \in Flights, LookupEnvelope(f)
    PROVE  Inv'
<1>1. flight[f].pc = "envelope" /\ UNCHANGED <<world, tag, row, objects, front>>
    BY DEF LookupEnvelope
<1>2. envelope' \in Entry
    BY Facts DEF LookupEnvelope, None, Entry
<1>3. Advances(f)
    <2>1. CASE flight' = [flight EXCEPT ![f] = Ended(f, envelope.v, "hit")]
        <3>1. ~flight[f].strict /\ envelope.v \in 0 .. MaxVersion
            BY <1>1, Facts DEF Sound, Hands, Entry
        <3> QED BY <1>1, <2>1, <3>1, Returns
    <2>2. CASE Return(f, "error")
        BY <1>1, <2>2, ReturnsPlain
    <2>3. CASE Go(f, "tag")
        <3>1. Sound(f)'
            BY <1>1, <2>3, Facts DEF Go, Sound, Hands, Save, Pulls, Prepared, FlightType
        <3> QED BY <2>3, <3>1, Facts DEF Go, Advances, FlightType, Places
    <2> QED BY <2>1, <2>2, <2>3 DEF LookupEnvelope
<1> QED BY <1>1, <1>2, <1>3, Reads DEF Inv, TypeOK

(* A pass that finds nothing. *)
LEMMA Misses ==
    ASSUME Inv, NEW f \in Flights, Miss(f), flight[f].pc \in {"tag", "row", "object"}, UNCHANGED world
    PROVE  Advances(f)
<1>1. CASE Return(f, "error")
    BY <1>1, ReturnsPlain
<1>2. CASE flight' = [flight EXCEPT ![f].pc = "fetch", ![f].v = 0, ![f].exp = 0] /\ flight[f].pass = "revalidate"
    <2>1. /\ flight'[f].pc = "fetch" /\ flight'[f].kind = flight[f].kind /\ flight'[f].strict = flight[f].strict
          /\ flight'[f].result = flight[f].result /\ flight'[f].once = flight[f].once
          /\ flight'[f].failed = flight[f].failed /\ flight'[f].pulls = flight[f].pulls
        BY <1>2, Facts DEF FlightType
    <2>2. Sound(f)'
        BY <1>2, <2>1, Facts DEF Sound, Hands, Save, Pulls, FlightType
    <2>3. flight' \in [Flights -> FlightType]
        <3> DEFINE x == [flight[f] EXCEPT !.pc = "fetch", !.v = 0, !.exp = 0]
        <3>3. flight[f] \in FlightType /\ 0 \in Nat /\ 0 \in 0 .. MaxVersion
            BY Facts
        <3>1. x \in FlightType
            BY <3>3 DEF FlightType, Places
        <3>2. flight' = [flight EXCEPT ![f] = x]
            BY <1>2, Facts
        <3> QED BY <3>1, <3>2, Facts
    <2> QED BY <1>2, <2>1, <2>2, <2>3, Facts DEF Advances
<1>3. CASE /\ flight[f].pass \in {"fresh", "any"}
           /\ flight' = [flight EXCEPT ![f].pass = IF @ = "fresh" THEN "any" ELSE "revalidate",
                            ![f].pc = "tag", ![f].v = 0, ![f].exp = 0]
    <2>1. /\ flight'[f].pc = "tag" /\ flight'[f].kind = flight[f].kind /\ flight'[f].strict = flight[f].strict
          /\ flight'[f].result = flight[f].result /\ flight'[f].once = flight[f].once
          /\ flight'[f].failed = flight[f].failed /\ flight'[f].pulls = flight[f].pulls
        BY <1>3, Facts DEF FlightType
    <2>2. Sound(f)'
        BY <1>3, <2>1, Facts DEF Sound, Hands, Save, Pulls, FlightType
    <2>3. flight' \in [Flights -> FlightType]
        <3> DEFINE x == [flight[f] EXCEPT !.pass = IF @ = "fresh" THEN "any" ELSE "revalidate", !.pc = "tag", !.v = 0, !.exp = 0]
        <3>3. flight[f] \in FlightType /\ 0 \in Nat /\ 0 \in 0 .. MaxVersion
            BY Facts
        <3>1. x \in FlightType
            BY <3>3 DEF FlightType, Places
        <3>2. flight' = [flight EXCEPT ![f] = x]
            BY <1>3, Facts
        <3> QED BY <3>1, <3>2, Facts
    <2> QED BY <1>3, <2>1, <2>2, <2>3, Facts DEF Advances
<1> QED BY <1>1, <1>2, <1>3 DEF Miss

LEMMA ReadTagKeeps ==
    ASSUME Inv, NEW f \in Flights, ReadTag(f)
    PROVE  Inv'
<1>1. flight[f].pc = "tag" /\ UNCHANGED <<world, envelope, tag, row, objects, front>>
    BY DEF ReadTag, stores
<1>2. Advances(f)
    <2>1. CASE UsableTag(f) /\ flight' = [flight EXCEPT ![f].pc = "row", ![f].v = tag.v]
        <3>1. tag.v \in Versions /\ tag.v \in 0 .. MaxVersion
            BY <2>1 DEF UsableTag, Inv, TypeOK, Entry, Versions
        <3>2. Sound(f)'
            BY <1>1, <2>1, <3>1, Facts DEF Sound, Hands, Save, Pulls, Prepared, FlightType
        <3>3. flight' \in [Flights -> FlightType]
            <4> DEFINE x == [flight[f] EXCEPT !.pc = "row", !.v = tag.v]
            <4>3. flight[f] \in FlightType /\ 0 \in Nat /\ 0 \in 0 .. MaxVersion
                BY Facts
            <4>1. x \in FlightType
                BY <4>3, <3>1 DEF FlightType, Places
            <4>2. flight' = [flight EXCEPT ![f] = x]
                BY <2>1, Facts
            <4> QED BY <4>1, <4>2, Facts
        <3> QED BY <2>1, <3>2, <3>3, Facts DEF Advances, FlightType
    <2> QED BY <1>1, <2>1, Misses, ReturnsPlain DEF ReadTag
<1> QED BY <1>1, <1>2, Reads DEF Inv, TypeOK

LEMMA ReadRowKeeps ==
    ASSUME Inv, NEW f \in Flights, ReadRow(f)
    PROVE  Inv'
<1>1. flight[f].pc = "row" /\ UNCHANGED <<world, envelope, tag, row, objects, front>>
    BY DEF ReadRow, stores
<1>2. Advances(f)
    <2>1. CASE flight' = [flight EXCEPT ![f].pc = "object", ![f].exp = row[flight[f].v]]
        <3>1. row[flight[f].v] \in Nat
            BY <1>1, Facts DEF Sound, Hands, Inv, TypeOK
        <3>2. Sound(f)'
            BY <1>1, <2>1, Facts DEF Sound, Hands, Save, Pulls, Prepared, FlightType
        <3>3. flight' \in [Flights -> FlightType]
            <4> DEFINE x == [flight[f] EXCEPT !.pc = "object", !.exp = row[flight[f].v]]
            <4>3. flight[f] \in FlightType /\ 0 \in Nat /\ 0 \in 0 .. MaxVersion
                BY Facts
            <4>1. x \in FlightType
                BY <4>3, <3>1 DEF FlightType, Places
            <4>2. flight' = [flight EXCEPT ![f] = x]
                BY <2>1, Facts
            <4> QED BY <4>1, <4>2, Facts
        <3> QED BY <2>1, <3>2, <3>3, Facts DEF Advances, FlightType
    <2> QED BY <1>1, <2>1, Misses, ReturnsPlain DEF ReadRow
<1> QED BY <1>1, <1>2, Reads DEF Inv, TypeOK

LEMMA ReadObjectKeeps ==
    ASSUME Inv, NEW f \in Flights, ReadObject(f)
    PROVE  Inv'
<1>1. flight[f].pc = "object" /\ UNCHANGED <<world, tag, row, objects, front>>
    BY DEF ReadObject
<1>2. envelope' \in Entry
    BY Facts, EnvelopeTyped DEF ReadObject, Inv
<1>3. Advances(f)
    <2>1. CASE Go(f, "head") /\ flight[f].pass = "revalidate"
        <3>1. Sound(f)'
            BY <1>1, <2>1, Facts DEF Go, Sound, Hands, Save, Pulls, Prepared, FlightType
        <3> QED BY <2>1, <3>1, Facts DEF Go, Advances, FlightType, Places
    <2> QED BY <1>1, <2>1, Misses, ReturnsPlain DEF ReadObject
<1> QED BY <1>1, <1>2, <1>3, Reads DEF Inv, TypeOK

(* Upstream has the digest now. *)
LEMMA Answered ==
    ASSUME Inv, UNCHANGED world
    PROVE  Had(upstream, now)'
BY DEF Inv, TypeOK, Had, Until, world, Versions

LEMMA HeadKeeps ==
    ASSUME Inv, NEW f \in Flights, Head(f)
    PROVE  Inv'
<1>1. flight[f].pc = "head" /\ UNCHANGED <<world, envelope, tag, row, objects, front>>
    BY DEF Head, stores
<1>0. /\ flight[f] \in FlightType /\ 0 \in Nat /\ 0 \in 0 .. MaxVersion /\ now \in Nat /\ Sound(f)
      /\ ~flight[f].strict /\ flight[f].result = "none" /\ flight[f].once = "off" /\ ~flight[f].failed
    BY <1>1, Facts DEF Sound, Hands, Inv, TypeOK
<1>2. CASE upstream = flight[f].v /\ flight' = [flight EXCEPT ![f].asked = now, ![f].pc = "renew"]
    <2> DEFINE x == [flight[f] EXCEPT !.asked = now, !.pc = "renew"]
    <2>1. x \in FlightType
        BY <1>0 DEF FlightType, Places
    <2>2. flight' = [flight EXCEPT ![f] = x]
        BY <1>2, Facts
    <2>3. Sound(f)'
        BY <1>0, <1>1, <1>2, Facts, Answered DEF Sound, Hands, Save, Pulls, FlightType, world
    <2>4. Advances(f)
        BY <2>1, <2>2, <2>3, Facts DEF Advances, FlightType
    <2> QED BY <1>1, <2>4, Reads DEF Inv, TypeOK
<1>3. CASE Return(f, "error")
    <2>1. Advances(f)
        BY <1>1, <1>3, ReturnsPlain
    <2> QED BY <1>1, <2>1, Reads DEF Inv, TypeOK
<1>4. CASE flight' = [flight EXCEPT ![f].pc = "fetch", ![f].v = 0, ![f].exp = 0]
    <2> DEFINE x == [flight[f] EXCEPT !.pc = "fetch", !.v = 0, !.exp = 0]
    <2>1. x \in FlightType
        BY <1>0 DEF FlightType, Places
    <2>2. flight' = [flight EXCEPT ![f] = x]
        BY <1>4, Facts
    <2>3. Sound(f)'
        BY <1>0, <1>1, <1>4, Facts DEF Sound, Hands, Save, Pulls, FlightType
    <2>4. Advances(f)
        BY <2>1, <2>2, <2>3, Facts DEF Advances, FlightType
    <2> QED BY <1>1, <2>4, Reads DEF Inv, TypeOK
<1> QED BY <1>2, <1>3, <1>4 DEF Head

LEMMA RenewKeeps ==
    ASSUME Inv, NEW f \in Flights, Renew(f)
    PROVE  Inv'
<1>1. flight[f].pc = "renew" /\ Stamped(f) /\ UNCHANGED <<envelope, tag, row, objects, front>>
    BY DEF Renew, stores
<1>0. /\ flight[f] \in FlightType /\ 0 \in Nat /\ now + TTL \in Nat /\ Sound(f)
      /\ ~flight[f].strict /\ flight[f].result = "none" /\ flight[f].once = "off" /\ ~flight[f].failed
    BY <1>1, Facts DEF Sound, Hands
<1>2. PICK v \in Versions : v = flight[f].v /\ Had(v, flight[f].asked)
    BY <1>0, <1>1 DEF Sound, Hands, Had
<1>3. Stamping /\ Recent(v, now + TTL)'
    BY <1>1, <1>2, StampRecent DEF Inv
<1> DEFINE p == IF flight[f].kind = "get" THEN flight[f].pulls + 1 ELSE flight[f].pulls
           c == IF flight[f].kind = "prepare" THEN "body" ELSE "saveRow"
           x == [flight[f] EXCEPT !.exp = now + TTL, !.asked = 0, !.strict = TRUE, !.stored = TRUE, !.pc = c, !.pulls = p]
<1>4. p \in Nat /\ c \in Places
    BY Facts DEF FlightType, Places
<1>5. flight' = [flight EXCEPT ![f] = x]
    BY Facts DEF Renew
<1> HIDE DEF p, c
<1>6. x \in FlightType
    BY <1>0, <1>4 DEF FlightType
<1>7. /\ flight'[f].kind = flight[f].kind /\ flight'[f].pc = c /\ flight'[f].v = v
      /\ flight'[f].exp = now + TTL /\ flight'[f].result = "none" /\ flight'[f].once = "off"
      /\ flight'[f].pulls = p /\ flight'[f].failed = flight[f].failed /\ flight'[f].strict
    BY <1>0, <1>2, <1>5, Facts, SMTT(30) DEF FlightType
<1>8. now' = now
    BY <1>3 DEF Stamping
<1>9. Hands(f)'
    BY <1>0, <1>3, <1>7, <1>8 DEF Hands, Prepared, c
<1>10. Save(f)'
    BY <1>0, <1>7 DEF Save
<1>11. Pulls(f)'
    BY <1>0, <1>1, <1>7 DEF Pulls, Sound, p, c, FlightType
<1>12. Advances(f)
    BY <1>5, <1>6, <1>7, <1>9, <1>10, <1>11, Facts DEF Advances, Sound
<1> QED BY <1>1, <1>3, <1>12, Reads DEF Inv, TypeOK

(* A fetch that fails, before upstream's answer or while it is read. *)
LEMMA FetchFailsAdvances ==
    ASSUME Inv, NEW f \in Flights, FetchFails(f), flight[f].pc \in {"fetch", "read"}, UNCHANGED world
    PROVE  Advances(f)
<1>0. /\ flight[f] \in FlightType /\ 0 \in Nat /\ 0 \in 0 .. MaxVersion /\ Sound(f)
      /\ ~flight[f].strict /\ flight[f].result = "none" /\ flight[f].once = "off" /\ ~flight[f].failed
    BY Facts DEF Sound, Hands
<1>1. CASE /\ flight' = [flight EXCEPT ![f].pc = "tag", ![f].pass = "stale", ![f].v = 0, ![f].asked = 0]
           /\ flight[f].kind # "refresh"
    <2> DEFINE x == [flight[f] EXCEPT !.pc = "tag", !.pass = "stale", !.v = 0, !.asked = 0]
    <2>1. x \in FlightType
        BY <1>0 DEF FlightType, Places
    <2>2. flight' = [flight EXCEPT ![f] = x]
        BY <1>1, Facts
    <2>3. Sound(f)'
        BY <1>0, <1>1, Facts DEF Sound, Hands, Save, Pulls, FlightType
    <2> QED BY <2>1, <2>2, <2>3, Facts DEF Advances, FlightType
<1>2. CASE Return(f, "error")
    BY <1>2, ReturnsPlain
<1> QED BY <1>1, <1>2 DEF FetchFails

LEMMA FetchKeeps ==
    ASSUME Inv, NEW f \in Flights, Fetch(f)
    PROVE  Inv'
<1>1. flight[f].pc = "fetch" /\ UNCHANGED <<world, envelope, tag, row, objects, front>>
    BY DEF Fetch, stores
<1>0. /\ flight[f] \in FlightType /\ now \in Nat /\ upstream \in 0 .. MaxVersion /\ Sound(f)
      /\ ~flight[f].strict /\ flight[f].result = "none" /\ flight[f].once = "off" /\ ~flight[f].failed
    BY <1>1, Facts DEF Sound, Hands, Inv, TypeOK
<1>2. CASE flight' = [flight EXCEPT ![f].v = upstream, ![f].asked = now, ![f].pc = "read"]
    <2> DEFINE x == [flight[f] EXCEPT !.v = upstream, !.asked = now, !.pc = "read"]
    <2>1. x \in FlightType
        BY <1>0 DEF FlightType, Places
    <2>2. flight' = [flight EXCEPT ![f] = x]
        BY <1>2, Facts
    <2>3. Sound(f)'
        BY <1>0, <1>1, <1>2, Facts, Answered DEF Sound, Hands, Save, Pulls, FlightType, world
    <2>4. Advances(f)
        BY <2>1, <2>2, <2>3, Facts DEF Advances, FlightType
    <2> QED BY <1>1, <2>4, Reads DEF Inv, TypeOK
<1>3. CASE FetchFails(f)
    BY <1>1, <1>3, FetchFailsAdvances, Reads DEF Inv, TypeOK
<1> QED BY <1>2, <1>3 DEF Fetch

LEMMA ReadBodyKeeps ==
    ASSUME Inv, NEW f \in Flights, ReadBody(f)
    PROVE  Inv'
<1>1. flight[f].pc = "read" /\ UNCHANGED <<envelope, tag, row, objects, front>>
    BY DEF ReadBody, stores
<1>0. /\ flight[f] \in FlightType /\ 0 \in Nat /\ now + TTL \in Nat /\ Sound(f)
      /\ ~flight[f].strict /\ flight[f].result = "none" /\ flight[f].once = "off" /\ ~flight[f].failed
    BY <1>1, Facts DEF Sound, Hands
<1>2. CASE Stamped(f) /\ flight' = [flight EXCEPT ![f].exp = now + TTL, ![f].asked = 0, ![f].pc = "put"]
    <2>1. PICK v \in Versions : v = flight[f].v /\ Had(v, flight[f].asked)
        BY <1>0, <1>1 DEF Sound, Hands, Had
    <2>2. Stamping /\ Recent(v, now + TTL)' /\ now' = now
        BY <1>2, <2>1, StampRecent DEF Inv, Stamping
    <2> DEFINE x == [flight[f] EXCEPT !.exp = now + TTL, !.asked = 0, !.pc = "put"]
    <2>3. x \in FlightType
        BY <1>0 DEF FlightType, Places
    <2>4. flight' = [flight EXCEPT ![f] = x]
        BY <1>2, Facts
    <2>5. Sound(f)'
        BY <1>0, <1>1, <1>2, <2>1, <2>2, Facts DEF Sound, Hands, Save, Pulls, FlightType
    <2>6. Advances(f)
        BY <2>3, <2>4, <2>5, Facts DEF Advances, FlightType
    <2> QED BY <1>1, <2>2, <2>6, Reads DEF Inv, TypeOK
<1>3. CASE FetchFails(f) /\ UNCHANGED world
    BY <1>1, <1>3, FetchFailsAdvances, Reads DEF Inv, TypeOK
<1> QED BY <1>2, <1>3 DEF ReadBody

(* What a flight has in hand stays recent while upstream does nothing. *)
LEMMA StillRecent ==
    ASSUME Inv, NEW f \in Flights, UNCHANGED world, Recent(flight[f].v, flight[f].exp),
           flight'[f].v = flight[f].v, flight'[f].exp = flight[f].exp
    PROVE  Recent(flight[f].v, flight[f].exp)'
BY Facts, RecentStays DEF Inv

LEMMA PutObjectKeeps ==
    ASSUME Inv, NEW f \in Flights, PutObject(f)
    PROVE  Inv'
<1>1. flight[f].pc = "put" /\ UNCHANGED <<world, envelope, tag, row, front>>
    BY DEF PutObject
<1>0. /\ flight[f] \in FlightType /\ Sound(f) /\ Recent(flight[f].v, flight[f].exp)
      /\ ~flight[f].strict /\ flight[f].result = "none" /\ flight[f].once = "off" /\ ~flight[f].failed
    BY <1>1, Facts DEF Sound, Hands
<1>2. PICK stored \in BOOLEAN :
          /\ objects' = IF stored /\ ~flight[f].head THEN objects \cup {flight[f].v} ELSE objects
          /\ flight' = [flight EXCEPT ![f].stored = stored,
                           ![f].pulls = IF flight[f].kind = "get" THEN @ + 1 ELSE @,
                           ![f].pc = IF stored /\ flight[f].kind # "prepare" THEN "saveRow" ELSE "setEnvelope"]
    BY DEF PutObject
<1> DEFINE p == IF flight[f].kind = "get" THEN flight[f].pulls + 1 ELSE flight[f].pulls
           c == IF stored /\ flight[f].kind # "prepare" THEN "saveRow" ELSE "setEnvelope"
           x == [flight[f] EXCEPT !.stored = stored, !.pulls = p, !.pc = c]
<1>3. p \in Nat /\ c \in Places
    BY <1>0 DEF FlightType, Places
<1>4. c \in {"saveRow", "setEnvelope"} /\ (flight[f].kind = "prepare" => c = "setEnvelope")
    OBVIOUS
<1>5. flight' = [flight EXCEPT ![f] = [flight[f] EXCEPT !.stored = stored, !.pulls = p, !.pc = c]]
    BY <1>2, Facts
<1> HIDE DEF c
<1>6. x \in FlightType
    BY <1>0, <1>3 DEF FlightType
<1>7. /\ flight'[f].kind = flight[f].kind /\ flight'[f].pc = c /\ flight'[f].v = flight[f].v
      /\ flight'[f].exp = flight[f].exp /\ flight'[f].result = "none" /\ flight'[f].once = "off"
      /\ flight'[f].pulls = p /\ flight'[f].failed = flight[f].failed /\ flight'[f].strict = flight[f].strict
    BY <1>0, <1>5, Facts DEF FlightType
<1>8. Hands(f)'
    BY <1>0, <1>1, <1>4, <1>7, StillRecent DEF Hands, Prepared
<1>9. Save(f)'
    BY <1>0, <1>7 DEF Save
<1>10. Pulls(f)'
    BY <1>0, <1>1, <1>4, <1>7 DEF Pulls, Sound, FlightType
<1>11. objects' \subseteq Versions
    BY <1>0, <1>2 DEF Inv, TypeOK, Recent
<1>12. Advances(f)
    BY <1>5, <1>6, <1>7, <1>8, <1>9, <1>10, Facts DEF Advances, Sound
<1> QED BY <1>1, <1>11, <1>12, Reads DEF Inv, TypeOK

LEMMA BodyKeeps ==
    ASSUME Inv, NEW f \in Flights, Body(f)
    PROVE  Inv'
<1>1. flight[f].pc = "body" /\ UNCHANGED <<world, tag, row, objects, front>>
    BY DEF Body
<1>0. /\ flight[f] \in FlightType /\ Sound(f) /\ Recent(flight[f].v, flight[f].exp)
      /\ flight[f].strict /\ flight[f].result = "none" /\ flight[f].once = "off" /\ ~flight[f].failed
      /\ 0 \in Nat /\ 0 \in 0 .. MaxVersion
    BY <1>1, Facts DEF Sound, Hands
<1>2. envelope' \in Entry
    BY Facts, EnvelopeTyped DEF Body, Inv
<1>3. CASE flight' = [flight EXCEPT ![f].pc = "fetch", ![f].v = 0, ![f].exp = 0,
                         ![f].strict = FALSE, ![f].stored = FALSE]
    <2> DEFINE x == [flight[f] EXCEPT !.pc = "fetch", !.v = 0, !.exp = 0, !.strict = FALSE, !.stored = FALSE]
    <2>1. x \in FlightType
        BY <1>0 DEF FlightType, Places
    <2>2. flight' = [flight EXCEPT ![f] = x]
        BY <1>3, Facts
    <2>3. Sound(f)'
        BY <1>0, <1>1, <1>3, Facts DEF Sound, Hands, Save, Pulls, FlightType
    <2>4. Advances(f)
        BY <2>1, <2>2, <2>3, Facts DEF Advances, FlightType
    <2> QED BY <1>1, <1>2, <2>4, Reads DEF Inv, TypeOK
<1>4. CASE Return(f, "hit") \/ Return(f, "error")
    <2>1. Advances(f)
        BY <1>0, <1>1, <1>4, Facts, Returns DEF Return
    <2> QED BY <1>1, <1>2, <2>1, Reads DEF Inv, TypeOK
<1> QED BY <1>3, <1>4 DEF Body

LEMMA FinishStoreKeeps ==
    ASSUME Inv, NEW f \in Flights, FinishStore(f)
    PROVE  Inv'
<1>1. /\ flight[f].pc = "setEnvelope" /\ UNCHANGED <<world, tag, row, objects, front>>
      /\ Recent(flight[f].v, flight[f].exp)
    BY Facts DEF FinishStore, Sound, Hands
<1>2. envelope' \in Entry
    BY Facts, EnvelopeTyped DEF FinishStore, Inv
<1>3. Advances(f)
    BY <1>1, Facts, Returns DEF FinishStore, Return
<1> QED BY <1>1, <1>2, <1>3, Reads DEF Inv, TypeOK

-----------------------------------------------------------------------------
(* The rows. *)

(* UpsertManifest with an expiry that is still recent. *)
LEMMA RowWritten ==
    ASSUME Inv, UNCHANGED <<world, tag>>, NEW v \in 0 .. MaxVersion, NEW exp \in Nat, Recent(v, exp),
           row' = [row EXCEPT ![v] = exp]
    PROVE  /\ Rows' /\ row' \in [Versions -> Nat] /\ row'[v] # 0
           /\ \A w \in Versions : row[w] # 0 => row'[w] # 0
<1>1. v \in Versions /\ exp # 0 /\ exp <= Until(v) + lag + TTL /\ row \in [Versions -> Nat]
    BY DEF Recent, Inv, TypeOK
<1>2. lag' = lag /\ \A w \in Versions : Until(w)' = Until(w)
    BY DEF Until, world
<1>3. row' \in [Versions -> Nat] /\ row'[v] # 0 /\ \A w \in Versions : row[w] # 0 => row'[w] # 0
    BY <1>1
<1>4. Recent(tag.v, tag.exp) => Recent(tag.v, tag.exp)'
    BY RecentStays DEF Inv, TypeOK, Entry
<1>5. tag.v # 0 => Recent(tag.v, tag.exp)' /\ row'[tag.v] # 0
    BY <1>3, <1>4 DEF Inv, Rows, Recent
<1>6. \A w \in Versions : row'[w] # 0 => row'[w] <= Until(w)' + lag' + TTL
    BY <1>1, <1>2 DEF Inv, Rows
<1> QED BY <1>3, <1>5, <1>6 DEF Rows

(* UpsertTag for a manifest row that was written. *)
LEMMA TagWritten ==
    ASSUME Inv, UNCHANGED <<world, row>>, NEW v \in 0 .. MaxVersion, NEW exp \in Nat, Recent(v, exp),
           row[v] # 0, tag' = [v |-> v, exp |-> exp]
    PROVE  Rows' /\ tag' \in Entry
<1>1. tag' \in Entry /\ tag'.v = v /\ tag'.exp = exp
    BY DEF Entry
<1>2. lag' = lag /\ \A w \in Versions : Until(w)' = Until(w)
    BY DEF Until, world
<1>3. Recent(v, exp)'
    BY RecentStays DEF Inv
<1>4. Recent(tag.v, tag.exp)'
    BY <1>1, <1>2 DEF Recent
<1> QED BY <1>1, <1>2, <1>4 DEF Rows, Inv

LEMMA RowsKept ==
    ASSUME Inv, UNCHANGED <<world, tag, row>>
    PROVE  Rows'
<1>1. lag' = lag /\ \A w \in Versions : Until(w)' = Until(w)
    BY DEF Until, world
<1> QED BY <1>1 DEF Rows, Inv, Recent

(* A fetch answers after its rows, written or not. *)
LEMMA SkipsRows ==
    ASSUME Inv, NEW f \in Flights, flight[f].pc \in {"saveRow", "saveTag"}, ~flight[f].strict,
           Go(f, "setEnvelope"), UNCHANGED world
    PROVE  Advances(f)
<1>0. /\ flight[f] \in FlightType /\ Sound(f) /\ Recent(flight[f].v, flight[f].exp)
      /\ flight[f].result = "none" /\ flight[f].once = "off" /\ ~flight[f].failed
    BY Facts DEF Sound, Hands
<1>2. flight' = [flight EXCEPT ![f] = [flight[f] EXCEPT !.pc = "setEnvelope"]]
    BY Facts DEF Go
<1>3. [flight[f] EXCEPT !.pc = "setEnvelope"] \in FlightType
    BY <1>0 DEF FlightType, Places
<1>4. /\ flight'[f].kind = flight[f].kind /\ flight'[f].pc = "setEnvelope" /\ flight'[f].v = flight[f].v
      /\ flight'[f].exp = flight[f].exp /\ flight'[f].result = "none" /\ flight'[f].once = "off"
      /\ flight'[f].pulls = flight[f].pulls /\ flight'[f].failed = flight[f].failed
      /\ flight'[f].strict = flight[f].strict
    BY <1>0, <1>2, Facts DEF FlightType
<1>5. Hands(f)'
    BY <1>0, <1>4, StillRecent DEF Hands
<1>6. Save(f)'
    BY <1>0, <1>4 DEF Save
<1>7. Pulls(f)'
    BY <1>0, <1>4 DEF Pulls, Sound
<1> QED BY <1>2, <1>3, <1>4, <1>5, <1>6, <1>7, Facts DEF Advances, Sound

LEMMA SaveRowKeeps ==
    ASSUME Inv, NEW f \in Flights, SaveRow(f)
    PROVE  Inv'
<1>1. flight[f].pc = "saveRow" /\ UNCHANGED <<world, envelope, tag, objects, front>>
    BY DEF SaveRow
<1>0. /\ flight[f] \in FlightType /\ Sound(f) /\ Recent(flight[f].v, flight[f].exp)
      /\ flight[f].result = "none" /\ flight[f].once = "off" /\ ~flight[f].failed
    BY <1>1, Facts DEF Sound, Hands
<1>2. CASE row' = [row EXCEPT ![flight[f].v] = flight[f].exp] /\ Go(f, "saveTag")
    <2>1. /\ Rows' /\ row' \in [Versions -> Nat] /\ row'[flight[f].v] # 0
          /\ \A w \in Versions : row[w] # 0 => row'[w] # 0
        BY <1>0, <1>1, <1>2, Facts, RowWritten
    <2>2. flight' = [flight EXCEPT ![f] = [flight[f] EXCEPT !.pc = "saveTag"]]
        BY <1>2, Facts DEF Go
    <2>3. [flight[f] EXCEPT !.pc = "saveTag"] \in FlightType
        BY <1>0 DEF FlightType, Places
    <2>4. /\ flight'[f].kind = flight[f].kind /\ flight'[f].pc = "saveTag" /\ flight'[f].v = flight[f].v
          /\ flight'[f].exp = flight[f].exp /\ flight'[f].result = "none" /\ flight'[f].once = "off"
          /\ flight'[f].pulls = flight[f].pulls /\ flight'[f].failed = flight[f].failed
          /\ flight'[f].strict = flight[f].strict
        BY <1>0, <2>2, Facts DEF FlightType
    <2>5. Hands(f)'
        BY <1>0, <1>1, <2>1, <2>4, StillRecent DEF Hands
    <2>6. Save(f)'
        BY <1>0, <2>4 DEF Save
    <2>7. Pulls(f)'
        BY <1>0, <1>1, <2>4 DEF Pulls, Sound
    <2>8. Advances(f)
        BY <2>2, <2>3, <2>4, <2>5, <2>6, <2>7, Facts DEF Advances, Sound
    <2> QED BY <1>1, <2>1, <2>8, Moves DEF Inv, TypeOK, Open
<1>3. CASE Return(f, "error") /\ UNCHANGED row
    <2>1. Advances(f)
        BY <1>0, <1>1, <1>3, Facts, Returns DEF Return
    <2> QED BY <1>1, <1>3, <2>1, Reads DEF Inv, TypeOK
<1>4. CASE ~flight[f].strict /\ Go(f, "setEnvelope") /\ UNCHANGED row
    <2>1. Advances(f)
        BY <1>0, <1>1, <1>4, SkipsRows
    <2> QED BY <1>1, <1>4, <2>1, Reads DEF Inv, TypeOK
<1> QED BY <1>2, <1>3, <1>4 DEF SaveRow

LEMMA SaveTagKeeps ==
    ASSUME Inv, NEW f \in Flights, SaveTag(f)
    PROVE  Inv'
<1>1. flight[f].pc = "saveTag" /\ UNCHANGED <<world, envelope, row, objects, front>>
    BY DEF SaveTag
<1>0. /\ flight[f] \in FlightType /\ Sound(f) /\ Recent(flight[f].v, flight[f].exp) /\ row[flight[f].v] # 0
      /\ flight[f].result = "none" /\ flight[f].once = "off" /\ ~flight[f].failed
    BY <1>1, Facts DEF Sound, Hands
<1>2. CASE tag' = [v |-> flight[f].v, exp |-> flight[f].exp] /\ Go(f, AfterRows(f))
    <2>1. Rows' /\ tag' \in Entry
        BY <1>0, <1>1, <1>2, Facts, TagWritten
    <2>2. Advances(f)
        <3>1. CASE flight[f].strict
            <4>1. Go(f, "body")
                BY <1>2, <3>1 DEF AfterRows
            <4>2. flight' = [flight EXCEPT ![f] = [flight[f] EXCEPT !.pc = "body"]]
                BY <4>1, Facts DEF Go
            <4>3. [flight[f] EXCEPT !.pc = "body"] \in FlightType
                BY <1>0 DEF FlightType, Places
            <4>4. /\ flight'[f].kind = flight[f].kind /\ flight'[f].pc = "body" /\ flight'[f].v = flight[f].v
                  /\ flight'[f].exp = flight[f].exp /\ flight'[f].result = "none" /\ flight'[f].once = "off"
                  /\ flight'[f].pulls = flight[f].pulls /\ flight'[f].failed = flight[f].failed
                  /\ flight'[f].strict = flight[f].strict
                BY <1>0, <4>2, Facts DEF FlightType
            <4>5. Hands(f)'
                BY <1>0, <1>1, <3>1, <4>4, StillRecent DEF Hands
            <4>6. Save(f)'
                BY <1>0, <4>4 DEF Save
            <4>7. Pulls(f)'
                BY <1>0, <1>1, <3>1, <4>4 DEF Pulls, Sound
            <4> QED BY <4>2, <4>3, <4>4, <4>5, <4>6, <4>7, Facts DEF Advances, Sound
        <3>2. CASE ~flight[f].strict
            BY <1>0, <1>1, <1>2, <3>2, SkipsRows DEF AfterRows
        <3> QED BY <3>1, <3>2
    <2> QED BY <1>1, <2>1, <2>2, Moves DEF Inv, TypeOK, Open
<1>3. CASE Return(f, "error") /\ UNCHANGED tag
    <2>1. Advances(f)
        BY <1>0, <1>1, <1>3, Facts, Returns DEF Return
    <2> QED BY <1>1, <1>3, <2>1, Reads DEF Inv, TypeOK
<1>4. CASE ~flight[f].strict /\ Go(f, "setEnvelope") /\ UNCHANGED tag
    <2>1. Advances(f)
        BY <1>0, <1>1, <1>4, SkipsRows
    <2> QED BY <1>1, <1>4, <2>1, Reads DEF Inv, TypeOK
<1> QED BY <1>2, <1>3, <1>4 DEF SaveTag

-----------------------------------------------------------------------------
(* The save of a prepared flight. *)

(* A save changes nothing of the flight but its own progress. *)
LEMMA Saves ==
    ASSUME Inv, NEW f \in Flights, flight[f].pc = "done", Prepared(f), flight[f].once # "done",
           UNCHANGED <<world, envelope, objects, front>>,
           NEW once \in {"row", "tag", "done"}, NEW failed \in BOOLEAN, NEW pulls \in Nat,
           flight' = [flight EXCEPT ![f] = [flight[f] EXCEPT !.once = once, !.failed = failed, !.pulls = pulls]],
           pulls = 1, failed => once = "done", once = "tag" => row'[flight[f].v] # 0,
           tag' \in Entry, row' \in [Versions -> Nat], Rows',
           \A w \in Versions : row[w] # 0 => row'[w] # 0
    PROVE  Inv'
<1>0. flight[f] \in FlightType /\ Sound(f) /\ Recent(flight[f].v, flight[f].exp)
    BY Facts DEF Sound, Hands
<1>1. [flight[f] EXCEPT !.once = once, !.failed = failed, !.pulls = pulls] \in FlightType
    BY <1>0 DEF FlightType
<1>2. /\ flight'[f].kind = "prepare" /\ flight'[f].pc = "done" /\ flight'[f].v = flight[f].v
      /\ flight'[f].exp = flight[f].exp /\ flight'[f].result = flight[f].result /\ flight'[f].once = once
      /\ flight'[f].pulls = 1 /\ flight'[f].failed = failed /\ flight'[f].strict = flight[f].strict
      /\ flight[f].kind = "prepare"
    BY <1>0, Facts DEF FlightType, Prepared
<1>3. Prepared(f)'
    BY <1>2 DEF Prepared
<1>4. Hands(f)'
    BY <1>0, <1>2, <1>3, StillRecent DEF Hands
<1>5. Save(f)'
    BY <1>2, <1>3 DEF Save
<1>6. Pulls(f)'
    BY <1>2 DEF Pulls
<1>7. Advances(f)
    BY <1>1, <1>2, <1>4, <1>5, <1>6, Facts DEF Advances, Sound
<1> QED BY <1>2, <1>7, Moves DEF Open, Inv, TypeOK

(* Where a save is, and what it has in hand. *)
LEMMA Saving ==
    ASSUME Inv, NEW f \in Flights, flight[f].once \in {"row", "tag"}
    PROVE  /\ flight[f].pc = "done" /\ Prepared(f) /\ Recent(flight[f].v, flight[f].exp)
           /\ flight[f].pulls = 1 /\ ~flight[f].failed
           /\ flight[f].once = "tag" => row[flight[f].v] # 0
           /\ flight[f].v \in 0 .. MaxVersion /\ flight[f].exp \in Nat
BY Facts DEF Sound, Hands, Save, Pulls, Prepared

LEMMA CommitFailsKeeps ==
    ASSUME Inv, NEW f \in Flights, flight[f].once \in {"row", "tag"}, CommitFails(f),
           UNCHANGED <<world, stores, front>>
    PROVE  Inv'
<1>1. Rows'
    BY RowsKept DEF stores
<1>2. flight[f] \in FlightType /\ flight \in [Flights -> FlightType] /\ flight[f].pulls = 1
    BY Facts, Saving
<1>3. flight' = [flight EXCEPT ![f] = [flight[f] EXCEPT !.once = "done", !.failed = flight[f].strict, !.pulls = 1]]
    BY <1>2, ZenonT(40) DEF CommitFails, FlightType
<1>4. flight[f].strict \in BOOLEAN /\ tag \in Entry /\ row \in [Versions -> Nat]
    BY <1>2 DEF FlightType, Inv, TypeOK
<1> QED BY <1>1, <1>3, <1>4, Saving, Saves DEF stores

LEMMA CommitRowKeeps ==
    ASSUME Inv, NEW f \in Flights, CommitRow(f)
    PROVE  Inv'
<1>1. flight[f].once = "row" /\ UNCHANGED <<world, envelope, tag, objects, front>>
    BY DEF CommitRow
<1>2. CASE row' = [row EXCEPT ![flight[f].v] = flight[f].exp] /\ flight' = [flight EXCEPT ![f].once = "tag"]
    <2>1. /\ Rows' /\ row' \in [Versions -> Nat] /\ row'[flight[f].v] # 0
          /\ \A w \in Versions : row[w] # 0 => row'[w] # 0
        BY <1>1, <1>2, Saving, RowWritten
    <2>2. flight[f] \in FlightType /\ flight \in [Flights -> FlightType] /\ flight[f].pulls = 1 /\ flight[f].failed = FALSE
        BY <1>1, Facts, Saving DEF FlightType
    <2>3. flight' = [flight EXCEPT ![f] = [flight[f] EXCEPT !.once = "tag", !.failed = FALSE, !.pulls = 1]]
        BY <1>2, <2>2 DEF FlightType
    <2>4. tag' \in Entry
        BY <1>1 DEF Inv, TypeOK
    <2> QED BY <1>1, <2>1, <2>3, <2>4, Saving, Saves
<1>3. CASE CommitFails(f) /\ UNCHANGED row
    BY <1>1, <1>3, CommitFailsKeeps DEF stores
<1> QED BY <1>2, <1>3 DEF CommitRow

LEMMA CommitTagKeeps ==
    ASSUME Inv, NEW f \in Flights, CommitTag(f)
    PROVE  Inv'
<1>1. flight[f].once = "tag" /\ UNCHANGED <<world, envelope, row, objects, front>>
    BY DEF CommitTag
<1>2. CASE tag' = [v |-> flight[f].v, exp |-> flight[f].exp] /\ flight' = [flight EXCEPT ![f].once = "done"]
    <2>1. Rows' /\ tag' \in Entry
        BY <1>1, <1>2, Saving, TagWritten
    <2>2. flight[f] \in FlightType /\ flight \in [Flights -> FlightType] /\ flight[f].pulls = 1 /\ flight[f].failed = FALSE
        BY <1>1, Facts, Saving DEF FlightType
    <2>3. flight' = [flight EXCEPT ![f] = [flight[f] EXCEPT !.once = "done", !.failed = FALSE, !.pulls = 1]]
        BY <1>2, <2>2 DEF FlightType
    <2>4. row \in [Versions -> Nat]
        BY DEF Inv, TypeOK
    <2> QED BY <1>1, <2>1, <2>3, <2>4, Saving, Saves
<1>3. CASE CommitFails(f) /\ UNCHANGED tag
    BY <1>1, <1>3, CommitFailsKeeps DEF stores
<1> QED BY <1>2, <1>3 DEF CommitTag

(* sync.Once: the flight has returned, and no save of it has begun. *)
LEMMA FinalizeKeeps ==
    ASSUME Inv, NEW r \in Responses, Finalize(r)
    PROVE  Inv'
<1>0. PICK f \in Flights : f = resp[r].f
    BY DEF Finalize, Inv, Response
<1>1. /\ flight[f].pc = "done" /\ Prepared(f) /\ flight[f].once = "off"
      /\ UNCHANGED <<world, stores, front>>
    BY <1>0 DEF Finalize, Complete, Inv, Response
<1>3. PICK once \in {"row", "done"} : flight' = [flight EXCEPT ![f].once = once, ![f].pulls = @ + 1]
    BY <1>0 DEF Finalize, Complete
<1>2. /\ flight[f] \in FlightType /\ flight \in [Flights -> FlightType] /\ flight[f].pulls = 0
      /\ flight[f].failed = FALSE
    BY <1>1, Facts DEF Sound, Hands, Save, Pulls, Prepared, FlightType
<1>4. flight' = [flight EXCEPT ![f] = [flight[f] EXCEPT !.once = once, !.failed = FALSE, !.pulls = 1]]
    BY <1>3, <1>2 DEF FlightType
<1>5. Rows' /\ tag \in Entry /\ row \in [Versions -> Nat]
    BY <1>1, RowsKept DEF stores, Inv, TypeOK
<1>6. /\ tag' \in Entry /\ row' \in [Versions -> Nat] /\ UNCHANGED <<world, envelope, objects, front>>
      /\ \A w \in Versions : row[w] # 0 => row'[w] # 0
    BY <1>1, <1>5 DEF stores
<1>7. once \in {"row", "tag", "done"} /\ once # "tag" /\ flight[f].once # "done"
    BY <1>1
<1> QED BY <1>1, <1>4, <1>5, <1>6, <1>7, Saves

-----------------------------------------------------------------------------
(* The endpoint. *)

LEMMA WaitingFinite == IsFiniteSet(Waiting) /\ IsFiniteSet(Waiting')
BY ManifestAssumption, FS_Subset DEF Waiting

(* A response nothing happened to. *)
LEMMA ResponseKept ==
    ASSUME Inv, NEW r \in Responses, resp'[r] = resp[r],
           \A f \in Flights : flight'[f] = flight[f] \/ flight[f].kind # "prepare"
    PROVE  Response(r)'
<1>1. Response(r)
    BY DEF Inv
<1>2. CASE resp[r].f \in Flights /\ flight[resp[r].f].kind = "prepare"
    <2>1. flight'[resp[r].f] = flight[resp[r].f]
        BY <1>2
    <2>2. Saved(resp[r].f)' <=> Saved(resp[r].f)
        BY <2>1 DEF Saved, Prepared
    <2> QED BY <1>1, <2>1, <2>2 DEF Response
<1>3. CASE ~(resp[r].f \in Flights /\ flight[resp[r].f].kind = "prepare")
    BY <1>1, <1>3 DEF Response
<1> QED BY <1>2, <1>3

(* Get, Refresh and Prepare. *)
LEMMA Starts ==
    ASSUME Inv, NEW f \in Flights, NEW kind \in {"get", "refresh", "prepare"}, NEW head \in BOOLEAN,
           Start(f, kind, head), UNCHANGED <<world, stores>>
    PROVE  /\ flight' \in [Flights -> FlightType] /\ flight'[f].kind = kind
           /\ \A g \in Flights : Sound(g)'
           /\ \A g \in Flights : flight'[g] = flight[g] \/ flight[g].kind # "prepare"
<1>1. PICK pc \in {"tag", "envelope"}, pass \in {"revalidate", "fresh"} :
          flight' = [flight EXCEPT ![f] = [NewFlight EXCEPT !.kind = kind, !.head = head, !.pc = pc, !.pass = pass]]
    BY DEF Start
<1> DEFINE x == [NewFlight EXCEPT !.kind = kind, !.head = head, !.pc = pc, !.pass = pass]
<1>2. flight \in [Flights -> FlightType] /\ Sound(f) /\ flight[f].kind = "none"
    BY Facts DEF Start, Sound, Pulls
<1>3. NewFlight \in FlightType
    BY ManifestAssumption DEF NewFlight, FlightType, Places
<1>4. x \in FlightType
    BY <1>3 DEF FlightType, Places
<1>5. flight'[f] = x /\ flight' \in [Flights -> FlightType]
    BY <1>1, <1>2, <1>4
<1>6. /\ x.kind = kind /\ x.pc = pc /\ ~x.strict /\ x.result = "none" /\ x.once = "off" /\ ~x.failed /\ x.pulls = 0
    BY DEF NewFlight
<1> HIDE DEF x
<1>7. Hands(f)' /\ Save(f)' /\ Pulls(f)'
    BY <1>5, <1>6 DEF Hands, Save, Pulls
<1>8. ASSUME NEW g \in Flights PROVE Sound(g)'
    <2>1. CASE g = f
        BY <1>7, <2>1 DEF Sound
    <2>2. CASE g # f
        BY <1>1, <1>2, <2>2, Untouched DEF stores
    <2> QED BY <2>1, <2>2
<1> QED BY <1>1, <1>2, <1>5, <1>6, <1>8

LEMMA BackgroundKeeps ==
    ASSUME Inv, NEW f \in Flights, Background(f)
    PROVE  Inv'
<1>1. PICK kind \in {"get", "refresh"} : Start(f, kind, FALSE)
    BY DEF Background
<1>2. UNCHANGED <<world, stores, front>>
    BY DEF Background
<1>3. /\ flight' \in [Flights -> FlightType] /\ \A g \in Flights : Sound(g)'
      /\ \A g \in Flights : flight'[g] = flight[g] \/ flight[g].kind # "prepare"
    BY <1>1, <1>2, Starts
<1>4. TypeOK'
    BY <1>2, <1>3 DEF Inv, TypeOK, world, stores, front
<1>5. Left' /\ Rows'
    BY <1>2, RowsKept DEF Inv, Left, world, stores
<1>6. \A r \in Responses : Response(r)'
    BY <1>2, <1>3, ResponseKept DEF front
<1>7. gate' = Cardinality(Waiting')
    BY <1>2 DEF Inv, Waiting, front
<1> QED BY <1>3, <1>4, <1>5, <1>6, <1>7 DEF Inv

(* The step of one response, which may start a flight. *)
LEMMA Answers ==
    ASSUME Inv, NEW r \in Responses, UNCHANGED <<world, stores>>,
           flight' \in [Flights -> FlightType], \A g \in Flights : Sound(g)',
           \A g \in Flights : flight'[g] = flight[g] \/ flight[g].kind # "prepare",
           NEW y \in ResponseType, resp' = [resp EXCEPT ![r] = y], Response(r)',
           gate' = Cardinality(Waiting')
    PROVE  Inv'
<1>1. TypeOK'
    BY WaitingFinite, FS_CardinalityType DEF Inv, TypeOK, world, stores
<1>2. Left' /\ Rows'
    BY RowsKept DEF Inv, Left, world, stores
<1>3. ASSUME NEW q \in Responses PROVE Response(q)'
    <2>1. CASE q = r
        BY <2>1
    <2>2. CASE q # r
        BY <2>2, ResponseKept DEF Inv, TypeOK
    <2> QED BY <2>1, <2>2
<1> QED BY <1>1, <1>2, <1>3 DEF Inv

(* The gate counts the responses that load. *)
LEMMA GateKept ==
    ASSUME Inv, NEW r \in Responses, NEW y, resp' = [resp EXCEPT ![r] = y],
           resp[r].pc # "wait", y.pc # "wait", gate' = gate
    PROVE  gate' = Cardinality(Waiting')
<1>1. Waiting' = Waiting
    BY DEF Waiting, Inv, TypeOK
<1> QED BY <1>1 DEF Inv

LEMMA GateEntered ==
    ASSUME Inv, NEW r \in Responses, NEW y, resp' = [resp EXCEPT ![r] = y],
           resp[r].pc # "wait", y.pc = "wait", gate' = gate + 1
    PROVE  gate' = Cardinality(Waiting')
<1>1. Waiting' = Waiting \cup {r} /\ r \notin Waiting
    BY DEF Waiting, Inv, TypeOK
<1> QED BY <1>1, WaitingFinite, FS_AddElement DEF Inv

LEMMA GateLeft ==
    ASSUME Inv, NEW r \in Responses, NEW y, resp' = [resp EXCEPT ![r] = y],
           resp[r].pc = "wait", y.pc # "wait", gate' = gate - 1
    PROVE  gate' = Cardinality(Waiting')
<1>1. Waiting' = Waiting \ {r} /\ r \in Waiting
    BY DEF Waiting, Inv, TypeOK
<1> QED BY <1>1, WaitingFinite, FS_RemoveElement DEF Inv

(* A step of a response that starts no flight. *)
LEMMA FlightsKept ==
    ASSUME Inv, UNCHANGED <<world, stores, flight>>
    PROVE  flight' \in [Flights -> FlightType] /\ \A g \in Flights : Sound(g)' /\ flight'[g] = flight[g]
BY Untouched, Facts DEF stores, Inv, TypeOK

LEMMA EmptyResponse ==
    /\ [NewResponse EXCEPT !.pc = "done"] \in ResponseType
    /\ [NewResponse EXCEPT !.pc = "done"].pc = "done"
    /\ [NewResponse EXCEPT !.pc = "done"].counted = 0
    /\ ~[NewResponse EXCEPT !.pc = "done"].spool
<1>1. 0 \in 0 .. 1
    OBVIOUS
<1>2. NewResponse \in ResponseType
    BY <1>1 DEF NewResponse, ResponseType
<1>3. [NewResponse EXCEPT !.pc = "done"] \in ResponseType
    BY <1>2 DEF ResponseType
<1> QED BY <1>3 DEF NewResponse

(* A response that fails leaves nothing behind. *)
LEMMA FailedKeeps ==
    ASSUME Inv, NEW r \in Responses, Failed(r), UNCHANGED <<world, stores, flight>>,
           gate' = IF resp[r].pc = "wait" THEN gate - 1 ELSE gate
    PROVE  Inv'
<1> DEFINE y == [NewResponse EXCEPT !.pc = "done"]
<1>1. resp' = [resp EXCEPT ![r] = y] /\ resp'[r] = y
    BY DEF Failed, Set, Inv, TypeOK
<1>2. y \in ResponseType /\ y.pc = "done" /\ y.counted = 0 /\ ~y.spool
    BY EmptyResponse
<1> HIDE DEF y
<1>3. Response(r)'
    BY <1>1, <1>2 DEF Response
<1>4. gate' = Cardinality(Waiting')
    BY <1>1, <1>2, GateKept, GateLeft
<1> QED BY <1>1, <1>2, <1>3, <1>4, FlightsKept, Answers

LEMMA DispatchKeeps ==
    ASSUME Inv, NEW r \in Responses, NEW head \in BOOLEAN, NEW allowed \in BOOLEAN, Dispatch(r, head, allowed)
    PROVE  Inv'
<1>1. resp[r].pc = "idle" /\ UNCHANGED <<world, stores, flight, gate>>
    BY DEF Dispatch
<1>2. CASE allowed
    <2> DEFINE y == [resp[r] EXCEPT !.head = head, !.pc = "admit"]
    <2>1. resp \in [Responses -> ResponseType] /\ resp[r] \in ResponseType /\ Response(r)
        BY DEF Inv, TypeOK
    <2>2. y \in ResponseType
        BY <2>1 DEF ResponseType
    <2>3. resp' = [resp EXCEPT ![r] = y] /\ resp'[r] = y
        BY <1>2, <2>1 DEF Dispatch, Set
    <2>4. y.pc = "admit" /\ y.counted = resp[r].counted /\ y.spool = resp[r].spool
        BY <2>1 DEF ResponseType
    <2> HIDE DEF y
    <2>5. Response(r)'
        BY <1>1, <2>1, <2>3, <2>4 DEF Response
    <2>6. gate' = Cardinality(Waiting')
        BY <1>1, <2>3, <2>4, GateKept
    <2> QED BY <1>1, <2>2, <2>3, <2>5, <2>6, FlightsKept, Answers
<1>3. CASE ~allowed
    BY <1>1, <1>3, FailedKeeps DEF Dispatch
<1> QED BY <1>2, <1>3

LEMMA AdmitKeeps ==
    ASSUME Inv, NEW r \in Responses, Admit(r)
    PROVE  Inv'
<1>1. resp[r].pc = "admit" /\ gate' = gate + 1 /\ UNCHANGED <<world, stores>>
    BY DEF Admit
<1>2. PICK f \in Flights :
          /\ \/ Start(f, "prepare", resp[r].head)
             \/ flight[f].kind = "prepare" /\ UNCHANGED flight
          /\ Set(r, [resp[r] EXCEPT !.pc = "wait", !.f = f])
    BY DEF Admit
<1> DEFINE y == [resp[r] EXCEPT !.pc = "wait", !.f = f]
<1>3. resp \in [Responses -> ResponseType] /\ resp[r] \in ResponseType /\ Response(r) /\ resp[r].head \in BOOLEAN
    BY DEF Inv, TypeOK, ResponseType
<1>4. /\ flight' \in [Flights -> FlightType] /\ \A g \in Flights : Sound(g)'
      /\ \A g \in Flights : flight'[g] = flight[g] \/ flight[g].kind # "prepare"
      /\ flight'[f].kind = "prepare"
    <2>1. CASE UNCHANGED flight /\ flight[f].kind = "prepare"
        BY <1>1, <2>1, FlightsKept
    <2>2. CASE Start(f, "prepare", resp[r].head)
        <3>1. PICK head \in BOOLEAN : Start(f, "prepare", head)
            BY <1>3, <2>2
        <3> QED BY <1>1, <3>1, Starts
    <2> QED BY <1>2, <2>1, <2>2
<1>5. y \in ResponseType
    BY <1>3 DEF ResponseType
<1>6. resp' = [resp EXCEPT ![r] = y] /\ resp'[r] = y
    BY <1>2, <1>3 DEF Set
<1>7. y.pc = "wait" /\ y.f = f /\ y.counted = resp[r].counted /\ y.spool = resp[r].spool
    BY <1>3 DEF ResponseType
<1> HIDE DEF y
<1>8. Response(r)'
    BY <1>1, <1>3, <1>4, <1>6, <1>7 DEF Response
<1>9. gate' = Cardinality(Waiting')
    BY <1>1, <1>6, <1>7, GateEntered
<1> QED BY <1>1, <1>4, <1>5, <1>6, <1>8, <1>9, Answers

LEMMA LoadedKeeps ==
    ASSUME Inv, NEW r \in Responses, Loaded(r)
    PROVE  Inv'
<1>1. resp[r].pc = "wait" /\ gate' = gate - 1 /\ UNCHANGED <<world, stores, flight>>
    BY DEF Loaded
<1>2. CASE Failed(r)
    BY <1>1, <1>2, FailedKeeps
<1>3. CASE /\ flight[resp[r].f].pc = "done"
           /\ \/ Set(r, [resp[r] EXCEPT !.pc = "complete", !.whole = TRUE, !.spool = ~resp[r].head])
              \/ Set(r, [resp[r] EXCEPT !.pc = "complete"])
    <2>1. resp \in [Responses -> ResponseType] /\ resp[r] \in ResponseType /\ Response(r)
        BY DEF Inv, TypeOK
    <2>2. PICK y \in ResponseType : resp' = [resp EXCEPT ![r] = y] /\ y.pc = "complete" /\ y.f = resp[r].f /\ y.counted = resp[r].counted
        <3> DEFINE w == [resp[r] EXCEPT !.pc = "complete", !.whole = TRUE, !.spool = ~resp[r].head]
                   u == [resp[r] EXCEPT !.pc = "complete"]
        <3>0. (~resp[r].head) \in BOOLEAN
            OBVIOUS
        <3>1. w \in ResponseType /\ u \in ResponseType
            BY <2>1, <3>0 DEF ResponseType
        <3>2. w.pc = "complete" /\ w.f = resp[r].f /\ w.counted = resp[r].counted
            BY <2>1 DEF ResponseType
        <3>3. u.pc = "complete" /\ u.f = resp[r].f /\ u.counted = resp[r].counted
            BY <2>1 DEF ResponseType
        <3>4. resp' = [resp EXCEPT ![r] = w] \/ resp' = [resp EXCEPT ![r] = u]
            BY <1>3 DEF Set
        <3> HIDE DEF w, u
        <3> QED BY <3>1, <3>2, <3>3, <3>4
    <2>3. resp'[r] = y
        BY <2>1, <2>2
    <2>4. Response(r)'
        BY <1>1, <1>3, <2>1, <2>2, <2>3 DEF Response
    <2>5. gate' = Cardinality(Waiting')
        BY <1>1, <2>2, GateLeft
    <2> QED BY <1>1, <2>2, <2>4, <2>5, FlightsKept, Answers
<1> QED BY <1>2, <1>3 DEF Loaded

LEMMA RespondKeeps ==
    ASSUME Inv, NEW r \in Responses, NEW cancelled \in BOOLEAN, Respond(r, cancelled)
    PROVE  Inv'
<1>1. resp[r].pc = "complete" /\ Saved(resp[r].f) /\ UNCHANGED <<world, stores, flight, gate>>
    BY DEF Respond
<1>2. CASE Failed(r)
    BY <1>1, <1>2, FailedKeeps
<1>3. CASE /\ resp[r].whole /\ ~flight[resp[r].f].failed
           /\ Set(r, [resp[r] EXCEPT !.pc = "done", !.counted = @ + 1])
    <2> DEFINE y == [resp[r] EXCEPT !.pc = "done", !.counted = 1]
    <2>1. resp \in [Responses -> ResponseType] /\ resp[r] \in ResponseType /\ Response(r) /\ resp[r].counted = 0
        BY <1>1 DEF Inv, TypeOK, Response, ResponseType
    <2>2. y \in ResponseType
        <3>1. 1 \in 0 .. 1 /\ resp[r] \in ResponseType
            BY <2>1
        <3> QED BY <3>1 DEF ResponseType
    <2>3. resp' = [resp EXCEPT ![r] = y] /\ resp'[r] = y
        BY <1>3, <2>1 DEF Set
    <2>4. y.pc = "done" /\ y.counted = 1 /\ y.f = resp[r].f /\ y.whole
        BY <1>3, <2>1 DEF ResponseType
    <2> HIDE DEF y
    <2>5. Response(r)'
        BY <1>1, <1>3, <2>1, <2>3, <2>4 DEF Response, Saved, Prepared
    <2>6. gate' = Cardinality(Waiting')
        BY <1>1, <2>3, <2>4, GateKept
    <2> QED BY <1>1, <2>2, <2>3, <2>5, <2>6, FlightsKept, Answers
<1> QED BY <1>2, <1>3 DEF Respond

-----------------------------------------------------------------------------
(* The world around, and all steps together. *)

LEMMA WorldKeeps ==
    ASSUME Inv, Push \/ Tick
    PROVE  Inv'
<1>1. UNCHANGED <<stores, flight, front>>
    BY DEF Push, Tick
<1>2. TypeOK' /\ Left'
    <2>1. TypeOK /\ Left
        BY DEF Inv
    <2>2. CASE Push
        <3>1. upstream' \in Versions /\ now' = now /\ lag' = lag /\ upstream \in Versions
            BY <2>1, <2>2, ManifestAssumption DEF TypeOK, Push, Versions
        <3>2. until' \in [Versions -> Nat] /\ \A v \in Versions : until'[v] <= now
            BY <2>1, <2>2, <3>1 DEF TypeOK, Left, Push
        <3> QED BY <1>1, <2>1, <3>1, <3>2 DEF TypeOK, Left, stores, front
    <2>3. CASE Tick
        BY <1>1, <2>1, <2>3 DEF TypeOK, Left, Tick, stores, front
    <2> QED BY <2>2, <2>3
<1>3. Rows'
    <2>1. tag.v \in 0 .. MaxVersion /\ tag.exp \in Nat /\ TypeOK /\ Left /\ Rows
        BY DEF Inv, TypeOK, Entry
    <2>2. tag.v # 0 => Recent(tag.v, tag.exp)'
        <3>1. ASSUME NEW v \in 0 .. MaxVersion, NEW exp \in Nat, Recent(v, exp) PROVE Recent(v, exp)'
            BY <2>1, <3>1, RecentStays
        <3>2. tag' = tag
            BY <1>1 DEF stores
        <3> QED BY <2>1, <3>1, <3>2 DEF Rows, Recent
    <2>3. \A v \in Versions : row[v] # 0 => row[v] <= Until(v)' + lag' + TTL
        BY <2>1, UntilGrows, UntilTyped DEF Rows, TypeOK, TTL
    <2> QED BY <1>1, <2>1, <2>2, <2>3 DEF Rows, stores
<1>4. \A g \in Flights : Sound(g)'
    BY <1>1, Untouched DEF stores
<1>5. \A r \in Responses : Response(r)'
    BY <1>1, ResponseKept DEF front
<1>6. gate' = Cardinality(Waiting')
    BY <1>1 DEF Inv, Waiting, front
<1> QED BY <1>2, <1>3, <1>4, <1>5, <1>6 DEF Inv

(* What the caches lose, no row knows of. *)
LEMMA LossKeeps ==
    ASSUME Inv, InvalidatePackageCache \/ LoseObject
    PROVE  Inv'
<1>1. UNCHANGED <<world, tag, row, flight, front>>
    BY DEF InvalidatePackageCache, LoseObject
<1>2. envelope' \in Entry /\ objects' \subseteq Versions
    BY ManifestAssumption DEF InvalidatePackageCache, LoseObject, Inv, TypeOK, None, Entry
<1>3. TypeOK' /\ Left' /\ Rows'
    BY <1>1, <1>2, RowsKept DEF Inv, TypeOK, Left, world, front
<1>4. \A g \in Flights : Sound(g)'
    BY <1>1, Untouched
<1>5. \A r \in Responses : Response(r)'
    BY <1>1, ResponseKept DEF front
<1>6. gate' = Cardinality(Waiting')
    BY <1>1 DEF Inv, Waiting, front
<1> QED BY <1>3, <1>4, <1>5, <1>6 DEF Inv

LEMMA StutterKeeps ==
    ASSUME Inv, UNCHANGED vars
    PROVE  Inv'
<1>1. UNCHANGED <<world, stores, flight, front>>
    BY DEF vars, world, stores, front
<1>2. TypeOK' /\ Left' /\ Rows'
    BY <1>1, RowsKept DEF Inv, TypeOK, Left, world, stores, front
<1>3. \A g \in Flights : Sound(g)'
    BY <1>1, Untouched DEF stores
<1>4. \A r \in Responses : Response(r)'
    BY <1>1, ResponseKept DEF front
<1>5. gate' = Cardinality(Waiting')
    BY <1>1 DEF Inv, Waiting, front
<1> QED BY <1>2, <1>3, <1>4, <1>5 DEF Inv

LEMMA InvInit ==
    ASSUME Init
    PROVE  Inv
<1>1. NewFlight \in FlightType
    BY ManifestAssumption DEF NewFlight, FlightType, Places
<1>2. NewResponse \in ResponseType
    <2>1. 0 \in 0 .. 1
        OBVIOUS
    <2> QED BY <2>1 DEF NewResponse, ResponseType
<1>3. Waiting = {}
    BY DEF Init, Waiting, NewResponse
<1>4. None \in Entry
    BY ManifestAssumption DEF None, Entry
<1>5. TypeOK
    BY <1>1, <1>2, <1>4, ManifestAssumption DEF Init, TypeOK, Versions
<1>6. Left /\ Rows
    BY DEF Init, Left, Rows, None
<1>7. \A f \in Flights : Sound(f)
    BY DEF Init, NewFlight, Sound, Hands, Save, Pulls, Prepared
<1>8. \A r \in Responses : Response(r)
    BY DEF Init, NewResponse, Response
<1>9. gate = Cardinality(Waiting)
    BY <1>3, FS_EmptySet DEF Init
<1> QED BY <1>5, <1>6, <1>7, <1>8, <1>9 DEF Inv

LEMMA RunFlightKeeps ==
    ASSUME Inv, NEW f \in Flights, RunFlight(f)
    PROVE  Inv'
BY LookupEnvelopeKeeps, ReadTagKeeps, ReadRowKeeps, ReadObjectKeeps, HeadKeeps, RenewKeeps, FetchKeeps, ReadBodyKeeps, PutObjectKeeps,
   SaveRowKeeps, SaveTagKeeps, BodyKeeps, FinishStoreKeeps, CommitRowKeeps, CommitTagKeeps DEF RunFlight

LEMMA AnswerKeeps ==
    ASSUME Inv, NEW r \in Responses, Answer(r)
    PROVE  Inv'
<1>1. CASE GiveUp(r)
    <2>1. Failed(r) /\ UNCHANGED <<world, stores, flight, gate>> /\ resp[r].pc # "wait"
        BY <1>1 DEF GiveUp
    <2> QED BY <2>1, FailedKeeps
<1> QED BY <1>1, AdmitKeeps, LoadedKeeps, FinalizeKeeps, RespondKeeps DEF Answer

LEMMA InvNext ==
    ASSUME Inv, [Next]_vars
    PROVE  Inv'
BY RunFlightKeeps, BackgroundKeeps, AnswerKeeps, DispatchKeeps, WorldKeeps, LossKeeps, StutterKeeps DEF Next, Finished

(* The inductive invariant holds of every step of flights, saves, responses   *)
(* and upstream.                                                              *)
THEOREM InvHolds == Spec => []Inv
BY InvInit, InvNext, PTL DEF Spec

-----------------------------------------------------------------------------
(* Results. *)

(* However flights of the tag overlap, whichever of their writes and of the   *)
(* deferred saves fail and whatever is lost between, a tag row points at a    *)
(* manifest row that was written (SaveRow before SaveTag, CommitRow before    *)
(* CommitTag).                                                                *)
THEOREM TagsResolve == Spec => []TagResolves
<1>1. Inv => TagResolves
    BY DEF Inv, Rows, TagResolves
<1> QED BY <1>1, InvHolds, PTL

(* No tag or manifest row is fresh for longer than the TTL after upstream     *)
(* last had its digest and the longest time an answer took to be stamped:     *)
(* expiries are stamped when the answer has been read, so a save that commits *)
(* late, or over a newer one, prolongs nothing.                               *)
THEOREM FreshStaysRecent == Spec => []FreshIsRecent
<1>1. Inv => FreshIsRecent
    BY DEF Inv, Rows, Recent, FreshIsRecent
<1> QED BY <1>1, InvHolds, PTL

(* The responses that share a prepared manifest save it once and record one   *)
(* upstream pull; a response is counted once, after that save succeeded; the  *)
(* gate counts the responses that load; no spooled body is left behind.       *)
THEOREM SavesOnce == Spec => []SavedOnce
<1>1. ASSUME Inv PROVE PullsCounted
    <2>1. ASSUME NEW f \in Flights
          PROVE  /\ flight[f].pulls <= (IF flight[f].kind = "get" THEN 2 ELSE 1)
                 /\ flight[f].kind = "refresh" => flight[f].pulls = 0
        BY <1>1, Facts DEF Sound, Pulls, FlightType
    <2>2. ASSUME NEW r \in Responses, resp[r].counted > 0
          PROVE  resp[r].whole /\ resp[r].counted = 1 /\ Saved(resp[r].f) /\ ~flight[resp[r].f].failed
        BY <1>1, <2>2 DEF Inv, TypeOK, ResponseType, Response
    <2> QED BY <2>1, <2>2 DEF PullsCounted
<1>2. ASSUME Inv PROVE ResponsesAccounted
    BY <1>2 DEF Inv, TypeOK, ResponseType, Response, Waiting, ResponsesAccounted
<1>3. Inv => SavedOnce
    BY <1>1, <1>2 DEF SavedOnce
<1> QED BY <1>3, InvHolds, PTL
=============================================================================
