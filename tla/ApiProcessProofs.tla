-------------------------- MODULE ApiProcessProofs --------------------------
(***************************************************************************)
(* The configuration, for every file and environment: which layer wins,    *)
(* and that what is accepted can be used.  The lifespan, for every size of *)
(* the pool and any behaviour of the connection: the consumer does not     *)
(* start before LISTEN, and no thread begins a job of a stopped service.   *)
(* And the activity stream of the process, at the end.                     *)
(***************************************************************************)
EXTENDS ApiProcess, ActivityStream, TLAPS, FiniteSetTheorems, SequenceTheorems,
        WellFoundedInduction

-----------------------------------------------------------------------------
(* The configuration: what its layers are.                                 *)

\* An override that adds no entry leaves the entries where they are.
LEMMA UpdatedWithin ==
    ASSUME NEW base, NEW override, NEW S, DOMAIN base = S, DOMAIN override \subseteq S
    PROVE  /\ DOMAIN Updated(base, override) = S
           /\ \A k \in S : Updated(base, override)[k] =
                             IF k \in DOMAIN override THEN override[k] ELSE base[k]
BY DEF Updated

\* The sections, and that the names of ops are none of theirs.
LEMMA FlatSections ==
    DOMAIN Flat = {"database", "camera", "detector", "memory", "entity_memory", "api",
                   "timeline", "activity_stream", "spatial", "alerts", "notifications",
                   "logging", "runtime"}
BY DEF Flat

LEMMA Domains ==
    /\ "ops" \notin DOMAIN Flat
    /\ DOMAIN RetentionDomains \cap DOMAIN RetentionRoot = {}
<1>1. "ops" \notin DOMAIN Flat
  BY FlatSections
<1>2. DOMAIN RetentionDomains \cap DOMAIN RetentionRoot = {}
  BY DEF RetentionDomains, RetentionRoot
<1> QED BY <1>1, <1>2

\* A setting is in a flat section, in the root of the retention or in one of
\* its domains.
LEMMA FlatPath ==
    ASSUME NEW s \in DOMAIN Flat, NEW k
    PROVE  /\ SettingAt(<<s, k>>) = Flat[s][k]
           /\ \A vals : ValueAt(vals, <<s, k>>) = vals[s][k]
           /\ k \in DOMAIN Flat[s] => <<s, k>> \in Paths
<1>1. s # "ops"
  BY Domains
<1>2. SettingAt(<<s, k>>) = Flat[s][k]
  BY <1>1 DEF SettingAt
<1>3. \A vals : ValueAt(vals, <<s, k>>) = vals[s][k]
  BY <1>1 DEF ValueAt
<1>4. ASSUME k \in DOMAIN Flat[s] PROVE <<s, k>> \in Paths
  <2> DEFINE here == {<<s, j>> : j \in DOMAIN Flat[s]}
  <2>1. <<s, k>> \in here
    BY <1>4
  <2>2. here \in {{<<t, j>> : j \in DOMAIN Flat[t]} : t \in DOMAIN Flat}
    OBVIOUS
  <2> HIDE DEF here
  <2> QED BY <2>1, <2>2 DEF Paths, FlatPaths
<1> QED BY <1>2, <1>3, <1>4

LEMMA RootPath ==
    ASSUME NEW k
    PROVE  /\ SettingAt(<<"ops", k>>) = RetentionRoot[k]
           /\ \A vals : ValueAt(vals, <<"ops", k>>) = vals.ops.retention[2][k]
           /\ k \in DOMAIN RetentionRoot => <<"ops", k>> \in Paths
<1>1. SettingAt(<<"ops", k>>) = RetentionRoot[k]
  BY DEF SettingAt
<1>2. \A vals : ValueAt(vals, <<"ops", k>>) = vals.ops.retention[2][k]
  BY DEF ValueAt
<1>3. k \in DOMAIN RetentionRoot => <<"ops", k>> \in Paths
  BY DEF Paths, RootPaths
<1> QED BY <1>1, <1>2, <1>3

LEMMA DomainPath ==
    ASSUME NEW d \in DOMAIN RetentionDomains, NEW k
    PROVE  /\ SettingAt(<<"ops", d, k>>) = RetentionDomains[d][k]
           /\ \A vals : ValueAt(vals, <<"ops", d, k>>) = vals.ops.retention[2][d][2][k]
           /\ k \in DOMAIN RetentionDomains[d] => <<"ops", d, k>> \in Paths
<1>1. SettingAt(<<"ops", d, k>>) = RetentionDomains[d][k]
  BY DEF SettingAt
<1>2. \A vals : ValueAt(vals, <<"ops", d, k>>) = vals.ops.retention[2][d][2][k]
  BY DEF ValueAt
<1>3. ASSUME k \in DOMAIN RetentionDomains[d] PROVE <<"ops", d, k>> \in Paths
  <2> DEFINE here == {<<"ops", d, j>> : j \in DOMAIN RetentionDomains[d]}
  <2>1. <<"ops", d, k>> \in here
    BY <1>3
  <2>2. here \in {{<<"ops", t, j>> : j \in DOMAIN RetentionDomains[t]} :
                    t \in DOMAIN RetentionDomains}
    OBVIOUS
  <2> HIDE DEF here
  <2> QED BY <2>1, <2>2 DEF Paths, DomainPaths
<1> QED BY <1>1, <1>2, <1>3

\* Every path is one of the three.
LEMMA PathCases ==
    ASSUME NEW p \in Paths
    PROVE  \/ \E s \in DOMAIN Flat : \E k \in DOMAIN Flat[s] : p = <<s, k>>
           \/ \E k \in DOMAIN RetentionRoot : p = <<"ops", k>>
           \/ \E d \in DOMAIN RetentionDomains :
                 \E k \in DOMAIN RetentionDomains[d] : p = <<"ops", d, k>>
<1>1. CASE p \in FlatPaths
  <2>1. PICK here \in {{<<s, k>> : k \in DOMAIN Flat[s]} : s \in DOMAIN Flat} : p \in here
    BY <1>1 DEF FlatPaths
  <2>2. PICK s \in DOMAIN Flat : here = {<<s, k>> : k \in DOMAIN Flat[s]}
    BY <2>1
  <2> QED BY <2>1, <2>2
<1>2. CASE p \in RootPaths
  BY <1>2 DEF RootPaths
<1>3. CASE p \in DomainPaths
  <2>1. PICK here \in {{<<"ops", d, k>> : k \in DOMAIN RetentionDomains[d]} :
                        d \in DOMAIN RetentionDomains} : p \in here
    BY <1>3 DEF DomainPaths
  <2>2. PICK d \in DOMAIN RetentionDomains :
           here = {<<"ops", d, k>> : k \in DOMAIN RetentionDomains[d]}
    BY <2>1
  <2> QED BY <2>1, <2>2
<1> QED BY <1>1, <1>2, <1>3 DEF Paths

\* A mapping of values has every setting, whatever it is.
Shaped(vals) ==
    /\ DOMAIN vals = DOMAIN Flat \cup {"ops"}
    /\ \A s \in DOMAIN Flat : DOMAIN vals[s] = DOMAIN Flat[s]
    /\ DOMAIN vals.ops.retention[2] = DOMAIN RetentionRoot \cup DOMAIN RetentionDomains
    /\ \A d \in DOMAIN RetentionDomains :
          DOMAIN vals.ops.retention[2][d][2] = DOMAIN RetentionDomains[d]

\* The content of a mapping.
LEMMA MappingValue == \A m : Mapping(m)[2] = m /\ IsMapping(Mapping(m))
BY DEF Mapping, IsMapping

\* The defaults have every setting, at its default.
LEMMA DefaultsHold ==
    /\ Shaped(DefaultValues)
    /\ \A p \in Paths : ValueAt(DefaultValues, p) = SettingAt(p).default
<1>1. /\ DOMAIN DefaultValues = DOMAIN Flat \cup {"ops"}
      /\ \A s \in DOMAIN Flat : DefaultValues[s] = DefaultsOf(Flat[s])
      /\ DefaultValues.ops.retention[2] = DefaultRetention
  BY Domains, MappingValue DEF DefaultValues, Updated
<1>2. /\ DOMAIN DefaultRetention = DOMAIN RetentionRoot \cup DOMAIN RetentionDomains
      /\ \A k \in DOMAIN RetentionRoot : DefaultRetention[k] = RetentionRoot[k].default
      /\ \A d \in DOMAIN RetentionDomains :
            DefaultRetention[d][2] = DefaultsOf(RetentionDomains[d])
  BY Domains, MappingValue DEF DefaultRetention, Updated, DefaultsOf
<1>3. Shaped(DefaultValues)
  <2>1. \A settings : /\ DOMAIN DefaultsOf(settings) = DOMAIN settings
                      /\ \A k \in DOMAIN settings : DefaultsOf(settings)[k] = settings[k].default
    BY DEF DefaultsOf
  <2>2. \A s \in DOMAIN Flat : DOMAIN DefaultValues[s] = DOMAIN Flat[s]
    BY <1>1, <2>1
  <2>3. \A d \in DOMAIN RetentionDomains :
           DOMAIN DefaultValues.ops.retention[2][d][2] = DOMAIN RetentionDomains[d]
    BY <1>1, <1>2, <2>1
  <2> QED BY <1>1, <1>2, <2>2, <2>3 DEF Shaped
<1>4. ASSUME NEW p \in Paths PROVE ValueAt(DefaultValues, p) = SettingAt(p).default
  <2>1. CASE \E s \in DOMAIN Flat : \E k \in DOMAIN Flat[s] : p = <<s, k>>
    <3>1. PICK s \in DOMAIN Flat : \E k \in DOMAIN Flat[s] : p = <<s, k>>
      BY <2>1
    <3>2. PICK k \in DOMAIN Flat[s] : p = <<s, k>>
      BY <3>1
    <3>3. DefaultValues[s][k] = Flat[s][k].default
      BY <1>1 DEF DefaultsOf
    <3> QED BY <3>2, <3>3, FlatPath
  <2>2. CASE \E k \in DOMAIN RetentionRoot : p = <<"ops", k>>
    BY <2>2, <1>1, <1>2, RootPath
  <2>3. CASE \E d \in DOMAIN RetentionDomains :
                \E k \in DOMAIN RetentionDomains[d] : p = <<"ops", d, k>>
    <3>1. PICK d \in DOMAIN RetentionDomains :
             \E k \in DOMAIN RetentionDomains[d] : p = <<"ops", d, k>>
      BY <2>3
    <3>2. PICK k \in DOMAIN RetentionDomains[d] : p = <<"ops", d, k>>
      BY <3>1
    <3>3. DefaultValues.ops.retention[2][d][2] = DefaultsOf(RetentionDomains[d])
      BY <1>1, <1>2
    <3>4. DefaultValues.ops.retention[2][d][2][k] = RetentionDomains[d][k].default
      BY <3>3 DEF DefaultsOf
    <3> QED BY <3>2, <3>4, DomainPath
  <2> QED BY <2>1, <2>2, <2>3, PathCases
<1> QED BY <1>3, <1>4

\* The environment changes the settings it names, and keeps the shape.
LEMMA OverriddenFacts ==
    ASSUME NEW vals, NEW environ, Shaped(vals)
    PROVE  /\ Shaped(Overridden(environ, vals))
           /\ \A p \in Paths : ValueAt(Overridden(environ, vals), p)
                               = Override(environ, p, ValueAt(vals, p))
<1> DEFINE new == Overridden(environ, vals)
           ret == vals.ops.retention[2]
<1>1. /\ DOMAIN new = DOMAIN Flat \cup {"ops"}
      /\ \A s \in DOMAIN Flat :
            new[s] = [k \in DOMAIN Flat[s] |-> Override(environ, <<s, k>>, vals[s][k])]
      /\ new.ops.retention[2] = OverriddenRetention(environ, ret)
  BY Domains, MappingValue DEF Overridden, Shaped
<1>2. /\ DOMAIN new.ops.retention[2] = DOMAIN RetentionRoot \cup DOMAIN RetentionDomains
      /\ \A k \in DOMAIN RetentionRoot :
            new.ops.retention[2][k] = Override(environ, <<"ops", k>>, ret[k])
      /\ \A d \in DOMAIN RetentionDomains :
            new.ops.retention[2][d][2] =
               [f \in DOMAIN RetentionDomains[d] |-> Override(environ, <<"ops", d, f>>, ret[d][2][f])]
  BY <1>1, Domains, MappingValue DEF OverriddenRetention, Shaped
<1> HIDE DEF new
<1>3. Shaped(new)
  BY <1>1, <1>2 DEF Shaped
<1>4. ASSUME NEW p \in Paths PROVE ValueAt(new, p) = Override(environ, p, ValueAt(vals, p))
  <2>1. CASE \E s \in DOMAIN Flat : \E k \in DOMAIN Flat[s] : p = <<s, k>>
    <3>1. PICK s \in DOMAIN Flat : \E k \in DOMAIN Flat[s] : p = <<s, k>>
      BY <2>1
    <3>2. PICK k \in DOMAIN Flat[s] : p = <<s, k>>
      BY <3>1
    <3>3. new[s][k] = Override(environ, <<s, k>>, vals[s][k])
      BY <1>1
    <3> QED BY <3>2, <3>3, FlatPath
  <2>2. CASE \E k \in DOMAIN RetentionRoot : p = <<"ops", k>>
    BY <2>2, <1>2, RootPath
  <2>3. CASE \E d \in DOMAIN RetentionDomains :
                \E k \in DOMAIN RetentionDomains[d] : p = <<"ops", d, k>>
    <3>1. PICK d \in DOMAIN RetentionDomains :
             \E k \in DOMAIN RetentionDomains[d] : p = <<"ops", d, k>>
      BY <2>3
    <3>2. PICK k \in DOMAIN RetentionDomains[d] : p = <<"ops", d, k>>
      BY <3>1
    <3>3. new.ops.retention[2][d][2][k] = Override(environ, <<"ops", d, k>>, ret[d][2][k])
      BY <1>2
    <3> QED BY <3>2, <3>3, DomainPath
  <2> QED BY <2>1, <2>2, <2>3, PathCases
<1> QED BY <1>3, <1>4 DEF new

\* _build_config changes each setting by its coercion and nothing else.
LEMMA BuiltFacts ==
    ASSUME NEW vals, Shaped(vals)
    PROVE  \A p \in Paths : ValueAt(Built(vals), p) = Coerced(SettingAt(p), ValueAt(vals, p))
<1> DEFINE new == Built(vals)
           ret == vals.ops.retention[2]
<1>1. /\ \A s \in DOMAIN Flat :
            new[s] = [k \in DOMAIN Flat[s] |-> Coerced(Flat[s][k], vals[s][k])]
      /\ new.ops.retention[2] = BuiltRetention(ret)
  BY Domains, MappingValue DEF Built, Shaped
<1>2. /\ \A k \in DOMAIN RetentionRoot :
            new.ops.retention[2][k] = Coerced(RetentionRoot[k], ret[k])
      /\ \A d \in DOMAIN RetentionDomains :
            new.ops.retention[2][d][2] =
               [f \in DOMAIN RetentionDomains[d] |-> Coerced(RetentionDomains[d][f], ret[d][2][f])]
  BY <1>1, Domains, MappingValue DEF BuiltRetention, Shaped
<1> HIDE DEF new
<1>4. ASSUME NEW p \in Paths PROVE ValueAt(new, p) = Coerced(SettingAt(p), ValueAt(vals, p))
  <2>1. CASE \E s \in DOMAIN Flat : \E k \in DOMAIN Flat[s] : p = <<s, k>>
    <3>1. PICK s \in DOMAIN Flat : \E k \in DOMAIN Flat[s] : p = <<s, k>>
      BY <2>1
    <3>2. PICK k \in DOMAIN Flat[s] : p = <<s, k>>
      BY <3>1
    <3>3. new[s][k] = Coerced(Flat[s][k], vals[s][k])
      BY <1>1
    <3> QED BY <3>2, <3>3, FlatPath
  <2>2. CASE \E k \in DOMAIN RetentionRoot : p = <<"ops", k>>
    BY <2>2, <1>2, RootPath
  <2>3. CASE \E d \in DOMAIN RetentionDomains :
                \E k \in DOMAIN RetentionDomains[d] : p = <<"ops", d, k>>
    <3>1. PICK d \in DOMAIN RetentionDomains :
             \E k \in DOMAIN RetentionDomains[d] : p = <<"ops", d, k>>
      BY <2>3
    <3>2. PICK k \in DOMAIN RetentionDomains[d] : p = <<"ops", d, k>>
      BY <3>1
    <3>3. new.ops.retention[2][d][2][k] = Coerced(RetentionDomains[d][k], ret[d][2][k])
      BY <1>2
    <3> QED BY <3>2, <3>3, DomainPath
  <2> QED BY <2>1, <2>2, <2>3, PathCases
<1> QED BY <1>4 DEF new

\* What the file that counts says at p, or the default.
FromFile(file, p) ==
    IF file # NoFile /\ Mentions(file[2], p) THEN ValueAt(SectionsOf(file[2]), p)
    ELSE SettingAt(p).default

\* A known file changes what it mentions, however deep, and nothing else.
LEMMA MergedFacts ==
    ASSUME NEW data, FileKnown(data)
    PROVE  /\ Shaped(Merged(DefaultValues, data))
           /\ \A p \in Paths :
                 ValueAt(Merged(DefaultValues, data), p) =
                    IF Mentions(data, p) THEN ValueAt(SectionsOf(data), p)
                    ELSE SettingAt(p).default
<1> DEFINE old == DefaultValues
           new == Merged(DefaultValues, data)
           said == SectionsOf(data)
           oldRet == old.ops.retention[2]
           newRet == new.ops.retention[2]
           ret == data["ops"][2]["retention"][2]
           retSaid == /\ "ops" \in DOMAIN data /\ data["ops"] # Null
                      /\ "retention" \in DOMAIN data["ops"][2]
                      /\ data["ops"][2]["retention"] # Null
<1>1. /\ Shaped(old) /\ \A p \in Paths : ValueAt(old, p) = SettingAt(p).default
      /\ DOMAIN old = DOMAIN Flat \cup {"ops"}
      /\ \A s \in DOMAIN Flat : DOMAIN old[s] = DOMAIN Flat[s]
      /\ DOMAIN oldRet = DOMAIN RetentionRoot \cup DOMAIN RetentionDomains
      /\ \A d \in DOMAIN RetentionDomains : DOMAIN oldRet[d][2] = DOMAIN RetentionDomains[d]
  BY DefaultsHold DEF Shaped
<1>2. ASSUME NEW s \in DOMAIN data, data[s] # Null
      PROVE  /\ IsMapping(data[s]) /\ DOMAIN data[s][2] \subseteq DOMAIN old[s]
             /\ said[s] = data[s][2]
  BY <1>2 DEF FileKnown, KnownKeys, SectionsOf
<1>3. /\ DOMAIN new = DOMAIN Flat \cup {"ops"}
      /\ \A s \in DOMAIN Flat :
            new[s] = IF s \notin DOMAIN data \/ data[s] = Null THEN old[s]
                     ELSE Updated(old[s], data[s][2])
      /\ new.ops = IF "ops" \notin DOMAIN data \/ data["ops"] = Null THEN old.ops
                   ELSE MergedOps(old.ops, data["ops"][2])
  BY <1>1, Domains DEF Merged
<1>4. newRet = IF retSaid THEN MergedRetention(oldRet, data["ops"][2]["retention"])
               ELSE oldRet
  BY <1>3, MappingValue DEF MergedOps
<1>5. retSaid =>
         /\ DOMAIN ret \subseteq DOMAIN DefaultRetention
         /\ \A d \in DOMAIN ret \cap DOMAIN RetentionDomains :
               ret[d] # Null => DOMAIN ret[d][2] \subseteq DOMAIN RetentionDomains[d]
  BY DEF FileKnown, RetentionKnown, KnownKeys
<1>6. /\ DOMAIN newRet = DOMAIN oldRet
      /\ \A k \in DOMAIN RetentionRoot :
            newRet[k] = IF retSaid /\ k \in DOMAIN ret THEN ret[k] ELSE oldRet[k]
      /\ \A d \in DOMAIN RetentionDomains :
            newRet[d][2] = IF retSaid /\ d \in DOMAIN ret /\ ret[d] # Null
                           THEN Updated(oldRet[d][2], ret[d][2]) ELSE oldRet[d][2]
  <2>1. CASE retSaid
    <3>1. newRet = MergedRetention(oldRet, data["ops"][2]["retention"])
      BY <2>1, <1>4
    <3>2. /\ DOMAIN newRet = DOMAIN oldRet
          /\ \A k \in DOMAIN RetentionRoot :
                newRet[k] = IF k \in DOMAIN ret THEN ret[k] ELSE oldRet[k]
      BY <3>1, <1>1, Domains DEF MergedRetention
    <3>3. ASSUME NEW d \in DOMAIN RetentionDomains
          PROVE  newRet[d][2] = IF d \in DOMAIN ret /\ ret[d] # Null
                                THEN Updated(oldRet[d][2], ret[d][2]) ELSE oldRet[d][2]
      BY <3>1, <1>1, MappingValue DEF MergedRetention
    <3> QED BY <2>1, <3>2, <3>3
  <2>2. CASE ~retSaid
    BY <2>2, <1>4
  <2> QED BY <2>1, <2>2
<1> HIDE DEF old, new, said
<1>7. ASSUME NEW s \in DOMAIN Flat
      PROVE  /\ DOMAIN new[s] = DOMAIN Flat[s]
             /\ \A k \in DOMAIN Flat[s] :
                   new[s][k] = IF s \in DOMAIN data /\ data[s] # Null /\ k \in DOMAIN data[s][2]
                               THEN said[s][k] ELSE old[s][k]
  <2>1. CASE s \notin DOMAIN data \/ data[s] = Null
    BY <2>1, <1>1, <1>3
  <2>2. CASE s \in DOMAIN data /\ data[s] # Null
    <3>1. new[s] = Updated(old[s], data[s][2]) /\ said[s] = data[s][2]
      BY <2>2, <1>2, <1>3
    <3>2. DOMAIN data[s][2] \subseteq DOMAIN Flat[s] /\ DOMAIN old[s] = DOMAIN Flat[s]
      BY <2>2, <1>1, <1>2
    <3>3. /\ DOMAIN Updated(old[s], data[s][2]) = DOMAIN Flat[s]
          /\ \A k \in DOMAIN Flat[s] :
                Updated(old[s], data[s][2])[k] =
                   IF k \in DOMAIN data[s][2] THEN data[s][2][k] ELSE old[s][k]
      <4> DEFINE base == old[s]
                 override == data[s][2]
                 S == DOMAIN Flat[s]
      <4>1. DOMAIN base = S /\ DOMAIN override \subseteq S
        BY <3>2
      <4> HIDE DEF base, override, S
      <4>2. /\ DOMAIN Updated(base, override) = S
            /\ \A k \in S : Updated(base, override)[k] =
                              IF k \in DOMAIN override THEN override[k] ELSE base[k]
        BY <4>1, UpdatedWithin
      <4> QED BY <4>2 DEF base, override, S
    <3> QED BY <2>2, <3>1, <3>3
  <2> QED BY <2>1, <2>2
<1>8. ASSUME NEW d \in DOMAIN RetentionDomains
      PROVE  /\ DOMAIN newRet[d][2] = DOMAIN RetentionDomains[d]
             /\ \A k \in DOMAIN RetentionDomains[d] :
                   newRet[d][2][k] =
                      IF retSaid /\ d \in DOMAIN ret /\ ret[d] # Null /\ k \in DOMAIN ret[d][2]
                      THEN ret[d][2][k] ELSE oldRet[d][2][k]
  <2>1. CASE retSaid /\ d \in DOMAIN ret /\ ret[d] # Null
    <3>1. newRet[d][2] = Updated(oldRet[d][2], ret[d][2])
      BY <2>1, <1>6
    <3>2. DOMAIN ret[d][2] \subseteq DOMAIN RetentionDomains[d]
          /\ DOMAIN oldRet[d][2] = DOMAIN RetentionDomains[d]
      BY <2>1, <1>1, <1>5
    <3> DEFINE base == oldRet[d][2]
               override == ret[d][2]
               S == DOMAIN RetentionDomains[d]
    <3>3. DOMAIN base = S /\ DOMAIN override \subseteq S
      BY <3>2
    <3>4. newRet[d][2] = Updated(base, override)
      BY <3>1
    <3>5. \A k \in S : (retSaid /\ d \in DOMAIN ret /\ ret[d] # Null /\ k \in DOMAIN ret[d][2])
                        <=> k \in DOMAIN override
      BY <2>1
    <3> SUFFICES
          /\ DOMAIN newRet[d][2] = S
          /\ \A k \in S : newRet[d][2][k] = IF k \in DOMAIN override THEN override[k] ELSE base[k]
      BY <3>5
    <3> HIDE DEF base, override, S, newRet
    <3> QED BY <3>3, <3>4, UpdatedWithin
  <2>2. CASE ~ (retSaid /\ d \in DOMAIN ret /\ ret[d] # Null)
    BY <2>2, <1>1, <1>6
  <2> QED BY <2>1, <2>2
<1>9. Shaped(new)
  BY <1>1, <1>3, <1>6, <1>7, <1>8 DEF Shaped
<1>10. retSaid => said.ops.retention[2] = ret
  BY <1>2
<1>11. ASSUME NEW p \in Paths
       PROVE  ValueAt(new, p) = IF Mentions(data, p) THEN ValueAt(said, p) ELSE ValueAt(old, p)
  <2>1. CASE \E s \in DOMAIN Flat : \E k \in DOMAIN Flat[s] : p = <<s, k>>
    <3>1. PICK s \in DOMAIN Flat : \E k \in DOMAIN Flat[s] : p = <<s, k>>
      BY <2>1
    <3>2. PICK k \in DOMAIN Flat[s] : p = <<s, k>>
      BY <3>1
    <3>3. Mentions(data, p) <=> s \in DOMAIN data /\ data[s] # Null /\ k \in DOMAIN data[s][2]
      BY <3>2, Domains DEF Mentions
    <3> QED BY <1>7, <3>2, <3>3, FlatPath
  <2>2. CASE \E k \in DOMAIN RetentionRoot : p = <<"ops", k>>
    <3>1. PICK k \in DOMAIN RetentionRoot : p = <<"ops", k>>
      BY <2>2
    <3>2. Mentions(data, p) <=> retSaid /\ k \in DOMAIN ret
      BY <3>1 DEF Mentions
    <3>3. /\ ValueAt(new, p) = newRet[k] /\ ValueAt(old, p) = oldRet[k]
          /\ ValueAt(said, p) = said.ops.retention[2][k]
      BY <3>1, RootPath
    <3> QED BY <1>6, <1>10, <3>2, <3>3
  <2>3. CASE \E d \in DOMAIN RetentionDomains :
                \E k \in DOMAIN RetentionDomains[d] : p = <<"ops", d, k>>
    <3>1. PICK d \in DOMAIN RetentionDomains :
             \E k \in DOMAIN RetentionDomains[d] : p = <<"ops", d, k>>
      BY <2>3
    <3>2. PICK k \in DOMAIN RetentionDomains[d] : p = <<"ops", d, k>>
      BY <3>1
    <3>3. Mentions(data, p) <=>
             retSaid /\ d \in DOMAIN ret /\ ret[d] # Null /\ k \in DOMAIN ret[d][2]
      BY <3>2 DEF Mentions
    <3>4. newRet[d][2][k] = IF Mentions(data, p) THEN ret[d][2][k] ELSE oldRet[d][2][k]
      BY <1>8, <3>3
    <3>5. ValueAt(new, p) = newRet[d][2][k] /\ ValueAt(old, p) = oldRet[d][2][k]
      BY <3>2, DomainPath
    <3>6. Mentions(data, p) => ValueAt(said, p) = ret[d][2][k]
      <4>1. ValueAt(said, p) = said.ops.retention[2][d][2][k]
        BY <3>2, DomainPath
      <4> QED BY <1>10, <3>3, <4>1
    <3> QED BY <3>4, <3>5, <3>6
  <2> QED BY <2>1, <2>2, <2>3, PathCases
<1> QED BY <1>1, <1>9, <1>11 DEF new, said

\* Every default is written as its setting is read, and needs no coercion.
WellMade(setting) ==
    /\ setting.type \in {"number", "threshold"} => ~IsInt(setting.default)
    /\ Written(setting.default)

\* The constructors of settings make such settings.
LEMMA SettingsWellMade ==
    /\ \A default \in Int : \A low, high : WellMade(Whole(default, low, high))
    /\ \A default \in Int : \A low, high : WellMade(Number(default, low, high))
    /\ \A default \in Int : \A high : WellMade(Positive(default, high))
    /\ \A default \in Int : WellMade(Threshold(default))
    /\ \A default : WellMade(Name(default))
    /\ \A default, choices : WellMade(OneOf(default, choices))
    /\ WellMade(On) /\ WellMade(Off)
<1> USE DEF WellMade, Written, IsInt, Setting
<1>1. \A default \in Int : \A low, high : WellMade(Whole(default, low, high))
  BY DEF Whole, Integer
<1>2. \A default \in Int : \A low, high : WellMade(Number(default, low, high))
  BY DEF Number, Float
<1>3. \A default \in Int : WellMade(Threshold(default))
  BY DEF Threshold, Float
<1>4. \A default : WellMade(Name(default))
  BY DEF Name, Text
<1>5. \A default, choices : WellMade(OneOf(default, choices))
  BY DEF OneOf, Text
<1>6. WellMade(On)
  BY DEF On, Bool
<1>7. WellMade(Off)
  BY DEF Off, Bool
<1> HIDE DEF WellMade
<1>8. \A default \in Int : \A high : WellMade(Positive(default, high))
  BY <1>2 DEF Positive
<1> QED BY <1>1, <1>2, <1>3, <1>4, <1>5, <1>6, <1>7, <1>8

\* Section by section.
LEMMA FlatWellMade ==
    ASSUME NEW s \in DOMAIN Flat, NEW k \in DOMAIN Flat[s] PROVE WellMade(Flat[s][k])
<1> USE SettingsWellMade
<1>1. \A j \in DOMAIN DatabaseSettings : WellMade(DatabaseSettings[j])
  BY DEF DatabaseSettings
<1>2. \A j \in DOMAIN CameraSettings : WellMade(CameraSettings[j])
  BY DEF CameraSettings
<1>3. \A j \in DOMAIN DetectorSettings : WellMade(DetectorSettings[j])
  BY DEF DetectorSettings
<1>4. \A j \in DOMAIN MemorySettings : WellMade(MemorySettings[j])
  BY DEF MemorySettings
<1>5. \A j \in DOMAIN EntityMemorySettings : WellMade(EntityMemorySettings[j])
  BY DEF EntityMemorySettings
<1>6. \A j \in DOMAIN ApiSettings : WellMade(ApiSettings[j])
  BY DEF ApiSettings
<1>7. \A j \in DOMAIN TimelineSettings : WellMade(TimelineSettings[j])
  BY DEF TimelineSettings
<1>8. \A j \in DOMAIN StreamSettings : WellMade(StreamSettings[j])
  BY DEF StreamSettings
<1>9. \A j \in DOMAIN SpatialSettings : WellMade(SpatialSettings[j])
  BY DEF SpatialSettings
<1>10. \A j \in DOMAIN AlertSettings : WellMade(AlertSettings[j])
  BY DEF AlertSettings
<1>11. \A j \in DOMAIN NotificationSettings : WellMade(NotificationSettings[j])
  BY DEF NotificationSettings
<1>12. \A j \in DOMAIN LoggingSettings : WellMade(LoggingSettings[j])
  BY DEF LoggingSettings
<1>13. \A j \in DOMAIN RuntimeSettings : WellMade(RuntimeSettings[j])
  BY DEF RuntimeSettings
<1> QED
  BY <1>1, <1>2, <1>3, <1>4, <1>5, <1>6, <1>7, <1>8, <1>9, <1>10, <1>11, <1>12, <1>13,
     FlatSections DEF Flat

LEMMA RootWellMade ==
    ASSUME NEW k \in DOMAIN RetentionRoot PROVE WellMade(RetentionRoot[k])
BY SettingsWellMade DEF RetentionRoot

\* A policy is a switch and a number of days.
LEMMA DomainSettings ==
    ASSUME NEW d \in DOMAIN RetentionDomains
    PROVE  /\ "enabled" \in DOMAIN RetentionDomains[d]
           /\ RetentionDomains[d]["enabled"] = Off
           /\ \A k \in DOMAIN RetentionDomains[d] \ {"enabled"} :
                 \E days, most \in Nat : RetentionDomains[d][k] = Whole(days, 1, most)
<1>1. ASSUME NEW keep, NEW days \in Nat
      PROVE  /\ "enabled" \in DOMAIN Policy(keep, days)
             /\ Policy(keep, days)["enabled"] = Off
             /\ \A k \in DOMAIN Policy(keep, days) \ {"enabled"} :
                   Policy(keep, days)[k] = Whole(days, 1, 3650)
  BY DEF Policy
<1>2. \E keep, days : days \in Nat /\ RetentionDomains[d] = Policy(keep, days)
  BY DEF RetentionDomains
<1> QED BY <1>1, <1>2

LEMMA DomainWellMade ==
    ASSUME NEW d \in DOMAIN RetentionDomains, NEW k \in DOMAIN RetentionDomains[d]
    PROVE  WellMade(RetentionDomains[d][k])
<1>1. WellMade(Off) /\ \A days, most \in Nat : WellMade(Whole(days, 1, most))
  BY SettingsWellMade
<1> QED BY <1>1, DomainSettings

LEMMA PathsWellMade == \A p \in Paths : WellMade(SettingAt(p))
BY PathCases, FlatPath, RootPath, DomainPath, FlatWellMade, RootWellMade, DomainWellMade

\* What a variable sets is a value of its setting, and needs no coercion.
LEMMA ParsedFacts ==
    ASSUME NEW type, NEW spelt, Written(spelt), Parsed(type, spelt) # {}
    PROVE  \E v : /\ Parsed(type, spelt) = {v}
                  /\ Written(v)
                  /\ type \in {"number", "threshold"} => ~IsInt(v)
<1> USE DEF Parsed, Written, IsInt, IsNumber, Float, Integer, Bool, Text
<1>1. CASE type = "int"
  BY <1>1
<1>2. CASE type \in {"number", "threshold"}
  <2>1. CASE IsInt(spelt)
    <3>1. Parsed(type, spelt) = {Float(spelt[2])}
      BY <1>2, <2>1
    <3>2. Written(Float(spelt[2])) /\ ~IsInt(Float(spelt[2]))
      BY <2>1
    <3> HIDE DEF Parsed, Written, Float, IsInt
    <3> QED BY <3>1, <3>2
  <2>2. CASE ~IsInt(spelt)
    BY <1>2, <2>2
  <2> QED BY <2>1, <2>2
<1>3. CASE type = "flag"
  <2>1. CASE spelt[1] = "bool"
    BY <1>3, <2>1
  <2>2. CASE spelt[1] # "bool"
    <3>1. spelt \in {Integer(0), Integer(1)} /\ Parsed(type, spelt) = {Bool(spelt = Integer(1))}
      BY <1>3, <2>2
    <3>2. Bool(spelt = Integer(1)) \in {Bool(TRUE), Bool(FALSE)}
      BY DEF Bool
    <3> QED BY <1>3, <3>1, <3>2
  <2> QED BY <2>1, <2>2
<1>4. CASE type \notin {"int", "number", "threshold", "flag"}
  <2>1. Parsed(type, spelt) = IF spelt[1] = "text" THEN {spelt} ELSE {Text("other")}
    BY <1>4
  <2>2. Written(Text("other"))
    OBVIOUS
  <2> HIDE DEF Parsed, Written, Text
  <2> QED BY <1>4, <2>1, <2>2
<1> QED BY <1>1, <1>2, <1>3, <1>4

\* The value of a setting after the environment has been read.
LastLayer(i, p) == Override(i.environ, p, FromFile(ConfigFile(i.files), p))

\* The file that counts is none, or a mapping of which each name is known.
FileRead(i) ==
    \/ ConfigFile(i.files) = NoFile
    \/ /\ IsMapping(ConfigFile(i.files))
       /\ FileKnown(ConfigFile(i.files)[2])

\* What the last layer says is a value that _build_config may be given.
LEMMA LastLayerFacts ==
    ASSUME NEW i \in Inputs, FileRead(i), EnvironmentKnown(i.environ), NEW p \in Paths
    PROVE  /\ p \in DOMAIN i.environ =>
                 /\ LastLayer(i, p) \in Parsed(SettingAt(p).type, i.environ[p])
                 /\ Coerced(SettingAt(p), LastLayer(i, p)) = LastLayer(i, p)
           /\ Written(LastLayer(i, p))
<1> DEFINE file == ConfigFile(i.files)
           spelt == i.environ[p]
           type == SettingAt(p).type
<1>1. CASE p \in DOMAIN i.environ
  <2>1. Parsed(type, spelt) # {} /\ Written(spelt)
    BY <1>1, InputsAssumption DEF EnvironmentKnown
  <2>2. PICK v : /\ Parsed(type, spelt) = {v} /\ Written(v)
                 /\ type \in {"number", "threshold"} => ~IsInt(v)
    BY <2>1, ParsedFacts
  <2>3. LastLayer(i, p) = v
    BY <1>1, <2>2 DEF LastLayer, Override
  <2> QED BY <1>1, <2>2, <2>3 DEF Coerced
<1>2. CASE p \notin DOMAIN i.environ
  <2>1. LastLayer(i, p) = FromFile(file, p)
    BY <1>2 DEF LastLayer, Override
  <2>2. CASE file # NoFile /\ Mentions(file[2], p)
    BY <1>2, <2>1, <2>2, InputsAssumption DEF FileRead, FromFile
  <2>3. CASE ~(file # NoFile /\ Mentions(file[2], p))
    BY <1>2, <2>1, <2>3, PathsWellMade DEF FromFile, WellMade
  <2> QED BY <2>2, <2>3
<1> QED BY <1>1, <1>2

\* A value that _validate lets pass, as _build_config makes it.
Accepts(setting, w) ==
    \E v : Satisfies(setting, v) /\ Written(v) /\ w = Coerced(setting, v)

\* The limit of settings that have none.
LEMMA LimitIsInt == NoLimit \in Int
BY SMT DEF NoLimit

\* What an accepted setting of each type is.
LEMMA WholeAccepted ==
    ASSUME NEW d, NEW low \in Int, NEW high \in Int, NEW w, Accepts(Whole(d, low, high), w)
    PROVE  w[2] \in low..high /\ ~LessThan(w, low)
BY DEF Accepts, Whole, Setting, Satisfies, Written, Coerced, IsInt, LessThan

LEMMA WholeAtLeast ==
    ASSUME NEW d, NEW low \in Int, NEW high \in Int, NEW w, Accepts(Whole(d, low, high), w)
    PROVE  w[2] >= low
BY WholeAccepted

LEMMA NumberAccepted ==
    ASSUME NEW d, NEW low \in Int, NEW high, NEW w, Accepts(Number(d, low, high), w)
    PROVE  /\ ~LessThan(w, low)
           /\ w[1] \notin {"nan", "inf"} => w[1] = "float" /\ w[2] \in Int /\ w[2] >= low
<1>1. PICK v : /\ IsNumber(v) /\ ~LessThan(v, low) /\ Written(v)
               /\ w = IF IsInt(v) THEN Float(v[2]) ELSE v
  BY DEF Accepts, Number, Setting, Satisfies, Coerced
<1> QED BY <1>1 DEF IsNumber, LessThan, Written, IsInt, Float

LEMMA ThresholdAccepted ==
    ASSUME NEW d, NEW w, Accepts(Threshold(d), w) PROVE w[2] \in 0..100
<1>1. PICK v : v[2] \in 0..100 /\ w = IF IsInt(v) THEN Float(v[2]) ELSE v
  BY DEF Accepts, Threshold, Setting, Satisfies, Coerced
<1> QED BY <1>1 DEF Float

LEMMA ChoiceAccepted ==
    ASSUME NEW d, NEW choices, NEW w, Accepts(OneOf(d, choices), w)
    PROVE  \E c \in choices : w = Text(c)
BY DEF Accepts, OneOf, Setting, Satisfies, Coerced, Written, Text

\* A switch is one of the two booleans.
LEMMA SwitchAccepted ==
    ASSUME NEW setting \in {On, Off}, NEW v, Satisfies(setting, v), Written(v)
    PROVE  /\ Coerced(setting, v) = v
           /\ v \in {Bool(TRUE), Bool(FALSE)}
           /\ v[2] <=> v = Bool(TRUE)
           /\ ~v[2] <=> v = Bool(FALSE)
<1>1. setting.type = "flag"
  <2>1. \A default : Setting("flag", default, 0, 0, {}).type = "flag"
    BY DEF Setting
  <2> QED BY <2>1 DEF On, Off
<1>2. Coerced(setting, v) = v
  BY <1>1 DEF Coerced
<1>3. v \in {Bool(TRUE), Bool(FALSE)}
  BY <1>1 DEF Satisfies, Written
<1>4. CASE v = Bool(TRUE)
  BY <1>2, <1>3, <1>4 DEF Bool
<1>5. CASE v = Bool(FALSE)
  BY <1>2, <1>3, <1>5 DEF Bool
<1> QED BY <1>3, <1>4, <1>5

\* The order of two settings does not depend on their coercion.
LEMMA CoercedOrder ==
    ASSUME NEW s1, NEW s2, NEW v, NEW w
    PROVE  Exceeds(Coerced(s1, v), Coerced(s2, w)) <=> Exceeds(v, w)
BY DEF Exceeds, GreaterThan, Coerced, IsInt, Float

LEMMA OrderedWholes ==
    ASSUME NEW v, NEW w, NEW d1, NEW d2, NEW low \in Int, NEW high \in Int,
           Accepts(Whole(d1, low, high), v), Accepts(Whole(d2, low, high), w), ~Exceeds(v, w)
    PROVE  v[2] \in low..w[2]
BY DEF Accepts, Whole, Setting, Satisfies, Written, Coerced, IsInt, Exceeds, GreaterThan

LEMMA OrderedFloats ==
    ASSUME NEW v, NEW w, v[1] = "float", w[1] = "float", v[2] \in Int, w[2] \in Int,
           NEW low \in Int, v[2] >= low, ~Exceeds(v, w)
    PROVE  v[2] \in low..w[2]
BY DEF Exceeds, GreaterThan

\* The rules of _validate imply what the constructors and services demand.
LEMMA ValidUsable ==
    ASSUME NEW vals, Shaped(vals), Valid(vals),
           \A p \in Paths : Written(ValueAt(vals, p))
    PROVE  /\ ConstructorsAccept(Built(vals))
           /\ Finite(Built(vals)) => Unmet(Built(vals)) \subseteq NotValidated
<1> DEFINE new == Built(vals)
           ret == new.ops.retention[2]
<1>1. \A p \in Paths : /\ Satisfies(SettingAt(p), ValueAt(vals, p))
                       /\ Written(ValueAt(vals, p))
                       /\ ValueAt(new, p) = Coerced(SettingAt(p), ValueAt(vals, p))
  BY BuiltFacts DEF Valid
<1> HIDE DEF new
<1>2. ASSUME NEW s \in DOMAIN Flat, NEW k \in DOMAIN Flat[s]
      PROVE  /\ Accepts(Flat[s][k], new[s][k])
             /\ new[s][k] = Coerced(Flat[s][k], vals[s][k])
  <2>1. <<s, k>> \in Paths /\ SettingAt(<<s, k>>) = Flat[s][k]
    BY FlatPath
  <2>2. ValueAt(vals, <<s, k>>) = vals[s][k] /\ ValueAt(new, <<s, k>>) = new[s][k]
    BY FlatPath
  <2>3. /\ Satisfies(Flat[s][k], vals[s][k]) /\ Written(vals[s][k])
        /\ new[s][k] = Coerced(Flat[s][k], vals[s][k])
    BY <1>1, <2>1, <2>2
  <2> QED BY <2>3 DEF Accepts
<1>3. ASSUME NEW s \in DOMAIN Flat, NEW k \in DOMAIN Flat[s], Finite(new)
      PROVE  new[s][k][1] \notin {"nan", "inf"}
  <2>1. <<s, k>> \in Paths /\ ValueAt(new, <<s, k>>) = new[s][k]
    BY FlatPath
  <2> QED BY <1>3, <2>1 DEF Finite
<1>4. ASSUME NEW o \in Ordered PROVE ~Exceeds(new[o[1]][o[2]], new[o[1]][o[3]])
  <2>1. o[1] \in DOMAIN Flat /\ o[2] \in DOMAIN Flat[o[1]] /\ o[3] \in DOMAIN Flat[o[1]]
    BY DEF Ordered, Flat, ApiSettings, TimelineSettings, StreamSettings, NotificationSettings
  <2>2. ~Exceeds(vals[o[1]][o[2]], vals[o[1]][o[3]])
    BY DEF Valid, InOrder
  <2> QED BY <1>2, <2>1, <2>2, CoercedOrder
<1>5. MemoryAccepts(new.memory)
  <2>1. /\ "memory" \in DOMAIN Flat
        /\ "iou_threshold" \in DOMAIN Flat["memory"]
        /\ "max_missed_frames" \in DOMAIN Flat["memory"]
        /\ Flat["memory"]["iou_threshold"] = Threshold(30)
        /\ Flat["memory"]["max_missed_frames"] = Whole(8, 0, NoLimit)
    BY DEF Flat, MemorySettings
  <2>2. /\ Accepts(Threshold(30), new["memory"]["iou_threshold"])
        /\ Accepts(Whole(8, 0, NoLimit), new["memory"]["max_missed_frames"])
    BY <1>2, <2>1
  <2> QED BY <2>2, ThresholdAccepted, WholeAccepted, LimitIsInt DEF MemoryAccepts
<1>6. SpatialAccepts(new.spatial, new.camera)
  <2> DEFINE counts == {"enter_confirm_observations", "exit_confirm_observations",
                        "maximum_zones_per_camera"}
             times == {"lost_track_timeout_seconds", "occupancy_stale_seconds"}
  <2>1. /\ "spatial" \in DOMAIN Flat /\ "camera" \in DOMAIN Flat
        /\ counts \cup times \subseteq DOMAIN Flat["spatial"]
        /\ {"width", "height"} \subseteq DOMAIN Flat["camera"]
        /\ \A k \in counts : \E d, high \in Int : Flat["spatial"][k] = Whole(d, 1, high)
        /\ \A k \in times : \E d : Flat["spatial"][k] = Positive(d, 3600)
        /\ \A k \in {"width", "height"} : \E d \in Int : Flat["camera"][k] = Whole(d, 1, NoLimit)
    BY LimitIsInt DEF Flat, SpatialSettings, CameraSettings
  <2>2. ASSUME NEW k \in counts PROVE ~LessThan(new["spatial"][k], 1)
    <3>1. PICK d, high \in Int : Flat["spatial"][k] = Whole(d, 1, high)
      BY <2>1
    <3>2. Accepts(Whole(d, 1, high), new["spatial"][k])
      BY <1>2, <2>1, <3>1
    <3> QED BY <3>2, WholeAccepted
  <2>3. ASSUME NEW k \in times PROVE ~LessThan(new["spatial"][k], 1)
    <3>1. PICK d : Flat["spatial"][k] = Positive(d, 3600)
      BY <2>1
    <3>2. Accepts(Number(d, 1, 3600), new["spatial"][k])
      BY <1>2, <2>1, <3>1 DEF Positive
    <3> QED BY <3>2, NumberAccepted
  <2>4. ASSUME NEW k \in {"width", "height"} PROVE ~LessThan(new["camera"][k], 1)
    <3>1. PICK d \in Int : Flat["camera"][k] = Whole(d, 1, NoLimit)
      BY <2>1
    <3>2. Accepts(Whole(d, 1, NoLimit), new["camera"][k])
      BY <1>2, <2>1, <3>1
    <3> QED BY <3>2, WholeAccepted, LimitIsInt
  <2> QED BY <2>2, <2>3, <2>4 DEF SpatialAccepts
<1>7. EntityMemoryAccepts(new.entity_memory) /\ IdentityMatcherKnown(new.entity_memory)
  <2>1. /\ "entity_memory" \in DOMAIN Flat
        /\ "snapshot_min_interval_seconds" \in DOMAIN Flat["entity_memory"]
        /\ "identity_strategy" \in DOMAIN Flat["entity_memory"]
        /\ Flat["entity_memory"]["snapshot_min_interval_seconds"] = Number(0, 0, NoLimit)
        /\ Flat["entity_memory"]["identity_strategy"] = OneOf("tracker_id", {"tracker_id"})
    BY DEF Flat, EntityMemorySettings
  <2>2. /\ Accepts(Number(0, 0, NoLimit), new["entity_memory"]["snapshot_min_interval_seconds"])
        /\ Accepts(OneOf("tracker_id", {"tracker_id"}), new["entity_memory"]["identity_strategy"])
    BY <1>2, <2>1
  <2>3. ~LessThan(new["entity_memory"]["snapshot_min_interval_seconds"], 0)
    BY <2>2, NumberAccepted
  <2>4. new["entity_memory"]["identity_strategy"] = Text("tracker_id")
    BY <2>2, ChoiceAccepted
  <2> QED BY <2>3, <2>4 DEF EntityMemoryAccepts, IdentityMatcherKnown
<1>8. PublisherAccepts(new.activity_stream) /\ BrokerAccepts(new.activity_stream)
  <2> DEFINE channels == {"jarvis_activity", "other"}
  <2>1. /\ "activity_stream" \in DOMAIN Flat
        /\ "notify_channel" \in DOMAIN Flat["activity_stream"]
        /\ "observation_min_interval_seconds" \in DOMAIN Flat["activity_stream"]
        /\ "client_queue_size" \in DOMAIN Flat["activity_stream"]
        /\ "max_connections" \in DOMAIN Flat["activity_stream"]
        /\ Flat["activity_stream"]["notify_channel"] = OneOf("jarvis_activity", channels)
        /\ Flat["activity_stream"]["observation_min_interval_seconds"] = Number(1, 0, NoLimit)
        /\ Flat["activity_stream"]["client_queue_size"] = Whole(100, 1, NoLimit)
        /\ Flat["activity_stream"]["max_connections"] = Whole(25, 1, NoLimit)
    BY DEF Flat, StreamSettings
  <2>2. /\ Accepts(OneOf("jarvis_activity", channels), new["activity_stream"]["notify_channel"])
        /\ Accepts(Number(1, 0, NoLimit), new["activity_stream"]["observation_min_interval_seconds"])
        /\ Accepts(Whole(100, 1, NoLimit), new["activity_stream"]["client_queue_size"])
        /\ Accepts(Whole(25, 1, NoLimit), new["activity_stream"]["max_connections"])
    BY <1>2, <2>1
  <2>3. new["activity_stream"]["notify_channel"] \in {Text("jarvis_activity"), Text("other")}
    BY <2>2, ChoiceAccepted
  <2>4. ~LessThan(new["activity_stream"]["observation_min_interval_seconds"], 0)
    BY <2>2, NumberAccepted
  <2>5. /\ ~LessThan(new["activity_stream"]["client_queue_size"], 1)
        /\ ~LessThan(new["activity_stream"]["max_connections"], 1)
    BY <2>2, WholeAccepted, LimitIsInt
  <2> QED BY <2>3, <2>4, <2>5 DEF PublisherAccepts, BrokerAccepts
<1>10. ASSUME NEW d \in DOMAIN RetentionDomains, NEW k \in DOMAIN RetentionDomains[d]
       PROVE  LET v == vals.ops.retention[2][d][2][k]
              IN  /\ Satisfies(RetentionDomains[d][k], v) /\ Written(v)
                  /\ ret[d][2][k] = Coerced(RetentionDomains[d][k], v)
  <2>1. /\ <<"ops", d, k>> \in Paths
        /\ SettingAt(<<"ops", d, k>>) = RetentionDomains[d][k]
    BY DomainPath
  <2>2. /\ ValueAt(vals, <<"ops", d, k>>) = vals.ops.retention[2][d][2][k]
        /\ ValueAt(new, <<"ops", d, k>>) = ret[d][2][k]
    BY DomainPath
  <2> QED BY <1>1, <2>1, <2>2
<1>9. ASSUME Finite(new)
      PROVE  /\ DefaultPagesServed(new) /\ ReconnectionsWait(new) /\ RetriesWait(new)
             /\ RowsKept(new) /\ DeletionHasDomain(new)
  <2>1. ASSUME NEW s \in {"api", "timeline"}
        PROVE  new[s].default_limit[2] \in 1..new[s].maximum_limit[2]
    <3>1. /\ s \in DOMAIN Flat
          /\ "default_limit" \in DOMAIN Flat[s] /\ "maximum_limit" \in DOMAIN Flat[s]
          /\ Flat[s]["default_limit"] = Whole(50, 1, NoLimit)
          /\ Flat[s]["maximum_limit"] = Whole(200, 1, NoLimit)
      BY DEF Flat, ApiSettings, TimelineSettings
    <3>2. /\ Accepts(Whole(50, 1, NoLimit), new[s]["default_limit"])
          /\ Accepts(Whole(200, 1, NoLimit), new[s]["maximum_limit"])
      BY <1>2, <3>1
    <3>3. ~Exceeds(new[s]["default_limit"], new[s]["maximum_limit"])
      <4>1. <<s, "default_limit", "maximum_limit">> \in Ordered
        BY DEF Ordered
      <4> QED BY <1>4, <4>1
    <3> QED BY <3>2, <3>3, WholeAccepted, OrderedWholes, LimitIsInt
  <2>2. ASSUME NEW o \in Ordered, NEW d1 \in Int, NEW d2 \in Int,
               Flat[o[1]][o[2]] = Positive(d1, NoLimit),
               Flat[o[1]][o[3]] = Positive(d2, NoLimit),
               o[1] \in DOMAIN Flat, o[2] \in DOMAIN Flat[o[1]], o[3] \in DOMAIN Flat[o[1]]
        PROVE  new[o[1]][o[2]][2] \in 1..new[o[1]][o[3]][2]
    <3>1. /\ Accepts(Number(d1, 1, NoLimit), new[o[1]][o[2]])
          /\ Accepts(Number(d2, 1, NoLimit), new[o[1]][o[3]])
      BY <1>2, <2>2 DEF Positive
    <3>2. /\ new[o[1]][o[2]][1] \notin {"nan", "inf"}
          /\ new[o[1]][o[3]][1] \notin {"nan", "inf"}
      BY <1>3, <1>9, <2>2
    <3>3. ~Exceeds(new[o[1]][o[2]], new[o[1]][o[3]])
      BY <1>4
    <3> QED BY <3>1, <3>2, <3>3, NumberAccepted, OrderedFloats
  <2>3. new["activity_stream"].reconnect_initial_seconds[2]
          \in 1..new["activity_stream"].reconnect_max_seconds[2]
    <3>1. /\ "activity_stream" \in DOMAIN Flat
          /\ "reconnect_initial_seconds" \in DOMAIN Flat["activity_stream"]
          /\ "reconnect_max_seconds" \in DOMAIN Flat["activity_stream"]
          /\ Flat["activity_stream"]["reconnect_initial_seconds"] = Positive(1, NoLimit)
          /\ Flat["activity_stream"]["reconnect_max_seconds"] = Positive(30, NoLimit)
      BY DEF Flat, StreamSettings
    <3>2. <<"activity_stream", "reconnect_initial_seconds", "reconnect_max_seconds">> \in Ordered
      BY DEF Ordered
    <3> QED BY <2>2, <3>1, <3>2
  <2>4. /\ "notifications" \in DOMAIN Flat
        /\ "initial_backoff_seconds" \in DOMAIN Flat["notifications"]
        /\ "max_backoff_seconds" \in DOMAIN Flat["notifications"]
        /\ "backoff_multiplier" \in DOMAIN Flat["notifications"]
        /\ Flat["notifications"]["initial_backoff_seconds"] = Positive(30, NoLimit)
        /\ Flat["notifications"]["max_backoff_seconds"] = Positive(1800, NoLimit)
        /\ Flat["notifications"]["backoff_multiplier"] = Positive(2, NoLimit)
    BY DEF Flat, NotificationSettings
  <2>5. new["notifications"].initial_backoff_seconds[2]
          \in 1..new["notifications"].max_backoff_seconds[2]
    <3>1. <<"notifications", "initial_backoff_seconds", "max_backoff_seconds">> \in Ordered
      BY DEF Ordered
    <3> QED BY <2>2, <2>4, <3>1
  <2>6. /\ new["notifications"]["backoff_multiplier"][2] \in Int
        /\ new["notifications"]["backoff_multiplier"][2] >= 1
    <3>1. Accepts(Number(2, 1, NoLimit), new["notifications"]["backoff_multiplier"])
      BY <1>2, <2>4 DEF Positive
    <3>2. new["notifications"]["backoff_multiplier"][1] \notin {"nan", "inf"}
      BY <1>3, <1>9, <2>4
    <3> QED BY <3>1, <3>2, NumberAccepted
  <2>7. new["notifications"].initial_backoff_seconds[2]
           * new["notifications"].backoff_multiplier[2]
        >= new["notifications"].initial_backoff_seconds[2]
    <3>1. \A a, b \in Int : a >= 1 /\ b >= 1 => a * b >= a
      OBVIOUS
    <3> QED BY <2>5, <2>6, <3>1
  <2>8. ASSUME NEW d \in DOMAIN RetentionDomains,
               NEW k \in DOMAIN RetentionDomains[d] \ {"enabled"}
        PROVE  ret[d][2][k][2] >= 1
    <3>1. PICK days, most \in Nat : RetentionDomains[d][k] = Whole(days, 1, most)
      BY DomainSettings
    <3>2. Accepts(Whole(days, 1, most), ret[d][2][k])
      BY <1>10, <3>1 DEF Accepts
    <3>3. \A w : Accepts(Whole(days, 1, most), w) => w[2] >= 1
      <4> TAKE w
      <4> HAVE Accepts(Whole(days, 1, most), w)
      <4> QED BY WholeAtLeast
    <3> QED BY <3>2, <3>3
  <2>9. ret.enabled[2] /\ ~ret.dry_run[2]
        => \E d \in DOMAIN RetentionDomains : ret[d][2].enabled[2]
    <3> DEFINE old == vals.ops.retention[2]
    <3>1. /\ RetentionRoot["enabled"] = Off /\ "enabled" \in DOMAIN RetentionRoot
          /\ RetentionRoot["dry_run"] = On /\ "dry_run" \in DOMAIN RetentionRoot
      BY DEF RetentionRoot
    <3>2. /\ Satisfies(Off, old["enabled"]) /\ Written(old["enabled"])
          /\ ret["enabled"] = Coerced(Off, old["enabled"])
      BY <1>1, <3>1, RootPath
    <3>3. /\ Satisfies(On, old["dry_run"]) /\ Written(old["dry_run"])
          /\ ret["dry_run"] = Coerced(On, old["dry_run"])
      BY <1>1, <3>1, RootPath
    <3>4. \A d \in DOMAIN RetentionDomains :
             /\ Satisfies(Off, old[d][2]["enabled"]) /\ Written(old[d][2]["enabled"])
             /\ ret[d][2]["enabled"] = Coerced(Off, old[d][2]["enabled"])
      BY <1>10, DomainSettings
    <3>5. SUFFICES ASSUME ret.enabled[2], ~ret.dry_run[2]
                   PROVE  \E d \in DOMAIN RetentionDomains : ret[d][2].enabled[2]
      OBVIOUS
    <3>6. old.enabled = Bool(TRUE)
      BY <3>2, <3>5, SwitchAccepted
    <3>7. old.dry_run = Bool(FALSE)
      BY <3>3, <3>5, SwitchAccepted
    <3>8. PICK d \in DOMAIN RetentionDomains : old[d][2].enabled = Bool(TRUE)
      BY <3>6, <3>7 DEF Valid, DestructiveHasDomain, DomainsEnabled
    <3>9. ret[d][2].enabled[2]
      BY <3>4, <3>8, SwitchAccepted
    <3> QED BY <3>9
  <2> QED
    BY <2>1, <2>3, <2>5, <2>7, <2>8, <2>9
    DEF DefaultPagesServed, ReconnectionsWait, RetriesWait, RowsKept, DeletionHasDomain
<1>11. ASSUME Finite(new) PROVE Unmet(new) \subseteq NotValidated
  BY <1>9, <1>11 DEF Unmet, Demand, NotValidated
<1> QED BY <1>5, <1>6, <1>7, <1>8, <1>11 DEF ConstructorsAccept, new

\* What load_app_config has computed at each stage.
LoaderInv ==
    /\ stage # "built" => input \in Inputs
    /\ stage = "defaults" => values = DefaultValues
    /\ stage = "merged" =>
          /\ FileRead(input) /\ Shaped(values)
          /\ \A p \in Paths : ValueAt(values, p) = FromFile(ConfigFile(input.files), p)
    /\ stage = "overridden" =>
          /\ FileRead(input) /\ EnvironmentKnown(input.environ) /\ Shaped(values)
          /\ \A p \in Paths : ValueAt(values, p) = LastLayer(input, p)
    /\ LastLayerWins
    /\ AcceptedIsUsable

\* The loader begins with the defaults.
LEMMA InitLoader == LoaderInit => LoaderInv
BY DEF LoaderInit, LoaderInv, LastLayerWins, AcceptedIsUsable

\* A refusal, which leaves no stage to speak of.
LEMMA RefuseLoader ==
    ASSUME LoaderInv, stage # "built", Refuse PROVE LoaderInv'
BY DEF Refuse, LoaderInv, LastLayerWins, AcceptedIsUsable

\* The file, if there is one, is merged into the defaults.
LEMMA ReadFileLoader ==
    ASSUME LoaderInv, ReadFile PROVE LoaderInv'
<1> DEFINE file == ConfigFile(input.files)
<1>1. stage = "defaults" /\ values = DefaultValues /\ input \in Inputs
  BY DEF ReadFile, LoaderInv
<1>2. CASE Refuse
  BY <1>1, <1>2, RefuseLoader
<1>3. CASE file = NoFile
  <2>1. stage' = "merged" /\ UNCHANGED <<input, values>>
    BY <1>3 DEF ReadFile
  <2>2. /\ FileRead(input) /\ Shaped(values)
        /\ \A p \in Paths : ValueAt(values, p) = FromFile(file, p)
    <3>1. FileRead(input)
      BY <1>3 DEF FileRead
    <3>2. \A p \in Paths : FromFile(file, p) = SettingAt(p).default
      BY <1>3 DEF FromFile
    <3> QED BY <1>1, <3>1, <3>2, DefaultsHold
  <2> QED BY <1>1, <2>1, <2>2 DEF LoaderInv, LastLayerWins, AcceptedIsUsable
<1>4. CASE file # NoFile /\ IsMapping(file) /\ FileKnown(file[2])
  <2>1. values' = Merged(values, file[2]) /\ stage' = "merged" /\ UNCHANGED input
    BY <1>4 DEF ReadFile
  <2>2. /\ Shaped(Merged(DefaultValues, file[2]))
        /\ \A p \in Paths : ValueAt(Merged(DefaultValues, file[2]), p) = FromFile(file, p)
    BY <1>4, MergedFacts DEF FromFile
  <2>3. FileRead(input)
    BY <1>4 DEF FileRead
  <2> QED BY <1>1, <2>1, <2>2, <2>3 DEF LoaderInv, LastLayerWins, AcceptedIsUsable
<1> QED BY <1>2, <1>3, <1>4 DEF ReadFile

\* The variables are laid over the file.
LEMMA ReadEnvironmentLoader ==
    ASSUME LoaderInv, ReadEnvironment PROVE LoaderInv'
<1>1. /\ stage = "merged" /\ input \in Inputs /\ FileRead(input) /\ Shaped(values)
      /\ \A p \in Paths : ValueAt(values, p) = FromFile(ConfigFile(input.files), p)
  BY DEF ReadEnvironment, LoaderInv
<1>2. CASE Refuse
  BY <1>1, <1>2, RefuseLoader
<1>3. CASE EnvironmentKnown(input.environ)
  <2>1. values' = Overridden(input.environ, values) /\ stage' = "overridden" /\ UNCHANGED input
    BY <1>3 DEF ReadEnvironment
  <2>2. /\ Shaped(Overridden(input.environ, values))
        /\ \A p \in Paths :
              ValueAt(Overridden(input.environ, values), p) = LastLayer(input, p)
    BY <1>1, OverriddenFacts DEF LastLayer
  <2> QED BY <1>1, <1>3, <2>1, <2>2 DEF LoaderInv, LastLayerWins, AcceptedIsUsable
<1> QED BY <1>2, <1>3 DEF ReadEnvironment

\* What passes the rules is built, and is usable.
LEMMA ValidateLoader ==
    ASSUME LoaderInv, Validate PROVE LoaderInv'
<1> DEFINE file == ConfigFile(input.files)
<1>1. /\ stage = "overridden" /\ input \in Inputs /\ FileRead(input)
      /\ EnvironmentKnown(input.environ) /\ Shaped(values)
      /\ \A p \in Paths : ValueAt(values, p) = LastLayer(input, p)
  BY DEF Validate, LoaderInv
<1>2. CASE Refuse
  BY <1>1, <1>2, RefuseLoader
<1>3. CASE Valid(values)
  <2>1. values' = Built(values) /\ stage' = "accepted" /\ UNCHANGED input
    BY <1>3 DEF Validate
  <2>2. \A p \in Paths : ValueAt(Built(values), p) = Coerced(SettingAt(p), LastLayer(input, p))
    BY <1>1, BuiltFacts
  <2>3. ASSUME NEW p \in Paths
        PROVE  IF p \in DOMAIN input.environ
               THEN ValueAt(Built(values), p) \in Parsed(SettingAt(p).type, input.environ[p])
               ELSE ValueAt(Built(values), p) =
                       IF file # NoFile /\ Mentions(file[2], p)
                       THEN Coerced(SettingAt(p), ValueAt(SectionsOf(file[2]), p))
                       ELSE SettingAt(p).default
    <3>1. CASE p \in DOMAIN input.environ
      BY <1>1, <2>2, <3>1, LastLayerFacts
    <3>2. CASE p \notin DOMAIN input.environ
      <4>1. LastLayer(input, p) = FromFile(file, p)
        BY <3>2 DEF LastLayer, Override
      <4>2. Coerced(SettingAt(p), SettingAt(p).default) = SettingAt(p).default
        BY PathsWellMade DEF WellMade, Coerced
      <4> QED BY <2>2, <3>2, <4>1, <4>2 DEF FromFile
    <3> QED BY <3>1, <3>2
  <2>4. LastLayerWins'
    BY <2>1, <2>3 DEF LastLayerWins
  <2>5. \A p \in Paths : Written(ValueAt(values, p))
    BY <1>1, LastLayerFacts
  <2>6. AcceptedIsUsable'
    BY <1>1, <1>3, <2>1, <2>5, ValidUsable DEF AcceptedIsUsable
  <2> QED BY <1>1, <2>1, <2>4, <2>6 DEF LoaderInv
<1> QED BY <1>2, <1>3 DEF Validate

\* Every step of the process keeps what the loader has computed.
LEMMA NextLoader ==
    ASSUME LoaderInv, [Next]_vars PROVE LoaderInv'
<1>1. CASE UNCHANGED loaderVars
  BY <1>1 DEF loaderVars, LoaderInv, LastLayerWins, AcceptedIsUsable
<1>2. CASE LoadStep
  BY <1>2, ReadFileLoader, ReadEnvironmentLoader, ValidateLoader DEF LoadStep, Load
<1>3. CASE Wire
  BY <1>3 DEF Wire, LoaderInv, LastLayerWins, AcceptedIsUsable
<1>4. LoadStep \/ Wire \/ UNCHANGED loaderVars
  BY DEF Next, Lifespan, vars, StartNext, Await, Serve, StopNext, Dispose, LoopEnds, End,
         ListenerReady, ListenerLost, Signal, GatherFails, SiblingAsks, BeginJob,
         AskForThread, EndJob
<1> QED BY <1>1, <1>2, <1>3, <1>4

\* LoaderInv holds throughout.
LEMMA LoaderInvHolds == Spec => []LoaderInv
<1>1. Init => LoaderInv
  BY InitLoader DEF Init
<1> QED BY <1>1, NextLoader, PTL DEF Spec

\* Every setting of a configuration that load_app_config accepts is what its
\* variable says, else what the one file that counts says, else its default.
THEOREM LastLayerWinsHolds == Spec => []LastLayerWins
<1>1. LoaderInv => LastLayerWins
  BY DEF LoaderInv
<1> QED BY <1>1, LoaderInvHolds, PTL

\* No configuration that load_app_config accepts is refused by a constructor
\* of a process later, and a finite one meets every demand of the services but
\* the three of NotValidated.
THEOREM AcceptedIsUsableHolds == Spec => []AcceptedIsUsable
<1>1. LoaderInv => AcceptedIsUsable
  BY DEF LoaderInv
<1> QED BY <1>1, LoaderInvHolds, PTL

-----------------------------------------------------------------------------
(* The start.                                                              *)

\* The lifespan has passed the listener: LISTEN was up, or was given up, or
\* there is none.
PastListener == heard \/ gaveUp \/ "listener" \notin enabled

\* Before the lifespan begins no task runs; it comes to the consumer, second
\* in StartOrder, only past the listener; and ready is set by LISTEN alone.
StartInv ==
    /\ at \in Nat \ {0}
    /\ phase \in {"loading", "failed", "starting", "awaiting", "serving", "stopping",
                  "disposed", "closing", "ended"}
    /\ phase = "loading" => at = 1 /\ tasks = {} /\ ready = {}
    /\ phase \in {"starting", "awaiting"} /\ at >= 2 => PastListener
    /\ "listener" \in ready => heard
    /\ NoGapAtStart

\* The consumer's place in StartOrder and what it stands behind.
LEMMA OrderFacts ==
    /\ Len(StartOrder) = 5
    /\ StartOrder[1] = "listener"
    /\ \A i \in 1..5 : StartOrder[i] = "consumer" => i = 2
    /\ \A i \in 1..5 : StartOrder[i] = "listener" => i = 1
BY DEF StartOrder

\* The first state has StartInv.
LEMMA InitStart == Init => StartInv
BY DEF Init, StartInv, NoGapAtStart

\* Loading and wiring.
LEMMA LoadStart ==
    ASSUME StartInv, LoadStep \/ Wire PROVE StartInv'
<1>1. CASE LoadStep
  BY <1>1 DEF LoadStep, processVars, StartInv, NoGapAtStart, PastListener
<1>2. CASE Wire
  BY <1>2 DEF Wire, StartInv, NoGapAtStart, PastListener
<1> QED BY <1>1, <1>2

\* The start of the next service: only the second one is the consumer.
LEMMA NextStart ==
    ASSUME StartInv, StartNext PROVE StartInv'
<1>1. at \in 1..5 /\ phase = "starting" /\ UNCHANGED <<enabled, heard, gaveUp>>
  BY OrderFacts DEF StartNext, StartInv
<1>2. CASE StartOrder[at] \in enabled
  <2>1. /\ phase' = "awaiting" /\ tasks' = tasks \cup {StartOrder[at]}
        /\ at' = at
        /\ ready' = IF StartOrder[at] \in {"worker", "reconciler", "retention"}
                    THEN ready \cup {StartOrder[at]} ELSE ready
    BY <1>2 DEF StartNext
  <2>2. StartOrder[at] = "consumer" => PastListener
    BY <1>1, OrderFacts DEF StartInv
  <2>3. "listener" \in ready' => heard'
    BY <1>1, <2>1 DEF StartInv
  <2>4. NoGapAtStart'
    BY <1>1, <2>1, <2>2 DEF StartInv, NoGapAtStart, PastListener
  <2>5. at' >= 2 => PastListener'
    BY <1>1, <2>1 DEF StartInv, PastListener
  <2> QED BY <1>1, <2>1, <2>3, <2>4, <2>5 DEF StartInv
<1>3. CASE StartOrder[at] \notin enabled
  <2>1. at' = at + 1 /\ UNCHANGED <<phase, tasks, ready>>
    BY <1>3 DEF StartNext
  <2>2. PastListener'
    <3>1. CASE at = 1
      BY <1>1, <1>3, <3>1, OrderFacts DEF PastListener
    <3>2. CASE at >= 2
      BY <1>1, <3>2 DEF StartInv, PastListener
    <3> QED BY <1>1, <3>1, <3>2
  <2> QED BY <1>1, <2>1, <2>2 DEF StartInv, NoGapAtStart
<1> QED BY <1>2, <1>3

\* The wait for a service: past the listener it is ready or given up.
LEMMA AwaitStart ==
    ASSUME StartInv, Await PROVE StartInv'
<1>1. /\ phase = "awaiting" /\ phase' = "starting" /\ at' = at + 1
      /\ UNCHANGED <<enabled, tasks, ready, heard>>
      /\ gaveUp' = (gaveUp \/ (StartOrder[at] = "listener" /\ "listener" \notin ready))
  BY DEF Await
<1>2. PastListener'
  <2>1. CASE at = 1
    <3>1. CASE "listener" \in ready
      BY <1>1, <3>1 DEF StartInv, PastListener
    <3>2. CASE "listener" \notin ready
      BY <1>1, <2>1, <3>2, OrderFacts DEF PastListener
    <3> QED BY <3>1, <3>2
  <2>2. CASE at >= 2
    BY <1>1, <2>2 DEF StartInv, PastListener
  <2> QED BY <2>1, <2>2 DEF StartInv
<1>3. NoGapAtStart'
  BY <1>1, <1>2 DEF NoGapAtStart, PastListener
<1> QED BY <1>1, <1>2, <1>3 DEF StartInv

\* Every other step.
LEMMA OtherStart ==
    ASSUME StartInv,
           \/ ListenerReady \/ ListenerLost \/ Serve \/ Signal \/ StopNext
           \/ Dispose \/ LoopEnds \/ End \/ GatherFails \/ SiblingAsks \/ BeginJob
           \/ \E s \in Services : AskForThread(s)
           \/ \E s \in Owners : EndJob(s)
    PROVE  StartInv'
<1> USE DEF StartInv, NoGapAtStart, PastListener
<1>1. CASE ListenerReady
  BY <1>1 DEF ListenerReady
<1>2. CASE ListenerLost
  BY <1>2 DEF ListenerLost
<1>3. CASE Serve
  BY <1>3 DEF Serve
<1>4. CASE Signal
  BY <1>4 DEF Signal
<1>5. CASE StopNext
  BY <1>5 DEF StopNext
<1>6. CASE Dispose \/ LoopEnds \/ End
  BY <1>6 DEF Dispose, LoopEnds, End
<1>7. CASE GatherFails \/ SiblingAsks \/ BeginJob
  BY <1>7 DEF GatherFails, SiblingAsks, BeginJob
<1>8. ASSUME NEW s \in Services, AskForThread(s) PROVE StartInv'
  BY <1>8 DEF AskForThread
<1>9. ASSUME NEW s \in Owners, EndJob(s) PROVE StartInv'
  BY <1>9 DEF EndJob
<1> QED BY <1>1, <1>2, <1>3, <1>4, <1>5, <1>6, <1>7, <1>8, <1>9

\* StartInv holds throughout.
LEMMA StartInvHolds == Spec => []StartInv
<1>1. StartInv /\ [Next]_vars => StartInv'
  <2>1. ASSUME StartInv, UNCHANGED vars PROVE StartInv'
    BY <2>1 DEF vars, processVars, StartInv, NoGapAtStart, PastListener
  <2> QED
    BY <2>1, LoadStart, NextStart, AwaitStart, OtherStart DEF Next, Lifespan
<1> QED BY <1>1, InitStart, PTL DEF Spec

\* The consumer starts, and reads its catch-up, after LISTEN has come up, was
\* given up after its time, or is not configured.
THEOREM NoGapAtStartHolds == Spec => []NoGapAtStart
<1>1. StartInv => NoGapAtStart
  BY DEF StartInv
<1> QED BY <1>1, StartInvHolds, PTL

-----------------------------------------------------------------------------
(* The stop.                                                               *)

\* A service that is stopped has no task and no job in the queue of the pool;
\* none is stopped before the shutdown, so that none is started again.
QueueInv ==
    /\ waiting \in Seq(Owners \cup {Cancelled})
    /\ busy \in [Owners -> Int]
    /\ siblings \in Int
    /\ tasks \cap stopped = {}
    /\ \A i \in DOMAIN waiting : waiting[i] \notin stopped
    /\ stopped \subseteq Services
    /\ phase \in {"loading", "starting", "awaiting", "serving"} => stopped = {}

\* What StopIsFinal allows a step to do.
NothingBegins ==
    /\ \A s \in stopped : busy'[s] <= busy[s]
    /\ "worker" \in stopped => Outliving' <= Outliving

\* The owners of jobs are told apart.
LEMMA OwnerFacts ==
    /\ Services \subseteq Owners /\ Sibling \in Owners
    /\ Sibling \notin Services /\ Cancelled \notin Owners /\ "worker" \in Services
BY DEF Owners, Services, Sibling, Cancelled

\* The first state has QueueInv.
LEMMA InitQueue == Init => QueueInv
<1>1. Init => waiting \in Seq(Owners \cup {Cancelled}) /\ DOMAIN waiting = {}
  BY DEF Init
<1> QED BY <1>1 DEF Init, QueueInv

\* A queue that is given one more entry at its end.
LEMMA QueuedAppend ==
    ASSUME NEW T, NEW q \in Seq(T), NEW owner \in T, NEW s
    PROVE  /\ Occurrences(q, s) \in Nat
           /\ Occurrences(Append(q, owner), s)
                 = Occurrences(q, s) + (IF owner = s THEN 1 ELSE 0)
<1> DEFINE old == {i \in DOMAIN q : q[i] = s}
           new == {i \in DOMAIN Append(q, owner) : Append(q, owner)[i] = s}
<1>1. DOMAIN q = 1..Len(q) /\ Len(q) \in Nat
  OBVIOUS
<1>2. IsFiniteSet(old) /\ Cardinality(old) \in Nat
  <2>1. old \subseteq 1..Len(q)
    BY <1>1
  <2>2. IsFiniteSet(1..Len(q))
    BY <1>1, FS_Interval
  <2> QED BY <2>1, <2>2, FS_Subset, FS_CardinalityType
<1>3. /\ DOMAIN Append(q, owner) = DOMAIN q \cup {Len(q) + 1}
      /\ Len(q) + 1 \notin DOMAIN q
      /\ Append(q, owner)[Len(q) + 1] = owner
      /\ \A i \in DOMAIN q : Append(q, owner)[i] = q[i]
  BY <1>1
<1>4. owner = s => new = old \cup {Len(q) + 1} /\ Len(q) + 1 \notin old
  BY <1>3
<1>5. owner # s => new = old
  BY <1>3
<1>6. Occurrences(q, s) = Cardinality(old) /\ Occurrences(Append(q, owner), s) = Cardinality(new)
  BY DEF Occurrences
<1> HIDE DEF old, new
<1>7. CASE owner = s
  <2>1. Cardinality(new) = Cardinality(old) + 1
    BY <1>2, <1>4, <1>7, FS_AddElement
  <2> QED BY <1>2, <1>6, <1>7, <2>1
<1>8. CASE owner # s
  <2>1. Cardinality(new) = Cardinality(old)
    BY <1>5, <1>8
  <2> QED BY <1>2, <1>6, <1>8, <2>1
<1> QED BY <1>7, <1>8

\* The jobs of an owner in the queue are a number.
LEMMA QueuedType == ASSUME QueueInv, NEW s PROVE Queued(s) \in Nat
<1>1. waiting \in Seq(Owners \cup {Cancelled}) /\ Sibling \in Owners \cup {Cancelled}
  BY OwnerFacts DEF QueueInv
<1>2. Occurrences(waiting, s) \in Nat
  BY <1>1, QueuedAppend
<1> QED BY <1>2 DEF Queued

\* A queue that loses its first entry: it was the one of its tail with that
\* entry in front, which has as many as with it at the end.
LEMMA QueuedTail ==
    ASSUME NEW T, NEW q \in Seq(T), q # <<>>, NEW s
    PROVE  /\ Occurrences(Tail(q), s) \in Nat
           /\ Occurrences(q, s) = Occurrences(Tail(q), s) + (IF Head(q) = s THEN 1 ELSE 0)
<1> DEFINE old == {i \in DOMAIN q : q[i] = s}
           new == {i \in DOMAIN Tail(q) : Tail(q)[i] = s}
           later == old \ {1}
           f == [i \in new |-> i + 1]
<1>1. /\ DOMAIN q = 1..Len(q) /\ Len(q) \in Nat /\ Len(q) >= 1
      /\ DOMAIN Tail(q) = 1..Len(q) - 1
      /\ \A i \in 1..Len(q) - 1 : Tail(q)[i] = q[i + 1]
      /\ Head(q) = q[1]
  OBVIOUS
<1>2. IsFiniteSet(new) /\ IsFiniteSet(later)
  <2>1. new \subseteq 1..Len(q) /\ later \subseteq 1..Len(q)
    BY <1>1
  <2>2. IsFiniteSet(1..Len(q))
    BY <1>1, FS_Interval
  <2> QED BY <2>1, <2>2, FS_Subset
<1>3. f \in Bijection(new, later)
  <2>1. f \in [new -> later]
    BY <1>1
  <2>2. \A i, j \in new : f[i] = f[j] => i = j
    BY <1>1
  <2>3. \A k \in later : \E i \in new : f[i] = k
    <3> TAKE k \in later
    <3>1. k - 1 \in new
      BY <1>1
    <3> QED BY <1>1, <3>1
  <2> QED BY <2>1, <2>2, <2>3 DEF Bijection, Injection, Surjection, IsInjective
<1>4. Cardinality(new) = Cardinality(later) /\ Cardinality(new) \in Nat
  BY <1>2, <1>3, FS_Bijection, FS_CardinalityType DEF ExistsBijection
<1>5. Head(q) = s => old = later \cup {1} /\ 1 \notin later
  BY <1>1
<1>6. Head(q) # s => old = later
  BY <1>1
<1>7. Occurrences(q, s) = Cardinality(old) /\ Occurrences(Tail(q), s) = Cardinality(new)
  BY DEF Occurrences
<1> HIDE DEF old, new, later, f
<1>8. CASE Head(q) = s
  <2>1. Cardinality(old) = Cardinality(later) + 1
    BY <1>2, <1>5, <1>8, FS_AddElement
  <2> QED BY <1>4, <1>7, <1>8, <2>1
<1>9. CASE Head(q) # s
  <2>1. Cardinality(old) = Cardinality(later)
    BY <1>6, <1>9
  <2> QED BY <1>4, <1>7, <1>9, <2>1
<1> QED BY <1>8, <1>9

\* Steps that leave the queue, the threads and the stopped services alone, and
\* start a task only before any service is stopped.
LEMMA OtherQueue ==
    ASSUME QueueInv, UNCHANGED <<siblings, waiting, busy, stopped>>,
           tasks' = tasks \/ phase \in {"starting"},
           phase' \in {"loading", "starting", "awaiting", "serving"} =>
              phase \in {"loading", "starting", "awaiting", "serving"}
    PROVE  QueueInv' /\ NothingBegins
<1>1. QueueInv'
  BY DEF QueueInv
<1>2. \A s \in stopped : busy[s] \in Int
  BY OwnerFacts DEF QueueInv
<1>3. Outliving' = Outliving
  BY DEF Outliving, Jobs, Queued
<1>4. Outliving \in Int
  <2>1. Queued(Sibling) \in Nat
    BY QueuedType
  <2> QED BY <2>1, OwnerFacts DEF QueueInv, Outliving, Jobs
<1> QED BY <1>1, <1>2, <1>3, <1>4 DEF NothingBegins

\* A task asks for a thread: its service is not stopped.
LEMMA AskQueue ==
    ASSUME QueueInv, NEW s \in Services, AskForThread(s) PROVE QueueInv' /\ NothingBegins
<1>1. /\ s \notin stopped /\ waiting' = Append(waiting, s)
      /\ UNCHANGED <<busy, tasks, stopped, phase, siblings>>
  BY DEF AskForThread, QueueInv
<1>2. s \in Owners /\ s # Sibling /\ waiting \in Seq(Owners \cup {Cancelled})
  BY OwnerFacts DEF QueueInv
<1>3. waiting' \in Seq(Owners \cup {Cancelled})
  BY <1>1, <1>2
<1>4. \A i \in DOMAIN waiting' : waiting'[i] \notin stopped
  BY <1>1, <1>2 DEF QueueInv
<1>5. QueueInv'
  BY <1>1, <1>3, <1>4 DEF QueueInv
<1>6. Queued(Sibling)' = Queued(Sibling) /\ Queued(Sibling) \in Nat
  BY <1>1, <1>2, QueuedAppend DEF Queued
<1>7. /\ \A t \in stopped : busy[t] \in Int
      /\ busy[Sibling] \in Int /\ siblings \in Int
  BY OwnerFacts DEF QueueInv
<1> QED BY <1>1, <1>5, <1>6, <1>7 DEF NothingBegins, Outliving, Jobs

\* A sibling asks for a thread: one that was there.
LEMMA SiblingQueue ==
    ASSUME QueueInv, SiblingAsks PROVE QueueInv' /\ NothingBegins
<1>1. /\ waiting' = Append(waiting, Sibling) /\ siblings' = siblings - 1
      /\ UNCHANGED <<busy, tasks, stopped, phase>>
  BY DEF SiblingAsks
<1>2. /\ waiting \in Seq(Owners \cup {Cancelled}) /\ Sibling \in Owners \ stopped
      /\ \A t \in stopped : busy[t] \in Int
      /\ busy[Sibling] \in Int /\ siblings \in Int
  BY OwnerFacts DEF QueueInv
<1>3. waiting' \in Seq(Owners \cup {Cancelled})
  BY <1>1, <1>2
<1>4. \A i \in DOMAIN waiting' : waiting'[i] \notin stopped
  BY <1>1, <1>2 DEF QueueInv
<1>5. QueueInv'
  BY <1>1, <1>2, <1>3, <1>4 DEF QueueInv
<1>6. Queued(Sibling)' = Queued(Sibling) + 1 /\ Queued(Sibling) \in Nat
  BY <1>1, <1>2, QueuedAppend DEF Queued
<1> QED BY <1>1, <1>2, <1>5, <1>6 DEF NothingBegins, Outliving, Jobs

\* A thread takes a job: it is cancelled, of a sibling, or of a service that is
\* not stopped.
LEMMA BeginQueue ==
    ASSUME QueueInv, BeginJob PROVE QueueInv' /\ NothingBegins
<1>1. /\ waiting \in Seq(Owners \cup {Cancelled}) /\ waiting # <<>>
      /\ busy \in [Owners -> Int] /\ stopped \subseteq Services
      /\ siblings \in Int
      /\ UNCHANGED <<tasks, stopped, phase, siblings>>
      /\ waiting' = Tail(waiting)
  BY DEF BeginJob, QueueInv
<1>2. /\ Head(waiting) = waiting[1] /\ 1 \in DOMAIN waiting
      /\ Head(waiting) \in Owners \cup {Cancelled}
      /\ Tail(waiting) \in Seq(Owners \cup {Cancelled})
      /\ \A i \in DOMAIN Tail(waiting) :
            i + 1 \in DOMAIN waiting /\ Tail(waiting)[i] = waiting[i + 1]
  BY <1>1
<1>3. Head(waiting) \notin stopped
  BY <1>2 DEF QueueInv
<1>4. /\ Queued(Sibling)' \in Nat
      /\ Queued(Sibling) = Queued(Sibling)' + (IF Head(waiting) = Sibling THEN 1 ELSE 0)
  BY <1>1, QueuedTail DEF Queued
<1>5. /\ busy' \in [Owners -> Int] /\ \A s \in stopped : busy'[s] <= busy[s]
      /\ Outliving' <= Outliving
  <2>1. CASE Head(waiting) = Cancelled
    <3>1. busy' = busy /\ Head(waiting) # Sibling
      BY <2>1, OwnerFacts DEF BeginJob
    <3> QED BY <1>1, <1>4, <3>1, OwnerFacts DEF Outliving, Jobs
  <2>2. CASE Head(waiting) # Cancelled
    <3>1. busy' = [busy EXCEPT ![Head(waiting)] = @ + 1]
      BY <2>2 DEF BeginJob
    <3>2. PICK h \in Owners : h = Head(waiting)
      BY <1>2, <2>2
    <3>3. busy' = [busy EXCEPT ![h] = busy[h] + 1] /\ h \notin stopped
      BY <1>3, <3>1, <3>2
    <3>4. busy' \in [Owners -> Int] /\ \A s \in stopped : busy'[s] <= busy[s]
      BY <1>1, <3>3, OwnerFacts
    <3>5. busy'[Sibling] = busy[Sibling] + (IF h = Sibling THEN 1 ELSE 0)
      BY <1>1, <3>3, OwnerFacts
    <3>6. Outliving' = Outliving
      BY <1>1, <1>4, <3>2, <3>5, OwnerFacts DEF Outliving, Jobs
    <3>7. Outliving \in Int
      BY <1>1, <1>4, OwnerFacts DEF Outliving, Jobs
    <3> QED BY <3>4, <3>6, <3>7
  <2> QED BY <2>1, <2>2
<1>6. \A i \in DOMAIN waiting' : waiting'[i] \notin stopped'
  BY <1>1, <1>2 DEF BeginJob, QueueInv
<1> QED BY <1>1, <1>2, <1>5, <1>6 DEF QueueInv, NothingBegins

\* A job ends.
LEMMA EndJobQueue ==
    ASSUME QueueInv, NEW s \in Owners, EndJob(s) PROVE QueueInv' /\ NothingBegins
<1>1. /\ busy' = [busy EXCEPT ![s] = @ - 1] /\ busy \in [Owners -> Int]
      /\ siblings \in Int /\ waiting \in Seq(Owners \cup {Cancelled})
      /\ stopped \subseteq Owners
      /\ UNCHANGED <<waiting, siblings, tasks, stopped, phase>>
  BY OwnerFacts DEF EndJob, QueueInv
<1>2. busy' \in [Owners -> Int] /\ \A t \in Owners : busy'[t] <= busy[t]
  BY <1>1
<1>3. QueueInv'
  BY <1>1, <1>2 DEF QueueInv
<1>4. Queued(Sibling) \in Nat /\ Queued(Sibling)' = Queued(Sibling)
  BY <1>1, QueuedType DEF Queued
<1>5. busy[Sibling] \in Int /\ busy'[Sibling] \in Int /\ busy'[Sibling] <= busy[Sibling]
  BY <1>1, <1>2, OwnerFacts
<1>6. Outliving' <= Outliving
  BY <1>1, <1>4, <1>5 DEF Outliving, Jobs
<1> QED BY <1>1, <1>2, <1>3, <1>6 DEF NothingBegins

\* A count that is changed at one owner stays a count at each.
LEMMA CountsType ==
    ASSUME NEW S, NEW f \in [S -> Int], NEW k \in S, NEW n \in Int
    PROVE  [f EXCEPT ![k] = n] \in [S -> Int]
OBVIOUS

\* A gather fails: its worker runs, and so is not stopped.
LEMMA GatherQueue ==
    ASSUME QueueInv, GatherFails PROVE QueueInv' /\ NothingBegins
<1>1. /\ busy' = [busy EXCEPT !["worker"] = 0, ![Sibling] = @ + busy["worker"] - 1]
      /\ waiting' = [i \in DOMAIN waiting |->
                        IF waiting[i] = "worker" THEN Sibling ELSE waiting[i]]
      /\ "worker" \notin stopped
      /\ UNCHANGED <<tasks, stopped, phase>>
      /\ busy \in [Owners -> Int] /\ waiting \in Seq(Owners \cup {Cancelled})
      /\ stopped \subseteq Services
  BY DEF GatherFails, QueueInv
<1>2. siblings' \in Int
  <2>1. siblings \in Int
    BY DEF QueueInv
  <2> QED BY <2>1 DEF GatherFails
<1>3. waiting' \in Seq(Owners \cup {Cancelled}) /\ DOMAIN waiting' = DOMAIN waiting
  BY <1>1, OwnerFacts
<1>4. \A i \in DOMAIN waiting' : waiting'[i] \notin stopped'
  BY <1>1, <1>3, OwnerFacts DEF QueueInv
<1>5. busy["worker"] \in Int /\ busy[Sibling] \in Int
  BY <1>1, OwnerFacts
<1>6. busy' \in [Owners -> Int] /\ \A s \in stopped : busy'[s] <= busy[s]
  <2>1. PICK n \in Int : n = busy[Sibling] + busy["worker"] - 1
    BY <1>5
  <2>2. busy' = [busy EXCEPT !["worker"] = 0, ![Sibling] = n]
    BY <1>1, <2>1, OwnerFacts
  <2>3. \A s \in stopped : s # "worker" /\ s # Sibling /\ s \in Owners
    BY <1>1, OwnerFacts
  <2>4. \A s \in stopped : busy'[s] = busy[s] /\ busy[s] \in Int
    BY <1>1, <2>2, <2>3
  <2>5. busy' \in [Owners -> Int]
    <3> DEFINE b == [busy EXCEPT !["worker"] = 0]
    <3>1. busy \in [Owners -> Int]
      BY DEF QueueInv
    <3>2. b \in [Owners -> Int]
      BY <3>1, OwnerFacts, CountsType
    <3>3. busy' = [b EXCEPT ![Sibling] = n]
      BY <2>2
    <3> HIDE DEF b
    <3> QED BY <3>2, <3>3, OwnerFacts, CountsType
  <2>6. \A s \in stopped : busy'[s] <= busy[s]
    BY <2>4
  <2> QED BY <2>5, <2>6
<1>7. QueueInv'
  BY <1>1, <1>2, <1>3, <1>4, <1>6 DEF QueueInv
<1> QED BY <1>1, <1>6, <1>7 DEF NothingBegins

\* Cancelling the jobs of one owner leaves the other entries as they are.
LEMMA WithoutJobsFacts ==
    ASSUME QueueInv, NEW owner \in Owners
    PROVE  /\ WithoutJobs(owner) \in Seq(Owners \cup {Cancelled})
           /\ DOMAIN WithoutJobs(owner) = DOMAIN waiting
           /\ \A i \in DOMAIN waiting :
                 /\ WithoutJobs(owner)[i] # owner
                 /\ WithoutJobs(owner)[i] \in {waiting[i], Cancelled}
                 /\ waiting[i] # owner => WithoutJobs(owner)[i] = waiting[i]
BY OwnerFacts DEF QueueInv, WithoutJobs

\* The services of StopOrder.
LEMMA StopOrderFacts ==
    Len(StopOrder) = 5 /\ \A i \in 1..5 : StopOrder[i] \in Services
BY DEF StopOrder, Services

\* stop() cancels the jobs of its service that wait.
LEMMA StopQueue ==
    ASSUME QueueInv, at \in Nat \ {0}, StopNext PROVE QueueInv' /\ NothingBegins
<1> DEFINE s == StopOrder[at]
<1>1. /\ phase = "stopping" /\ phase' = "stopping" /\ UNCHANGED <<busy, siblings>>
      /\ tasks' = tasks \ {s} /\ stopped' = stopped \cup {s}
      /\ waiting' = WithoutJobs(s)
  BY DEF StopNext
<1>2. s \in Services
  BY StopOrderFacts DEF StopNext
<1> HIDE DEF s
<1>3. /\ Cancelled \notin stopped \cup {s} /\ s \in Owners /\ s # Sibling
      /\ busy \in [Owners -> Int] /\ siblings \in Int /\ stopped \subseteq Services
      /\ waiting \in Seq(Owners \cup {Cancelled})
  BY <1>2, OwnerFacts DEF QueueInv
<1>4. waiting' \in Seq(Owners \cup {Cancelled}) /\ DOMAIN waiting' = DOMAIN waiting
  BY <1>1, <1>3, WithoutJobsFacts
<1>5. \A i \in DOMAIN waiting' : waiting'[i] \notin stopped'
  BY <1>1, <1>3, <1>4, WithoutJobsFacts DEF QueueInv
<1>6. QueueInv'
  BY <1>1, <1>2, <1>3, <1>4, <1>5 DEF QueueInv
<1>7. Queued(Sibling)' = Queued(Sibling) /\ Queued(Sibling) \in Nat
  <2>1. \A i \in DOMAIN waiting : waiting'[i] = Sibling <=> waiting[i] = Sibling
    BY <1>1, <1>3, WithoutJobsFacts, OwnerFacts
  <2>2. {i \in DOMAIN waiting' : waiting'[i] = Sibling} = {i \in DOMAIN waiting : waiting[i] = Sibling}
    BY <1>4, <2>1
  <2>3. Occurrences(waiting', Sibling) = Occurrences(waiting, Sibling)
    BY <2>2 DEF Occurrences
  <2> QED BY <1>3, <2>3, QueuedAppend DEF Queued
<1> QED BY <1>1, <1>3, <1>6, <1>7, OwnerFacts DEF NothingBegins, Outliving, Jobs

\* The loop cancels the siblings that have no thread.
LEMMA LoopEndsQueue ==
    ASSUME QueueInv, siblings >= 0, LoopEnds PROVE QueueInv' /\ NothingBegins
<1>1. /\ phase' = "closing" /\ siblings' = 0 /\ waiting' = WithoutJobs(Sibling)
      /\ UNCHANGED <<busy, tasks, stopped>>
  BY DEF LoopEnds
<1>2. /\ Cancelled \notin stopped /\ Sibling \in Owners
      /\ busy \in [Owners -> Int] /\ siblings \in Int /\ stopped \subseteq Services
      /\ waiting \in Seq(Owners \cup {Cancelled})
  BY OwnerFacts DEF QueueInv
<1>3. waiting' \in Seq(Owners \cup {Cancelled}) /\ DOMAIN waiting' = DOMAIN waiting
  BY <1>1, <1>2, WithoutJobsFacts
<1>4. \A i \in DOMAIN waiting' : waiting'[i] \notin stopped'
  BY <1>1, <1>2, <1>3, WithoutJobsFacts DEF QueueInv
<1>5. QueueInv'
  BY <1>1, <1>2, <1>3, <1>4 DEF QueueInv
<1>6. Queued(Sibling)' = 0 /\ Queued(Sibling) \in Nat
  <2>1. {i \in DOMAIN waiting' : waiting'[i] = Sibling} = {}
    BY <1>1, <1>2, <1>3, WithoutJobsFacts
  <2>2. Occurrences(waiting', Sibling) = 0
    BY <2>1, FS_EmptySet DEF Occurrences
  <2>3. Queued(Sibling)' = 0
    BY <2>2 DEF Queued
  <2> QED BY <2>3, QueuedType
<1> QED BY <1>1, <1>2, <1>5, <1>6, OwnerFacts DEF NothingBegins, Outliving, Jobs

\* Siblings are counted down to zero.
SiblingsInv == siblings \in Nat

LEMMA NextSiblings ==
    ASSUME SiblingsInv, QueueInv, [Next]_vars PROVE SiblingsInv'
<1>1. CASE UNCHANGED siblings
  BY <1>1 DEF SiblingsInv
<1>2. CASE SiblingAsks
  BY <1>2 DEF SiblingAsks, SiblingsInv
<1>3. CASE GatherFails
  BY <1>3 DEF GatherFails, SiblingsInv
<1>4. CASE LoopEnds
  BY <1>4 DEF LoopEnds, SiblingsInv
<1> QED
  BY <1>1, <1>2, <1>3, <1>4
  DEF Next, Lifespan, vars, processVars, LoadStep, Wire, StartNext, Await, Serve, StopNext,
      Dispose, End, ListenerReady, ListenerLost, Signal, BeginJob, AskForThread, EndJob

\* Every step.
LEMMA NextQueue ==
    ASSUME QueueInv, SiblingsInv, at \in Nat \ {0}, [Next]_vars
    PROVE  QueueInv' /\ NothingBegins
<1> DEFINE G == QueueInv' /\ NothingBegins
<1> USE DEF vars, processVars
<1>1. CASE UNCHANGED vars
  BY <1>1, OtherQueue
<1>2. CASE LoadStep \/ Wire
  BY <1>2, OtherQueue DEF LoadStep, Wire
<1>3. CASE StartNext
  BY <1>3, OtherQueue DEF StartNext
<1>4. CASE Await \/ Serve \/ Signal
  BY <1>4, OtherQueue DEF Await, Serve, Signal
<1>5. CASE StopNext
  BY <1>5, StopQueue
<1>6. CASE Dispose \/ End
  BY <1>6, OtherQueue DEF Dispose, End
<1>7. CASE LoopEnds
  BY <1>7, LoopEndsQueue DEF SiblingsInv
<1>8. CASE ListenerReady \/ ListenerLost
  BY <1>8, OtherQueue DEF ListenerReady, ListenerLost
<1>9. CASE GatherFails
  BY <1>9, GatherQueue
<1>10. CASE SiblingAsks
  BY <1>10, SiblingQueue
<1>11. CASE BeginJob
  BY <1>11, BeginQueue
<1>12. ASSUME NEW s \in Services, AskForThread(s) PROVE G
  BY <1>12, AskQueue
<1>13. ASSUME NEW s \in Owners, EndJob(s) PROVE G
  BY <1>13, EndJobQueue
<1> QED
  BY <1>1, <1>2, <1>3, <1>4, <1>5, <1>6, <1>7, <1>8, <1>9, <1>10, <1>11, <1>12, <1>13
  DEF Next, Lifespan

\* No thread begins a job of a service whose stop() has returned, however many
\* of them waited in the queue of the pool, but for the deliveries that failed
\* gathers had left behind by then.
THEOREM StopIsFinalHolds == Spec => StopIsFinal
<1> DEFINE I == QueueInv /\ SiblingsInv
<1>1. Init => I
  BY InitQueue DEF Init, SiblingsInv
<1>2. I /\ StartInv /\ [Next]_vars => I'
  BY NextQueue, NextSiblings DEF StartInv
<1>3. I /\ StartInv /\ [Next]_vars =>
         [/\ \A s \in stopped : busy'[s] <= busy[s]
          /\ "worker" \in stopped => Outliving' <= Outliving]_vars
  BY NextQueue DEF StartInv, NothingBegins
<1> QED BY <1>1, <1>2, <1>3, StartInvHolds, PTL DEF Spec, StopIsFinal

-----------------------------------------------------------------------------
(***************************************************************************)
(* The activity stream that the process serves.  The queue of a client     *)
(* never exceeds its size, and nothing but observations is missing from    *)
(* what a client is sent, in order, for any clients, queue sizes and       *)
(* numbers of events.                                                      *)
(***************************************************************************)

USE StreamAssumption

SenderType == NotSending \cup {Sending(m) : m \in Messages}

Typed ==
    /\ TypeOK
    /\ queue \in [Clients -> Seq(Messages)]
    /\ sent \in [Clients -> Seq(1..MaxEvents)]
    /\ sender \in [Clients -> SenderType]
    /\ IsFiniteSet(registered)

\* A connection that has not begun is sent nothing and is published nothing.
NotBegun ==
    \A c \in Clients :
        /\ handler[c] = "none" =>
              /\ c \notin registered /\ queue[c] = <<>> /\ sent[c] = <<>>
              /\ offered[c] = {}
        /\ handler[c] \in {"none", "starting"} => sender[c] = [does |-> "none"]

OfferedPublished == \A c \in Clients : offered[c] \subseteq 1..Len(published)

InLine(c) == Range(sent[c]) \cup InHand(c) \cup Numbers(queue[c])
LineOK(c) ==
    /\ \A i, j \in DOMAIN sent[c] : i < j => sent[c][i] < sent[c][j]
    /\ Before(Range(sent[c]), InHand(c) \cup Numbers(queue[c]))
    /\ Before(InHand(c), Numbers(queue[c]))
    /\ Sorted(queue[c])
    /\ InLine(c) \subseteq offered[c]
    /\ \A n \in offered[c] \ InLine(c) : published[n] = "observation"

IInv ==
    /\ Typed /\ NotBegun /\ OfferedPublished
    /\ \A c \in registered \ closed : LineOK(c)

-----------------------------------------------------------------------------
(* Queues.                                                                 *)

LEMMA LeastOf ==
    ASSUME NEW T \in SUBSET Nat, T # {}
    PROVE  Min(T) \in T /\ \A y \in T : Min(T) <= y
<1>1. PICK x \in T : \A y \in T : ~ (<<y, x>> \in OpToRel(<, Nat))
  BY NatLessThanWellFounded, WFMin
<1>2. \A y \in T : ~ (y < x)
  BY <1>1 DEF OpToRel
<1>3. \E z \in T : \A y \in T : z <= y
  BY <1>2
<1> QED
  BY <1>3, Zenon DEF Min

LEMMA MessageType ==
    /\ \A n \in 1..MaxEvents : /\ Event(n) \in Messages
                               /\ Event(n).type = "event" /\ Event(n).n = n
    /\ \A k \in Codes : Close(k) \in Messages /\ Close(k).type # "event"
    /\ Heartbeat \in Messages /\ Heartbeat.type # "event"
    /\ Warning \in Messages /\ Warning.type # "event"
    /\ \A m \in Messages : /\ m.type = "event" => m.n \in 1..MaxEvents
                           /\ m.type = "close" => m.n \in Codes
<1>1. \A n \in 1..MaxEvents : /\ Event(n) \in Messages
                               /\ Event(n).type = "event" /\ Event(n).n = n
  BY DEF Messages, Event
<1>2. \A k \in Codes : /\ Close(k) \in Messages /\ Close(k).type = "close"
                       /\ Close(k).n = k
  BY DEF Messages, Close
<1>3. /\ Heartbeat \in Messages /\ Heartbeat.type = "heartbeat"
      /\ Warning \in Messages /\ Warning.type = "warning"
  BY DEF Messages, Heartbeat, Warning
<1>4. \A m \in Messages :
         \/ \E n \in 1..MaxEvents : m = Event(n)
         \/ \E k \in Codes : m = Close(k)
         \/ m = Heartbeat \/ m = Warning
  BY DEF Messages
<1>5. ASSUME NEW m \in Messages
      PROVE  /\ m.type = "event" => m.n \in 1..MaxEvents
             /\ m.type = "close" => m.n \in Codes
  <2>1. CASE \E n \in 1..MaxEvents : m = Event(n)
    BY <1>1, <2>1
  <2>2. CASE \E k \in Codes : m = Close(k)
    BY <1>2, <2>2
  <2>3. CASE m = Heartbeat \/ m = Warning
    BY <1>3, <2>3
  <2> QED
    BY <1>4, <2>1, <2>2, <2>3
<1> QED
  BY <1>1, <1>2, <1>3, <1>5

LEMMA SenderFacts ==
    ASSUME NEW s \in SenderType
    PROVE  /\ s.does = "sending" => s.message \in Messages
           /\ s.does \in {"none", "waiting", "stopped", "sending"}
BY DEF SenderType, NotSending, Sending

LEMMA Appended ==
    ASSUME NEW q \in Seq(Messages), NEW m \in Messages
    PROVE  /\ Append(q, m) \in Seq(Messages) /\ Len(Append(q, m)) = Len(q) + 1
           /\ m.type # "event" =>
                 /\ Numbers(Append(q, m)) = Numbers(q)
                 /\ Sorted(q) => Sorted(Append(q, m))
           /\ m.type = "event" =>
                 /\ Numbers(Append(q, m)) = Numbers(q) \cup {m.n}
                 /\ Sorted(q) /\ Before(Numbers(q), {m.n}) => Sorted(Append(q, m))
<1> DEFINE p == Append(q, m)
<1>1. /\ p \in Seq(Messages) /\ Len(p) = Len(q) + 1 /\ Len(q) \in Nat
      /\ DOMAIN p = DOMAIN q \cup {Len(q) + 1} /\ p[Len(q) + 1] = m
      /\ \A i \in DOMAIN q : p[i] = q[i] /\ i < Len(q) + 1 /\ i \in Nat
      /\ Len(q) + 1 \notin DOMAIN q
  OBVIOUS
<1> HIDE DEF p
<1>2. CASE m.type # "event"
  <2>1. EventsIn(p) = EventsIn(q) /\ EventsIn(q) \subseteq DOMAIN q
    BY <1>1, <1>2 DEF EventsIn
  <2>2. Numbers(p) = Numbers(q)
    BY <1>1, <2>1 DEF Numbers
  <2>3. Sorted(q) => Sorted(p)
    BY <1>1, <2>1 DEF Sorted
  <2> QED
    BY <1>1, <1>2, <2>2, <2>3 DEF p
<1>3. CASE m.type = "event"
  <2>1. EventsIn(p) = EventsIn(q) \cup {Len(q) + 1} /\ EventsIn(q) \subseteq DOMAIN q
    BY <1>1, <1>3 DEF EventsIn
  <2>2. Numbers(p) = Numbers(q) \cup {m.n}
    BY <1>1, <2>1 DEF Numbers
  <2>3. Sorted(q) /\ Before(Numbers(q), {m.n}) => Sorted(p)
    <3> SUFFICES ASSUME Sorted(q), Before(Numbers(q), {m.n}),
                        NEW i \in EventsIn(p), NEW j \in EventsIn(p), i < j
                 PROVE  p[i].n < p[j].n
      BY DEF Sorted
    <3>1. i \in EventsIn(q)
      BY <1>1, <2>1
    <3>2. q[i].n < m.n
      BY <3>1 DEF Before, Numbers
    <3> QED
      BY <1>1, <2>1, <3>1, <3>2 DEF Sorted
  <2> QED
    BY <1>1, <1>3, <2>2, <2>3 DEF p
<1> QED
  BY <1>2, <1>3

\* The head of a queue comes before what is behind it.
LEMMA Shifted ==
    ASSUME NEW q \in Seq(Messages), q # <<>>,
           NEW head, head = IF Head(q).type = "event" THEN {Head(q).n} ELSE {}
    PROVE  /\ Head(q) \in Messages /\ Tail(q) \in Seq(Messages) /\ Len(Tail(q)) = Len(q) - 1
           /\ Numbers(q) = head \cup Numbers(Tail(q))
           /\ Sorted(q) => Sorted(Tail(q)) /\ Before(head, Numbers(Tail(q)))
<1> DEFINE p == Tail(q)
<1>1. /\ p \in Seq(Messages) /\ Len(p) = Len(q) - 1 /\ Len(q) \in Nat \ {0}
      /\ DOMAIN q = 1..Len(q) /\ DOMAIN p = 1..(Len(q) - 1)
      /\ \A i \in DOMAIN p : p[i] = q[i + 1]
      /\ Head(q) = q[1] /\ q[1] \in Messages
  OBVIOUS
<1> HIDE DEF p
<1>2. \A i \in EventsIn(p) : i + 1 \in EventsIn(q) /\ p[i] = q[i + 1] /\ i \in Nat \ {0}
  BY <1>1 DEF EventsIn
<1>3. \A i \in EventsIn(q) : i # 1 => i - 1 \in EventsIn(p) /\ p[i - 1] = q[i]
  BY <1>1 DEF EventsIn
<1>4. head = {q[i].n : i \in EventsIn(q) \cap {1}}
  BY <1>1 DEF EventsIn
<1>5. Numbers(q) = head \cup Numbers(p)
  <2>1. Numbers(q) \subseteq head \cup Numbers(p)
    BY <1>3, <1>4 DEF Numbers
  <2>2. head \subseteq Numbers(q) /\ Numbers(p) \subseteq Numbers(q)
    BY <1>2, <1>4 DEF Numbers
  <2> QED
    BY <2>1, <2>2
<1>6. ASSUME Sorted(q) PROVE Sorted(p) /\ Before(head, Numbers(p))
  <2>1. Sorted(p)
    BY <1>2, <1>6 DEF Sorted
  <2>2. ASSUME NEW m \in head, NEW n \in Numbers(p) PROVE m < n
    <3>1. 1 \in EventsIn(q) /\ m = q[1].n
      BY <1>4
    <3>2. PICK i \in EventsIn(p) : n = p[i].n
      BY DEF Numbers
    <3>3. i + 1 \in EventsIn(q) /\ n = q[i + 1].n /\ 1 < i + 1
      BY <1>2, <3>2
    <3> QED
      BY <1>6, <3>1, <3>3 DEF Sorted
  <2> QED
    BY <2>1, <2>2 DEF Before
<1> QED
  BY <1>1, <1>5, <1>6 DEF p

\* Dropping the oldest observation takes one observation out of the queue.
LEMMA Dropped ==
    ASSUME NEW q \in Seq(Messages), NEW kinds,
           \E i \in DOMAIN q : IsObservation(kinds, q[i])
    PROVE  /\ DropOldestObservation(q, kinds) \in Seq(Messages)
           /\ Len(DropOldestObservation(q, kinds)) = Len(q) - 1
           /\ Sorted(q) => Sorted(DropOldestObservation(q, kinds))
           /\ \E n \in Numbers(q) :
                 /\ kinds[n] = "observation"
                 /\ Numbers(q) = Numbers(DropOldestObservation(q, kinds)) \cup {n}
<1> DEFINE T == {i \in DOMAIN q : IsObservation(kinds, q[i])}
           k == Min(T)
           d == RemoveAt(q, k)
<1>1. T \in SUBSET Nat /\ T # {}
  OBVIOUS
<1>2. k \in T
  BY <1>1, LeastOf
<1>3. /\ k \in 1..Len(q) /\ Len(q) \in Nat /\ DOMAIN q = 1..Len(q)
      /\ q[k].type = "event" /\ kinds[q[k].n] = "observation"
  BY <1>2 DEF IsObservation
<1> HIDE DEF k
<1>4. /\ SubSeq(q, 1, k - 1) \in Seq(Messages) /\ Len(SubSeq(q, 1, k - 1)) = k - 1
      /\ \A j \in 1..(k - 1) : SubSeq(q, 1, k - 1)[j] = q[j]
  <2>1. \A i \in 1..(k - 1) : q[i] \in Messages
    BY <1>3
  <2>2. /\ SubSeq(q, 1, k - 1) \in Seq(Messages)
        /\ Len(SubSeq(q, 1, k - 1)) = IF 1 <= k - 1 THEN k - 1 - 1 + 1 ELSE 0
        /\ \A i \in 1..(k - 1 - 1 + 1) : SubSeq(q, 1, k - 1)[i] = q[1 + i - 1]
    BY <1>3, <2>1, SubSeqProperties
  <2> QED
    BY <1>3, <2>2
<1>5. /\ SubSeq(q, k + 1, Len(q)) \in Seq(Messages)
      /\ Len(SubSeq(q, k + 1, Len(q))) = Len(q) - k
      /\ \A j \in 1..(Len(q) - k) : SubSeq(q, k + 1, Len(q))[j] = q[k + j]
  <2>1. \A i \in (k + 1)..Len(q) : q[i] \in Messages
    BY <1>3
  <2>2. /\ SubSeq(q, k + 1, Len(q)) \in Seq(Messages)
        /\ Len(SubSeq(q, k + 1, Len(q))) =
              IF k + 1 <= Len(q) THEN Len(q) - (k + 1) + 1 ELSE 0
        /\ \A i \in 1..(Len(q) - (k + 1) + 1) :
              SubSeq(q, k + 1, Len(q))[i] = q[k + 1 + i - 1]
    BY <1>3, <2>1, SubSeqProperties
  <2>3. k \in Int /\ Len(q) \in Int /\ k <= Len(q)
    BY <1>3
  <2>4. /\ Len(q) - (k + 1) + 1 = Len(q) - k
        /\ \A j \in 1..(Len(q) - k) : k + 1 + j - 1 = k + j
    BY <2>3
  <2>5. Len(SubSeq(q, k + 1, Len(q))) = Len(q) - k
    <3>1. CASE k + 1 <= Len(q)
      BY <2>2, <2>4, <3>1
    <3>2. CASE ~ (k + 1 <= Len(q))
      BY <2>2, <2>3, <3>2
    <3> QED
      BY <3>1, <3>2
  <2>6. ASSUME NEW j \in 1..(Len(q) - k)
        PROVE  SubSeq(q, k + 1, Len(q))[j] = q[k + j]
    <3>1. SubSeq(q, k + 1, Len(q))[j] = q[k + 1 + j - 1]
      BY <2>2, <2>4
    <3> QED
      BY <2>4, <3>1
  <2> QED
    BY <2>2, <2>5, <2>6
<1>6. /\ d \in Seq(Messages) /\ Len(d) = Len(q) - 1 /\ DOMAIN d = 1..(Len(q) - 1)
      /\ \A j \in 1..(Len(q) - 1) : d[j] = IF j < k THEN q[j] ELSE q[j + 1]
  <2> DEFINE u == SubSeq(q, 1, k - 1)
             v == SubSeq(q, k + 1, Len(q))
  <2>1. d = u \o v
    BY DEF RemoveAt
  <2>2. u \in Seq(Messages) /\ Len(u) = k - 1 /\ \A j \in 1..(k - 1) : u[j] = q[j]
    BY <1>4
  <2>3. /\ v \in Seq(Messages) /\ Len(v) = Len(q) - k
        /\ \A j \in 1..(Len(q) - k) : v[j] = q[k + j]
    BY <1>5
  <2> HIDE DEF d, u, v
  <2>4. /\ u \o v \in Seq(Messages) /\ Len(u \o v) = Len(u) + Len(v)
        /\ \A j \in 1..(Len(u) + Len(v)) :
              (u \o v)[j] = IF j <= Len(u) THEN u[j] ELSE v[j - Len(u)]
    BY <2>2, <2>3, ConcatProperties
  <2>5. d \in Seq(Messages) /\ Len(d) = Len(q) - 1
    BY <1>3, <2>1, <2>2, <2>3, <2>4
  <2>6. DOMAIN d = 1..(Len(q) - 1)
    BY <2>5
  <2>7. ASSUME NEW j \in 1..(Len(q) - 1)
        PROVE  d[j] = IF j < k THEN q[j] ELSE q[j + 1]
    <3>1. d[j] = IF j <= k - 1 THEN u[j] ELSE v[j - (k - 1)]
      BY <1>3, <2>1, <2>2, <2>3, <2>4
    <3>2. CASE j < k
      BY <1>3, <2>2, <3>1, <3>2
    <3>3. CASE ~ (j < k)
      <4>1. j - (k - 1) \in 1..(Len(q) - k) /\ k + (j - (k - 1)) = j + 1
        BY <1>3, <3>3
      <4> QED
        BY <1>3, <2>3, <3>1, <3>3, <4>1
    <3> QED
      BY <3>2, <3>3
  <2> QED
    BY <2>5, <2>6, <2>7
<1> HIDE DEF d
<1>7. \A j \in EventsIn(d) :
         /\ j \in Nat
         /\ j < k => j \in EventsIn(q) /\ d[j] = q[j]
         /\ ~ (j < k) => j + 1 \in EventsIn(q) /\ d[j] = q[j + 1]
  BY <1>3, <1>6 DEF EventsIn
<1>8. \A j \in EventsIn(q) :
         /\ j \in Nat
         /\ j < k => j \in EventsIn(d) /\ d[j] = q[j]
         /\ j > k => j - 1 \in EventsIn(d) /\ d[j - 1] = q[j]
  BY <1>3, <1>6 DEF EventsIn
<1>9. Sorted(q) => Sorted(d)
  <2> SUFFICES ASSUME Sorted(q), NEW i \in EventsIn(d), NEW j \in EventsIn(d), i < j
               PROVE  d[i].n < d[j].n
    BY DEF Sorted
  <2>1. PICK a \in EventsIn(q) : d[i] = q[a] /\ a = IF i < k THEN i ELSE i + 1
    BY <1>7
  <2>2. PICK b \in EventsIn(q) : d[j] = q[b] /\ b = IF j < k THEN j ELSE j + 1
    BY <1>7
  <2>3. a < b
    <3>1. i \in Nat /\ j \in Nat /\ k \in Nat
      BY <1>3, <1>6 DEF EventsIn
    <3> QED
      BY <2>1, <2>2, <3>1
  <2> QED
    BY <2>1, <2>2, <2>3 DEF Sorted
<1>10. k \in EventsIn(q)
  BY <1>3 DEF EventsIn
<1>11. Numbers(q) = Numbers(d) \cup {q[k].n}
  <2>1. Numbers(d) \subseteq Numbers(q)
    BY <1>7 DEF Numbers
  <2>2. ASSUME NEW j \in EventsIn(q) PROVE q[j].n \in Numbers(d) \cup {q[k].n}
    <3>1. j \in Nat /\ k \in Nat /\ (j < k \/ j = k \/ j > k)
      BY <1>3 DEF EventsIn
    <3> QED
      BY <1>8, <3>1 DEF Numbers
  <2>3. q[k].n \in Numbers(q)
    BY <1>10 DEF Numbers
  <2> QED
    BY <2>1, <2>2, <2>3 DEF Numbers
<1>12. q[k].n \in Numbers(q)
  BY <1>10 DEF Numbers
<1>13. d = DropOldestObservation(q, kinds)
  BY DEF d, k, DropOldestObservation
<1> QED
  BY <1>3, <1>6, <1>9, <1>11, <1>12, <1>13

\* What _enqueue does with an event that is later than all in the queue.
LEMMA EnqueueEvent ==
    ASSUME NEW q \in Seq(Messages), Len(q) <= QueueSize, NEW kinds,
           NEW n \in 1..MaxEvents
    PROVE  /\ Enqueued(q, Event(n), kinds).queue \in Seq(Messages)
           /\ Len(Enqueued(q, Event(n), kinds).queue) <= QueueSize
           /\ ~ Enqueued(q, Event(n), kinds).slow =>
                 /\ n \in Numbers(Enqueued(q, Event(n), kinds).queue)
                 /\ Numbers(Enqueued(q, Event(n), kinds).queue)
                       \subseteq Numbers(q) \cup {n}
                 /\ \A m \in Numbers(q) \ Numbers(Enqueued(q, Event(n), kinds).queue) :
                       kinds[m] = "observation"
                 /\ Sorted(q) /\ Before(Numbers(q), {n}) =>
                       Sorted(Enqueued(q, Event(n), kinds).queue)
<1> DEFINE e == Event(n)
           r == Enqueued(q, e, kinds)
<1>1. e \in Messages /\ e.type = "event" /\ e.n = n
  BY MessageType
<1>2. /\ Warning \in Messages /\ Warning.type # "event"
      /\ Close(SlowConsumer) \in Messages
  BY MessageType DEF Codes
<1>3. Len(q) \in Nat /\ QueueSize \in Nat \ {0}
  OBVIOUS
<1> HIDE DEF e
<1>4. CASE ~ Full(q)
  <2>1. r.queue = Append(q, e)
    BY <1>4 DEF Enqueued
  <2>2. Len(q) < QueueSize
    BY <1>3, <1>4 DEF Full
  <2>3. /\ Append(q, e) \in Seq(Messages) /\ Len(Append(q, e)) = Len(q) + 1
        /\ e.type = "event" =>
              /\ Numbers(Append(q, e)) = Numbers(q) \cup {e.n}
              /\ Sorted(q) /\ Before(Numbers(q), {e.n}) => Sorted(Append(q, e))
    BY <1>1, Appended
  <2>4. /\ r.queue \in Seq(Messages) /\ Len(r.queue) <= QueueSize
        /\ Numbers(r.queue) = Numbers(q) \cup {n}
        /\ Sorted(q) /\ Before(Numbers(q), {n}) => Sorted(r.queue)
    BY <1>1, <1>3, <2>1, <2>2, <2>3
  <2> QED
    BY <2>4 DEF e
<1>5. CASE Full(q) /\ \E i \in DOMAIN q : IsObservation(kinds, q[i])
  <2> DEFINE d == DropOldestObservation(q, kinds)
             a == Append(d, e)
  <2>1. /\ d \in Seq(Messages) /\ Len(d) = Len(q) - 1
        /\ Sorted(q) => Sorted(d)
    BY <1>5, Dropped
  <2>2. PICK m \in Numbers(q) : kinds[m] = "observation" /\ Numbers(q) = Numbers(d) \cup {m}
    BY <1>5, Dropped
  <2>3. r.queue = PutIfRoom(a, Warning) /\ ~ r.slow
    BY <1>5 DEF Enqueued
  <2> HIDE DEF d
  <2>4. /\ a \in Seq(Messages) /\ Len(a) = Len(q) /\ Numbers(a) = Numbers(d) \cup {n}
        /\ Sorted(d) /\ Before(Numbers(d), {n}) => Sorted(a)
    <3>1. /\ a \in Seq(Messages) /\ Len(a) = Len(d) + 1
          /\ e.type = "event" =>
                /\ Numbers(a) = Numbers(d) \cup {e.n}
                /\ Sorted(d) /\ Before(Numbers(d), {e.n}) => Sorted(a)
      BY <1>1, <2>1, Appended
    <3> QED
      BY <1>1, <1>3, <2>1, <3>1
  <2> HIDE DEF a
  <2>5. /\ r.queue \in Seq(Messages) /\ Len(r.queue) <= QueueSize
        /\ Numbers(r.queue) = Numbers(a)
        /\ Sorted(a) => Sorted(r.queue)
    <3>1. CASE Full(a)
      BY <1>3, <2>3, <2>4, <3>1 DEF PutIfRoom
    <3>2. CASE ~ Full(a)
      <4>1. r.queue = Append(a, Warning)
        BY <2>3, <3>2 DEF PutIfRoom
      <4>2. Len(a) < QueueSize
        BY <1>3, <2>4, <3>2 DEF Full
      <4>3. /\ Append(a, Warning) \in Seq(Messages)
            /\ Len(Append(a, Warning)) = Len(a) + 1
            /\ Numbers(Append(a, Warning)) = Numbers(a)
            /\ Sorted(a) => Sorted(Append(a, Warning))
        BY <1>2, <2>4, Appended
      <4> QED
        BY <1>3, <2>4, <4>1, <4>2, <4>3
    <3> QED
      BY <3>1, <3>2
  <2>6. Before(Numbers(q), {n}) => Before(Numbers(d), {n})
    BY <2>2 DEF Before
  <2> QED
    BY <2>1, <2>2, <2>4, <2>5, <2>6 DEF e
<1>6. CASE Full(q) /\ ~ \E i \in DOMAIN q : IsObservation(kinds, q[i])
  <2>1. r.queue = Append(Tail(q), Close(SlowConsumer)) /\ r.slow
    BY <1>6 DEF Enqueued
  <2>2. Len(q) = QueueSize /\ q # <<>>
    BY <1>3, <1>6 DEF Full
  <2>3. Tail(q) \in Seq(Messages) /\ Len(Tail(q)) = Len(q) - 1
    BY <2>2
  <2>4. r.queue \in Seq(Messages) /\ Len(r.queue) = Len(Tail(q)) + 1
    BY <1>2, <2>1, <2>3, Appended
  <2> QED
    BY <1>3, <2>1, <2>2, <2>3, <2>4 DEF e
<1> QED
  BY <1>4, <1>5, <1>6

-----------------------------------------------------------------------------
(* A client and its sender.                                                *)

\* A client nothing happens to keeps its line, whatever is published.
LEMMA Unmoved ==
    ASSUME NEW c \in Clients, LineOK(c), offered[c] \subseteq 1..Len(published),
           queue'[c] = queue[c], sent'[c] = sent[c], sender'[c] = sender[c],
           offered'[c] = offered[c],
           \A n \in 1..Len(published) : published'[n] = published[n]
    PROVE  LineOK(c)'
<1>1. InHand(c)' = InHand(c) /\ InLine(c)' = InLine(c)
  BY DEF InHand, InLine
<1> QED
  BY <1>1 DEF LineOK

\* What a sender that takes m becomes.
LEMMA Handled ==
    ASSUME Typed, NEW c \in Clients, NEW m \in Messages, Handles(c, m)
    PROVE  /\ sender' \in [Clients -> SenderType]
           /\ wsClosed' \in [Clients -> Codes \cup {0}]
           /\ \A x \in Clients \ {c} : sender'[x] = sender[x]
           /\ InHand(c)' = IF m.type = "event" THEN {m.n} ELSE {}
<1>1. sender \in [Clients -> SenderType] /\ wsClosed \in [Clients -> Codes \cup {0}]
  BY DEF Typed, TypeOK
<1>2. CASE m.type = "close"
  <2>1. /\ sender' = [sender EXCEPT ![c] = [does |-> "stopped"]]
        /\ wsClosed' = [wsClosed EXCEPT ![c] = m.n]
    BY <1>2 DEF Handles
  <2>2. [does |-> "stopped"] \in SenderType
    BY DEF SenderType, NotSending
  <2>3. m.n \in Codes
    BY <1>2, MessageType
  <2>4. sender'[c].does = "stopped"
    BY <1>1, <2>1
  <2> QED
    BY <1>1, <1>2, <2>1, <2>2, <2>3, <2>4 DEF InHand
<1>3. CASE m.type # "close"
  <2>1. sender' = [sender EXCEPT ![c] = Sending(m)] /\ wsClosed' = wsClosed
    BY <1>3 DEF Handles
  <2>2. Sending(m) \in SenderType
    BY DEF SenderType
  <2>3. sender'[c].does = "sending" /\ sender'[c].message = m
    BY <1>1, <2>1 DEF Sending
  <2> QED
    BY <1>1, <2>1, <2>2, <2>3 DEF InHand
<1> QED
  BY <1>2, <1>3

\* A sender that takes the head of the queue.
LEMMA TakesHead ==
    ASSUME Typed, NEW c \in Clients, queue[c] # <<>>,
           queue' = [queue EXCEPT ![c] = Tail(@)], Handles(c, Head(queue[c]))
    PROVE  /\ queue' \in [Clients -> Seq(Messages)]
           /\ \A x \in Clients : Len(queue'[x]) <= QueueSize
           /\ \A x \in Clients \ {c} : queue'[x] = queue[x] /\ sender'[x] = sender[x]
           /\ sender' \in [Clients -> SenderType]
           /\ wsClosed' \in [Clients -> Codes \cup {0}]
           /\ Numbers(queue[c]) = InHand(c)' \cup Numbers(queue'[c])
           /\ Sorted(queue[c]) =>
                 Sorted(queue'[c]) /\ Before(InHand(c)', Numbers(queue'[c]))
<1> DEFINE q == queue[c]
           head == IF Head(q).type = "event" THEN {Head(q).n} ELSE {}
<1>1. /\ queue \in [Clients -> Seq(Messages)] /\ q \in Seq(Messages)
      /\ \A x \in Clients : Len(queue[x]) <= QueueSize
  BY DEF Typed, TypeOK
<1>2. queue'[c] = Tail(q) /\ \A x \in Clients \ {c} : queue'[x] = queue[x]
  BY <1>1
<1>3. /\ Head(q) \in Messages /\ Tail(q) \in Seq(Messages) /\ Len(Tail(q)) = Len(q) - 1
      /\ Numbers(q) = head \cup Numbers(Tail(q))
      /\ Sorted(q) => Sorted(Tail(q)) /\ Before(head, Numbers(Tail(q)))
  BY <1>1, Shifted
<1>4. /\ sender' \in [Clients -> SenderType]
      /\ wsClosed' \in [Clients -> Codes \cup {0}]
      /\ \A x \in Clients \ {c} : sender'[x] = sender[x]
      /\ InHand(c)' = head
  BY <1>3, Handled
<1>5. queue' \in [Clients -> Seq(Messages)]
  BY <1>1, <1>3
<1> HIDE DEF head
<1>6. \A x \in Clients : Len(queue'[x]) <= QueueSize
  <2>1. Len(q) \in Nat /\ QueueSize \in Nat /\ Len(q) <= QueueSize
    BY <1>1
  <2> QED
    BY <1>1, <1>2, <1>3, <2>1
<1> QED
  BY <1>2, <1>3, <1>4, <1>5, <1>6

\* Appending to what was sent.
LEMMA SentAppended ==
    ASSUME NEW s \in Seq(1..MaxEvents), NEW n \in 1..MaxEvents
    PROVE  /\ Append(s, n) \in Seq(1..MaxEvents)
           /\ Range(Append(s, n)) = Range(s) \cup {n}
           /\ (/\ \A i, j \in DOMAIN s : i < j => s[i] < s[j]
               /\ Before(Range(s), {n}))
              => \A i, j \in DOMAIN Append(s, n) :
                    i < j => Append(s, n)[i] < Append(s, n)[j]
<1> DEFINE t == Append(s, n)
<1>1. /\ t \in Seq(1..MaxEvents) /\ DOMAIN t = DOMAIN s \cup {Len(s) + 1}
      /\ t[Len(s) + 1] = n /\ \A i \in DOMAIN s : t[i] = s[i]
      /\ Len(s) \in Nat /\ DOMAIN s = 1..Len(s)
  OBVIOUS
<1> HIDE DEF t
<1>2. Range(t) = Range(s) \cup {n}
  BY <1>1 DEF Range
<1>3. ASSUME \A i, j \in DOMAIN s : i < j => s[i] < s[j], Before(Range(s), {n}),
             NEW i \in DOMAIN t, NEW j \in DOMAIN t, i < j
      PROVE  t[i] < t[j]
  <2>1. i \in DOMAIN s
    BY <1>1, <1>3
  <2>2. s[i] < n
    BY <1>3, <2>1 DEF Before, Range
  <2> QED
    BY <1>1, <1>3, <2>1, <2>2
<1> QED
  BY <1>1, <1>2, <1>3 DEF t

-----------------------------------------------------------------------------
(* The broker's steps.                                                     *)

LEMMA PublishStep ==
    ASSUME IInv, NEW kind \in Kinds, Publish(kind)
    PROVE  IInv'
<1> DEFINE n == Len(published) + 1
           targets == {c \in registered \ closed : Matches(c, kind)}
           after(c) == Enqueued(queue[c], Event(n), published')
<1>1. /\ published \in Seq(Kinds) /\ Len(published) < MaxEvents
      /\ published' = Append(published, kind)
  BY DEF IInv, Typed, TypeOK, Publish
<1>2. /\ n \in 1..MaxEvents /\ published' \in Seq(Kinds) /\ Len(published') = n
      /\ \A m \in 1..Len(published) : published'[m] = published[m]
  BY <1>1
<1>3. /\ queue \in [Clients -> Seq(Messages)]
      /\ \A c \in Clients : Len(queue[c]) <= QueueSize
      /\ offered \in [Clients -> SUBSET (1..MaxEvents)]
      /\ registered \subseteq Clients /\ closed \subseteq Clients
  BY DEF IInv, Typed, TypeOK
<1>4. /\ queue' = [c \in Clients |-> IF c \in targets THEN after(c).queue ELSE queue[c]]
      /\ closed' = closed \cup {c \in targets : after(c).slow}
      /\ offered' = [c \in Clients |-> IF c \in targets THEN offered[c] \cup {n} ELSE offered[c]]
      /\ UNCHANGED <<registered, observing, handler, sender, wsClosed, sent,
                     heartbeats, updates>>
  BY Zenon DEF Publish
<1>5. targets \subseteq registered \ closed
  OBVIOUS
<1> HIDE DEF targets, n
<1>6. ASSUME NEW c \in Clients
      PROVE  /\ after(c).queue \in Seq(Messages) /\ Len(after(c).queue) <= QueueSize
             /\ ~ after(c).slow =>
                   /\ n \in Numbers(after(c).queue)
                   /\ Numbers(after(c).queue) \subseteq Numbers(queue[c]) \cup {n}
                   /\ \A m \in Numbers(queue[c]) \ Numbers(after(c).queue) :
                         published'[m] = "observation"
                   /\ Sorted(queue[c]) /\ Before(Numbers(queue[c]), {n}) =>
                         Sorted(after(c).queue)
  <2>1. queue[c] \in Seq(Messages) /\ Len(queue[c]) <= QueueSize
    BY <1>3
  <2> QED
    BY <1>2, <2>1, EnqueueEvent
<1> HIDE DEF after
<1>7. Typed'
  <2>1. /\ queue' \in [Clients -> Seq(Messages)]
        /\ \A c \in Clients : queue'[c] \in Seq(Messages) /\ Len(queue'[c]) <= QueueSize
    BY <1>3, <1>4, <1>6
  <2>2. offered' \in [Clients -> SUBSET (1..MaxEvents)]
    BY <1>2, <1>3, <1>4
  <2>3. closed' \subseteq Clients
    BY <1>3, <1>4, <1>5
  <2>4. Len(published') <= MaxEvents
    BY <1>2
  <2> QED
    BY <1>2, <1>4, <2>1, <2>2, <2>3, <2>4 DEF IInv, Typed, TypeOK
<1>8. NotBegun'
  <2> SUFFICES ASSUME NEW c \in Clients
               PROVE  /\ handler[c] = "none" =>
                            /\ c \notin registered /\ queue'[c] = <<>> /\ sent[c] = <<>>
                            /\ offered'[c] = {}
                      /\ handler[c] \in {"none", "starting"} =>
                            sender[c] = [does |-> "none"]
    BY <1>4 DEF NotBegun
  <2> QED
    BY <1>4, <1>5 DEF IInv, NotBegun
<1>9. OfferedPublished'
  <2> SUFFICES ASSUME NEW c \in Clients PROVE offered'[c] \subseteq 1..n
    BY <1>2 DEF OfferedPublished
  <2>1. offered[c] \subseteq 1..Len(published) /\ n = Len(published) + 1
    BY DEF IInv, OfferedPublished, n
  <2>2. offered[c] \subseteq 1..n /\ n \in 1..n
    BY <1>1, <2>1
  <2> QED
    BY <1>4, <2>2
<1>10. ASSUME NEW c \in registered' \ closed' PROVE LineOK(c)'
  <2>1. /\ c \in Clients /\ c \in registered \ closed
        /\ offered[c] \subseteq 1..Len(published)
    BY <1>3, <1>4, <1>10 DEF IInv, OfferedPublished
  <2>2. LineOK(c)
    BY <2>1 DEF IInv
  <2>3. CASE c \notin targets
    <3>1. queue'[c] = queue[c] /\ offered'[c] = offered[c]
      BY <1>4, <2>1, <2>3
    <3> QED
      BY <1>2, <1>4, <2>1, <2>2, <3>1, Unmoved
  <2>4. CASE c \in targets
    <3>1. /\ queue'[c] = after(c).queue /\ offered'[c] = offered[c] \cup {n}
          /\ ~ after(c).slow /\ sent'[c] = sent[c] /\ sender' = sender
      BY <1>4, <1>10, <2>1, <2>4
    <3>2. InHand(c)' = InHand(c)
      BY <3>1 DEF InHand
    <3>3. \A m \in offered[c] : m < n
      BY <1>1, <2>1 DEF n
    <3>4. InLine(c) \subseteq offered[c]
      BY <2>2 DEF LineOK
    <3>5. Before(Numbers(queue[c]), {n}) /\ Before(Range(sent[c]), {n})
          /\ Before(InHand(c), {n})
      BY <3>3, <3>4 DEF Before, InLine
    <3>6. /\ n \in Numbers(queue'[c])
          /\ Numbers(queue'[c]) \subseteq Numbers(queue[c]) \cup {n}
          /\ \A m \in Numbers(queue[c]) \ Numbers(queue'[c]) :
                published'[m] = "observation"
          /\ Sorted(queue[c]) => Sorted(queue'[c])
      BY <1>6, <2>1, <3>1, <3>5
    <3>7. Sorted(queue'[c])
      BY <2>2, <3>6 DEF LineOK
    <3>8. Before(Range(sent'[c]), InHand(c)' \cup Numbers(queue'[c]))
      BY <2>2, <3>1, <3>2, <3>5, <3>6 DEF LineOK, Before
    <3>9. Before(InHand(c)', Numbers(queue'[c]))
      BY <2>2, <3>2, <3>5, <3>6 DEF LineOK, Before
    <3>10. InLine(c)' = Range(sent[c]) \cup InHand(c) \cup Numbers(queue'[c])
      BY <3>1, <3>2 DEF InLine
    <3>11. InLine(c)' \subseteq offered'[c]
      BY <3>1, <3>4, <3>6, <3>10 DEF InLine
    <3>12. ASSUME NEW m \in offered'[c] \ InLine(c)' PROVE published'[m] = "observation"
      <4>1. m \in offered[c] /\ m \in 1..Len(published)
        BY <2>1, <3>1, <3>6, <3>10, <3>12
      <4>2. CASE m \in InLine(c)
        BY <3>6, <3>10, <3>12, <4>2 DEF InLine
      <4>3. CASE m \notin InLine(c)
        BY <1>2, <2>2, <4>1, <4>3 DEF LineOK
      <4> QED
        BY <4>2, <4>3
    <3>13. \A i, j \in DOMAIN sent'[c] : i < j => sent'[c][i] < sent'[c][j]
      BY <2>2, <3>1 DEF LineOK
    <3> QED
      BY <3>7, <3>8, <3>9, <3>11, <3>12, <3>13 DEF LineOK
  <2> QED
    BY <2>3, <2>4
<1> QED
  BY <1>7, <1>8, <1>9, <1>10 DEF IInv

LEMMA CloseAllStep ==
    ASSUME IInv, CloseAll
    PROVE  IInv'
<1>1. /\ queue \in [Clients -> Seq(Messages)] /\ registered \subseteq Clients
      /\ \A c \in Clients : Len(queue[c]) <= QueueSize
  BY DEF IInv, Typed, TypeOK
<1>2. /\ registered' = {} /\ closed' = closed \cup registered
      /\ queue' = [c \in Clients |-> IF c \in registered
                                     THEN PutIfRoom(queue[c], Close(Shutdown))
                                     ELSE queue[c]]
      /\ UNCHANGED <<published, observing, handler, sender, wsClosed, offered,
                     sent, heartbeats, updates>>
  BY DEF CloseAll
<1>3. Close(Shutdown) \in Messages
  BY MessageType DEF Codes
<1>4. ASSUME NEW c \in Clients
      PROVE  /\ PutIfRoom(queue[c], Close(Shutdown)) \in Seq(Messages)
             /\ Len(PutIfRoom(queue[c], Close(Shutdown))) <= QueueSize
  BY <1>1, <1>3 DEF PutIfRoom, Full
<1>5. Typed'
  <2>1. /\ queue' \in [Clients -> Seq(Messages)]
        /\ \A c \in Clients : queue'[c] \in Seq(Messages) /\ Len(queue'[c]) <= QueueSize
    BY <1>1, <1>2, <1>4
  <2>2. IsFiniteSet(registered') /\ Cardinality(registered') <= MaxConnections
    BY <1>2, FS_EmptySet
  <2>3. closed' \subseteq Clients /\ registered' \subseteq Clients
    BY <1>1, <1>2 DEF IInv, Typed, TypeOK
  <2> QED
    BY <1>2, <2>1, <2>2, <2>3 DEF IInv, Typed, TypeOK
<1>6. NotBegun'
  BY <1>2 DEF IInv, NotBegun
<1>7. OfferedPublished'
  BY <1>2 DEF IInv, OfferedPublished
<1> QED
  BY <1>2, <1>5, <1>6, <1>7 DEF IInv

LEMMA UpdateStep ==
    ASSUME IInv, NEW x \in Clients, UpdateSubscription(x)
    PROVE  IInv'
<1>1. /\ UNCHANGED <<published, registered, closed, queue, handler, sender,
                     wsClosed, offered, sent, heartbeats>>
      /\ updates < MaxUpdates /\ updates' = updates + 1
      /\ observing' \subseteq observing \cup {x}
  BY DEF UpdateSubscription
<1>2. Typed'
  <2>1. updates' \in 0..MaxUpdates /\ observing' \subseteq Clients
    BY <1>1 DEF IInv, Typed, TypeOK
  <2> QED
    BY <1>1, <2>1 DEF IInv, Typed, TypeOK
<1>3. NotBegun' /\ OfferedPublished'
  BY <1>1 DEF IInv, NotBegun, OfferedPublished
<1>4. ASSUME NEW c \in registered' \ closed' PROVE LineOK(c)'
  BY <1>1 DEF IInv, LineOK, InLine, InHand
<1> QED
  BY <1>2, <1>3, <1>4 DEF IInv

-----------------------------------------------------------------------------
(* The steps of a connection.                                              *)

LEMMA ConnectStep ==
    ASSUME IInv, NEW x \in Clients, Connect(x)
    PROVE  IInv'
<1>1. /\ UNCHANGED <<published, closed, observing, queue, sender, wsClosed,
                     offered, sent, heartbeats, updates>>
      /\ handler[x] = "none" /\ handler' = [handler EXCEPT ![x] = "starting"]
      /\ registered' = registered \cup {x}
      /\ Cardinality(registered) < MaxConnections
  BY DEF Connect
<1>2. /\ handler \in [Clients -> Handlers] /\ registered \subseteq Clients
      /\ IsFiniteSet(registered) /\ NotBegun
  BY DEF IInv, Typed, TypeOK
<1>3. /\ x \notin registered /\ queue[x] = <<>> /\ sent[x] = <<>> /\ offered[x] = {}
      /\ sender[x] = [does |-> "none"]
  BY <1>1, <1>2 DEF NotBegun
<1>4. Typed'
  <2>1. IsFiniteSet(registered') /\ Cardinality(registered') = Cardinality(registered) + 1
        /\ Cardinality(registered) \in Nat
    BY <1>1, <1>2, <1>3, FS_AddElement, FS_CardinalityType
  <2>2. Cardinality(registered') <= MaxConnections
    BY <1>1, <2>1
  <2>3. handler' \in [Clients -> Handlers] /\ registered' \subseteq Clients
    BY <1>1, <1>2 DEF Handlers
  <2> QED
    BY <1>1, <2>1, <2>2, <2>3 DEF IInv, Typed, TypeOK
<1>5. NotBegun'
  <2>1. handler'[x] = "starting" /\ \A c \in Clients \ {x} : handler'[c] = handler[c]
    BY <1>1, <1>2
  <2> QED
    BY <1>1, <1>2, <1>3, <2>1 DEF NotBegun
<1>6. OfferedPublished'
  BY <1>1 DEF IInv, OfferedPublished
<1>7. ASSUME NEW c \in registered' \ closed' PROVE LineOK(c)'
  <2>1. CASE c # x
    BY <1>1, <1>7, <2>1 DEF IInv, LineOK, InLine, InHand
  <2>2. CASE c = x
    <3>1. /\ queue'[c] = <<>> /\ sent'[c] = <<>> /\ offered'[c] = {}
          /\ sender'[c].does = "none"
      BY <1>1, <1>3, <2>2
    <3>2. InHand(c)' = {}
      BY <3>1 DEF InHand
    <3>3. DOMAIN sent'[c] = {} /\ Range(sent'[c]) = {}
      BY <3>1 DEF Range
    <3>4. EventsIn(queue'[c]) = {}
      BY <3>1 DEF EventsIn
    <3>5. Numbers(queue'[c]) = {}
      BY <3>4 DEF Numbers
    <3>6. InLine(c)' = {}
      BY <3>2, <3>3, <3>5 DEF InLine
    <3> QED
      BY <3>1, <3>2, <3>3, <3>4, <3>5, <3>6 DEF LineOK, Before, Sorted
  <2> QED
    BY <2>1, <2>2
<1> QED
  BY <1>4, <1>5, <1>6, <1>7 DEF IInv

LEMMA ReadyStep ==
    ASSUME IInv, NEW x \in Clients, Ready(x)
    PROVE  IInv'
<1>1. /\ UNCHANGED <<published, registered, closed, observing, queue, wsClosed,
                     offered, sent, heartbeats, updates>>
      /\ handler[x] = "starting" /\ handler' = [handler EXCEPT ![x] = "receiving"]
      /\ sender' = [sender EXCEPT ![x].does = IF x \in closed THEN "stopped" ELSE "waiting"]
  BY DEF Ready
<1>2. /\ handler \in [Clients -> Handlers] /\ sender \in [Clients -> SenderType]
      /\ NotBegun
  BY DEF IInv, Typed, TypeOK
<1>3. sender[x] = [does |-> "none"]
  BY <1>1, <1>2 DEF NotBegun
<1>4. \/ sender'[x] = [does |-> "stopped"]
      \/ sender'[x] = [does |-> "waiting"]
  BY <1>1, <1>2, <1>3
<1>5. /\ \A c \in Clients \ {x} : sender'[c] = sender[c] /\ handler'[c] = handler[c]
      /\ handler'[x] = "receiving" /\ handler' \in [Clients -> Handlers]
  BY <1>1, <1>2 DEF Handlers
<1>6. sender' \in [Clients -> SenderType]
  <2>1. \A c \in Clients : sender'[c] \in SenderType
    BY <1>2, <1>4, <1>5 DEF SenderType, NotSending
  <2> QED
    BY <1>1, <1>2, <2>1
<1>7. Typed'
  BY <1>1, <1>5, <1>6 DEF IInv, Typed, TypeOK, SenderType
<1>8. NotBegun'
  BY <1>1, <1>2, <1>5 DEF NotBegun
<1>9. OfferedPublished'
  BY <1>1 DEF IInv, OfferedPublished
<1>10. ASSUME NEW c \in registered' \ closed' PROVE LineOK(c)'
  <2>1. c \in Clients /\ LineOK(c)
    BY <1>1, <1>10 DEF IInv, Typed, TypeOK
  <2>2. InHand(c)' = InHand(c)
    BY <1>3, <1>4, <1>5, <2>1 DEF InHand
  <2> QED
    BY <1>1, <2>1, <2>2 DEF LineOK, InLine
<1> QED
  BY <1>7, <1>8, <1>9, <1>10 DEF IInv

LEMMA FailsToStartStep ==
    ASSUME IInv, NEW x \in Clients, FailsToStart(x)
    PROVE  IInv'
<1>1. /\ UNCHANGED <<published, registered, closed, observing, queue, sender,
                     wsClosed, offered, sent, heartbeats, updates>>
      /\ handler' = [handler EXCEPT ![x] = "failed"]
  BY DEF FailsToStart
<1>2. handler \in [Clients -> Handlers]
  BY DEF IInv, Typed, TypeOK
<1>3. /\ \A c \in Clients \ {x} : handler'[c] = handler[c]
      /\ handler'[x] = "failed" /\ handler' \in [Clients -> Handlers]
  BY <1>1, <1>2 DEF Handlers
<1>4. Typed'
  BY <1>1, <1>3 DEF IInv, Typed, TypeOK
<1>5. NotBegun' /\ OfferedPublished'
  BY <1>1, <1>3 DEF IInv, NotBegun, OfferedPublished
<1>6. ASSUME NEW c \in registered' \ closed' PROVE LineOK(c)'
  BY <1>1 DEF IInv, LineOK, InLine, InHand
<1> QED
  BY <1>4, <1>5, <1>6 DEF IInv

LEMMA BeatStep ==
    ASSUME IInv, NEW x \in Clients, Beat(x)
    PROVE  IInv'
<1>1. /\ UNCHANGED <<published, registered, closed, observing, handler, sender,
                     wsClosed, offered, sent, updates>>
      /\ handler[x] = "receiving"
      /\ heartbeats < MaxHeartbeats /\ heartbeats' = heartbeats + 1
      /\ queue' = [queue EXCEPT ![x] = PutIfRoom(@, Heartbeat)]
  BY DEF Beat
<1>2. /\ queue \in [Clients -> Seq(Messages)]
      /\ \A c \in Clients : Len(queue[c]) <= QueueSize
  BY DEF IInv, Typed, TypeOK
<1> DEFINE q == queue[x]
           p == PutIfRoom(q, Heartbeat)
<1>3. /\ p \in Seq(Messages) /\ Len(p) <= QueueSize /\ Numbers(p) = Numbers(q)
      /\ Sorted(q) => Sorted(p)
  <2>1. q \in Seq(Messages) /\ Len(q) <= QueueSize
    BY <1>2
  <2>2. Heartbeat \in Messages /\ Heartbeat.type # "event"
    BY MessageType
  <2>3. CASE Full(q)
    BY <2>1, <2>3 DEF PutIfRoom
  <2>4. CASE ~ Full(q)
    <3>1. p = Append(q, Heartbeat)
      BY <2>4 DEF PutIfRoom
    <3>2. /\ Append(q, Heartbeat) \in Seq(Messages)
          /\ Len(Append(q, Heartbeat)) = Len(q) + 1
          /\ Numbers(Append(q, Heartbeat)) = Numbers(q)
          /\ Sorted(q) => Sorted(Append(q, Heartbeat))
      BY <2>1, <2>2, Appended
    <3>3. Len(q) + 1 <= QueueSize
      BY <2>1, <2>4 DEF Full
    <3> QED
      BY <3>1, <3>2, <3>3
  <2> QED
    BY <2>3, <2>4
<1>4. queue'[x] = p /\ \A c \in Clients \ {x} : queue'[c] = queue[c]
  BY <1>1, <1>2
<1> HIDE DEF p
<1>5. Typed'
  <2>1. queue' \in [Clients -> Seq(Messages)]
    BY <1>1, <1>2, <1>3, <1>4
  <2>2. \A c \in Clients : queue'[c] \in Seq(Messages) /\ Len(queue'[c]) <= QueueSize
    BY <1>2, <1>3, <1>4
  <2>3. heartbeats' \in 0..MaxHeartbeats
    BY <1>1 DEF IInv, Typed, TypeOK
  <2> QED
    BY <1>1, <2>1, <2>2, <2>3 DEF IInv, Typed, TypeOK
<1>6. NotBegun' /\ OfferedPublished'
  BY <1>1, <1>4 DEF IInv, NotBegun, OfferedPublished
<1>7. ASSUME NEW c \in registered' \ closed' PROVE LineOK(c)'
  <2>1. c \in Clients /\ LineOK(c)
    BY <1>1, <1>7 DEF IInv, Typed, TypeOK
  <2>2. /\ Numbers(queue'[c]) = Numbers(queue[c])
        /\ Sorted(queue[c]) => Sorted(queue'[c])
    BY <1>3, <1>4, <2>1
  <2>3. InHand(c)' = InHand(c) /\ InLine(c)' = InLine(c)
    BY <1>1, <2>2 DEF InHand, InLine
  <2> QED
    BY <1>1, <2>1, <2>2, <2>3 DEF LineOK
<1> QED
  BY <1>5, <1>6, <1>7 DEF IInv

LEMMA DisconnectStep ==
    ASSUME IInv, NEW x \in Clients, Disconnect(x)
    PROVE  IInv'
<1>1. /\ UNCHANGED <<published, observing, queue, wsClosed, offered, sent,
                     heartbeats, updates>>
      /\ handler' = [handler EXCEPT ![x] = "ended"]
      /\ sender' = [sender EXCEPT ![x] = [does |-> "stopped"]]
      /\ registered' = registered \ {x} /\ closed' = closed \cup {x}
  BY DEF Disconnect
<1>2. /\ handler \in [Clients -> Handlers] /\ sender \in [Clients -> SenderType]
      /\ registered \subseteq Clients /\ IsFiniteSet(registered)
      /\ Cardinality(registered) <= MaxConnections
  BY DEF IInv, Typed, TypeOK
<1>3. /\ \A c \in Clients \ {x} : handler'[c] = handler[c] /\ sender'[c] = sender[c]
      /\ handler'[x] = "ended" /\ handler' \in [Clients -> Handlers]
      /\ sender' \in [Clients -> SenderType]
  BY <1>1, <1>2 DEF Handlers, SenderType, NotSending
<1>4. Typed'
  <2>1. /\ IsFiniteSet(registered') /\ Cardinality(registered') <= Cardinality(registered)
        /\ Cardinality(registered) \in Nat /\ Cardinality(registered') \in Nat
    BY <1>1, <1>2, FS_Subset, FS_CardinalityType
  <2>2. Cardinality(registered') <= MaxConnections
    BY <1>2, <2>1
  <2> QED
    BY <1>1, <1>3, <2>1, <2>2 DEF IInv, Typed, TypeOK, SenderType
<1>5. NotBegun' /\ OfferedPublished'
  BY <1>1, <1>3 DEF IInv, NotBegun, OfferedPublished
<1>6. ASSUME NEW c \in registered' \ closed' PROVE LineOK(c)'
  <2>1. c \in Clients \ {x} /\ LineOK(c)
    BY <1>1, <1>2, <1>6 DEF IInv
  <2>2. InHand(c)' = InHand(c)
    BY <1>3, <2>1 DEF InHand
  <2> QED
    BY <1>1, <2>1, <2>2 DEF LineOK, InLine
<1> QED
  BY <1>4, <1>5, <1>6 DEF IInv

LEMMA GetStep ==
    ASSUME IInv, NEW x \in Clients, Get(x)
    PROVE  IInv'
<1>1. /\ UNCHANGED <<published, registered, closed, observing, handler, offered,
                     sent, heartbeats, updates>>
      /\ sender[x].does = "waiting" /\ queue[x] # <<>>
      /\ queue' = [queue EXCEPT ![x] = Tail(@)]
      /\ Handles(x, Head(queue[x]))
  BY DEF Get
<1>2. Typed /\ queue \in [Clients -> Seq(Messages)]
  BY DEF IInv, Typed
<1>3. /\ queue' \in [Clients -> Seq(Messages)]
      /\ \A c \in Clients : Len(queue'[c]) <= QueueSize
      /\ \A c \in Clients \ {x} : queue'[c] = queue[c] /\ sender'[c] = sender[c]
      /\ sender' \in [Clients -> SenderType]
      /\ wsClosed' \in [Clients -> Codes \cup {0}]
      /\ Numbers(queue[x]) = InHand(x)' \cup Numbers(queue'[x])
      /\ Sorted(queue[x]) =>
            Sorted(queue'[x]) /\ Before(InHand(x)', Numbers(queue'[x]))
  BY <1>1, <1>2, TakesHead
<1>4. Typed'
  BY <1>1, <1>3 DEF IInv, Typed, TypeOK, SenderType
<1>5. handler[x] \notin {"none", "starting"}
  BY <1>1 DEF IInv, NotBegun
<1>6. NotBegun' /\ OfferedPublished'
  BY <1>1, <1>3, <1>5 DEF IInv, NotBegun, OfferedPublished
<1>7. ASSUME NEW c \in registered' \ closed' PROVE LineOK(c)'
  <2>1. c \in Clients /\ LineOK(c)
    BY <1>1, <1>2, <1>7 DEF IInv, Typed, TypeOK
  <2>2. CASE c # x
    <3>1. queue'[c] = queue[c] /\ sender'[c] = sender[c]
      BY <1>3, <2>1, <2>2
    <3>2. InHand(c)' = InHand(c) /\ InLine(c)' = InLine(c)
      BY <1>1, <3>1 DEF InHand, InLine
    <3> QED
      BY <1>1, <2>1, <3>1, <3>2 DEF LineOK
  <2>3. CASE c = x
    <3>1. InHand(c) = {}
      BY <1>1, <2>3 DEF InHand
    <3>2. InLine(c)' = InLine(c)
      BY <1>1, <1>3, <2>3, <3>1 DEF InLine
    <3>3. Before(Range(sent'[c]), InHand(c)' \cup Numbers(queue'[c]))
      BY <1>1, <1>3, <2>1, <2>3 DEF LineOK, Before
    <3>4. Sorted(queue'[c]) /\ Before(InHand(c)', Numbers(queue'[c]))
      BY <1>3, <2>1, <2>3 DEF LineOK
    <3> QED
      BY <1>1, <2>1, <3>2, <3>3, <3>4 DEF LineOK
  <2> QED
    BY <2>2, <2>3
<1> QED
  BY <1>4, <1>6, <1>7 DEF IInv

LEMMA SentStep ==
    ASSUME IInv, NEW x \in Clients, Sent(x)
    PROVE  IInv'
<1>1. /\ UNCHANGED <<published, registered, closed, observing, handler, offered,
                     heartbeats, updates>>
      /\ sender[x].does = "sending" /\ Continues(x)
      /\ sent' = IF sender[x].message.type = "event"
                 THEN [sent EXCEPT ![x] = Append(@, sender[x].message.n)]
                 ELSE sent
  BY DEF Sent
<1>2. /\ Typed /\ queue \in [Clients -> Seq(Messages)]
      /\ sent \in [Clients -> Seq(1..MaxEvents)] /\ sender \in [Clients -> SenderType]
      /\ wsClosed \in [Clients -> Codes \cup {0}]
      /\ \A c \in Clients : Len(queue[c]) <= QueueSize
  BY DEF IInv, Typed, TypeOK
<1>3. sender[x].message \in Messages
  BY <1>1, <1>2, SenderFacts
\* What is sent is what was in hand.
<1>4. /\ sent' \in [Clients -> Seq(1..MaxEvents)]
      /\ \A c \in Clients \ {x} : sent'[c] = sent[c]
      /\ Range(sent'[x]) = Range(sent[x]) \cup InHand(x)
      /\ (/\ \A i, j \in DOMAIN sent[x] : i < j => sent[x][i] < sent[x][j]
          /\ Before(Range(sent[x]), InHand(x)))
         => \A i, j \in DOMAIN sent'[x] : i < j => sent'[x][i] < sent'[x][j]
  <2>1. CASE sender[x].message.type = "event"
    <3> DEFINE n == sender[x].message.n
    <3>1. n \in 1..MaxEvents
      BY <1>3, <2>1, MessageType
    <3>2. InHand(x) = {n}
      BY <1>1, <2>1 DEF InHand
    <3>3. sent' = [sent EXCEPT ![x] = Append(@, n)]
      BY <1>1, <2>1
    <3> HIDE DEF n
    <3>4. sent'[x] = Append(sent[x], n) /\ sent[x] \in Seq(1..MaxEvents)
      BY <1>2, <3>3
    <3>5. /\ Append(sent[x], n) \in Seq(1..MaxEvents)
          /\ Range(Append(sent[x], n)) = Range(sent[x]) \cup {n}
          /\ (/\ \A i, j \in DOMAIN sent[x] : i < j => sent[x][i] < sent[x][j]
              /\ Before(Range(sent[x]), {n}))
             => \A i, j \in DOMAIN Append(sent[x], n) :
                   i < j => Append(sent[x], n)[i] < Append(sent[x], n)[j]
      BY <3>1, <3>4, SentAppended
    <3>6. sent' \in [Clients -> Seq(1..MaxEvents)]
      BY <1>2, <3>3, <3>5
    <3>7. \A c \in Clients \ {x} : sent'[c] = sent[c]
      BY <1>2, <3>3
    <3> QED
      BY <3>2, <3>4, <3>5, <3>6, <3>7
  <2>2. CASE sender[x].message.type # "event"
    BY <1>1, <1>2, <2>2 DEF InHand
  <2> QED
    BY <2>1, <2>2
\* What is taken next was the head of the queue.
<1>5. /\ queue' \in [Clients -> Seq(Messages)]
      /\ \A c \in Clients : Len(queue'[c]) <= QueueSize
      /\ \A c \in Clients \ {x} : queue'[c] = queue[c] /\ sender'[c] = sender[c]
      /\ sender' \in [Clients -> SenderType]
      /\ wsClosed' \in [Clients -> Codes \cup {0}]
      /\ Numbers(queue[x]) = InHand(x)' \cup Numbers(queue'[x])
      /\ Sorted(queue[x]) =>
            Sorted(queue'[x]) /\ Before(InHand(x)', Numbers(queue'[x]))
  <2>1. CASE x \in closed \/ queue[x] = <<>>
    <3>1. /\ sender' = [sender EXCEPT ![x] =
                          [does |-> IF x \in closed THEN "stopped" ELSE "waiting"]]
          /\ UNCHANGED <<queue, wsClosed>>
      BY <1>1, <2>1 DEF Continues
    <3>2. [does |-> IF x \in closed THEN "stopped" ELSE "waiting"] \in SenderType
      BY DEF SenderType, NotSending
    <3>3. /\ sender' \in [Clients -> SenderType] /\ sender'[x].does # "sending"
          /\ \A c \in Clients \ {x} : sender'[c] = sender[c]
      BY <1>2, <3>1, <3>2
    <3>4. InHand(x)' = {}
      BY <3>3 DEF InHand
    <3> QED
      BY <1>2, <3>1, <3>3, <3>4 DEF Before
  <2>2. CASE ~ (x \in closed \/ queue[x] = <<>>)
    <3>1. /\ queue' = [queue EXCEPT ![x] = Tail(@)]
          /\ Handles(x, Head(queue[x])) /\ queue[x] # <<>>
      BY <1>1, <2>2 DEF Continues
    <3> QED
      BY <1>2, <3>1, TakesHead
  <2> QED
    BY <2>1, <2>2
<1>6. Typed'
  <2>1. \A c \in Clients : sent'[c] \in Seq(1..MaxEvents)
    BY <1>4
  <2> QED
    BY <1>1, <1>4, <1>5, <2>1 DEF IInv, Typed, TypeOK, SenderType
<1>7. handler[x] \notin {"none", "starting"}
  BY <1>1 DEF IInv, NotBegun
<1>8. NotBegun' /\ OfferedPublished'
  BY <1>1, <1>4, <1>5, <1>7 DEF IInv, NotBegun, OfferedPublished
<1>9. ASSUME NEW c \in registered' \ closed' PROVE LineOK(c)'
  <2>1. c \in Clients /\ LineOK(c)
    BY <1>1, <1>2, <1>9 DEF IInv, Typed, TypeOK
  <2>2. CASE c # x
    <3>1. queue'[c] = queue[c] /\ sender'[c] = sender[c] /\ sent'[c] = sent[c]
      BY <1>4, <1>5, <2>1, <2>2
    <3>2. InHand(c)' = InHand(c) /\ InLine(c)' = InLine(c)
      BY <3>1 DEF InHand, InLine
    <3> QED
      BY <1>1, <2>1, <3>1, <3>2 DEF LineOK
  <2>3. CASE c = x
    <3>1. InLine(c)' = InLine(c)
      BY <1>4, <1>5, <2>3 DEF InLine
    <3>2. \A i, j \in DOMAIN sent'[c] : i < j => sent'[c][i] < sent'[c][j]
      BY <1>4, <2>1, <2>3 DEF LineOK, Before
    <3>3. Before(Range(sent'[c]), InHand(c)' \cup Numbers(queue'[c]))
      BY <1>4, <1>5, <2>1, <2>3 DEF LineOK, Before
    <3>4. Sorted(queue'[c]) /\ Before(InHand(c)', Numbers(queue'[c]))
      BY <1>5, <2>1, <2>3 DEF LineOK
    <3> QED
      BY <1>1, <2>1, <3>1, <3>2, <3>3, <3>4 DEF LineOK
  <2> QED
    BY <2>2, <2>3
<1> QED
  BY <1>6, <1>8, <1>9 DEF IInv

-----------------------------------------------------------------------------
(* The theorems.                                                           *)

LEMMA Starts == StreamInit => IInv
<1> SUFFICES ASSUME StreamInit PROVE IInv
  OBVIOUS
<1>1. Typed
  <2>1. [does |-> "none"] \in SenderType
    BY DEF SenderType, NotSending
  <2>2. IsFiniteSet({}) /\ Cardinality({}) = 0
    BY FS_EmptySet
  <2>3. /\ registered = {} /\ closed = {} /\ observing = {} /\ published = <<>>
        /\ queue = [c \in Clients |-> <<>>] /\ sent = [c \in Clients |-> <<>>]
        /\ sender = [c \in Clients |-> [does |-> "none"]]
        /\ handler = [c \in Clients |-> "none"] /\ wsClosed = [c \in Clients |-> 0]
        /\ offered = [c \in Clients |-> {}] /\ heartbeats = 0 /\ updates = 0
    BY DEF StreamInit
  <2>4. queue \in [Clients -> Seq(Messages)] /\ sent \in [Clients -> Seq(1..MaxEvents)]
    BY <2>3
  <2>5. \A c \in Clients : /\ queue[c] \in Seq(Messages) /\ Len(queue[c]) <= QueueSize
                           /\ sent[c] \in Seq(1..MaxEvents)
                           /\ sender[c] \in SenderType
    BY <2>1, <2>3
  <2>6. handler \in [Clients -> Handlers] /\ sender \in [Clients -> SenderType]
    BY <2>1, <2>3 DEF Handlers
  <2>7. published \in Seq(Kinds) /\ Len(published) <= MaxEvents
    BY <2>3
  <2> QED
    BY <2>2, <2>3, <2>4, <2>5, <2>6, <2>7 DEF Typed, TypeOK, SenderType
<1>2. NotBegun /\ OfferedPublished /\ registered = {}
  BY DEF StreamInit, NotBegun, OfferedPublished
<1> QED
  BY <1>1, <1>2 DEF IInv

LEMMA Preserved == IInv /\ [StreamNext]_streamVars => IInv'
<1> SUFFICES ASSUME IInv, [StreamNext]_streamVars PROVE IInv'
  OBVIOUS
<1>1. CASE \E k \in Kinds : Publish(k)
  BY <1>1, PublishStep
<1>2. CASE CloseAll
  BY <1>2, CloseAllStep
<1>3. ASSUME NEW c \in Clients,
             \/ Connect(c) \/ Ready(c) \/ FailsToStart(c) \/ Disconnect(c)
             \/ Get(c) \/ Sent(c) \/ Beat(c) \/ UpdateSubscription(c)
      PROVE  IInv'
  BY <1>3, ConnectStep, ReadyStep, FailsToStartStep, DisconnectStep, GetStep,
     SentStep, BeatStep, UpdateStep
<1>4. CASE UNCHANGED streamVars
  <2>1. Typed'
    BY <1>4 DEF streamVars, IInv, Typed, TypeOK
  <2>2. NotBegun' /\ OfferedPublished'
    BY <1>4 DEF streamVars, IInv, NotBegun, OfferedPublished
  <2>3. ASSUME NEW c \in registered' \ closed' PROVE LineOK(c)'
    BY <1>4 DEF streamVars, IInv, LineOK, InLine, InHand
  <2> QED
    BY <2>1, <2>2, <2>3 DEF IInv
<1> QED
  BY <1>1, <1>2, <1>3, <1>4 DEF StreamNext

LEMMA Invariant == StreamSpec => []IInv
<1> QED
  BY Starts, Preserved, PTL DEF StreamSpec

\* Every variable keeps its type, no client's queue exceeds client_queue_size
\* whatever is published, closed or sent as a heartbeat, and no more clients
\* than max_connections are registered.
THEOREM StreamTypeCorrect == StreamSpec => []TypeOK
<1>1. IInv => TypeOK
  BY DEF IInv, Typed
<1> QED
  BY <1>1, Invariant, PTL

\* What a client that is not closed was, is being and will be sent are the
\* events published to it, in order and each once, but for observations that
\* an overflow dropped.
THEOREM OnlyObservationsDroppedHolds == StreamSpec => []OnlyObservationsDropped
<1>1. IInv => OnlyObservationsDropped
  BY DEF IInv, OnlyObservationsDropped, LineOK, InLine
<1> QED
  BY <1>1, Invariant, PTL
=============================================================================
