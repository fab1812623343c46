---------------------------- MODULE ScanningProofs ----------------------------
(***************************************************************************)
(* Proofs about Scanning, for any names, contents, target folders and      *)
(* bounds.                                                                 *)
(***************************************************************************)
EXTENDS Scanning, TLAPS

USE DEF tree, scan, history

LEMMA TypeInit == Init => TypeOK
  <1> SUFFICES ASSUME Init PROVE TypeOK
    OBVIOUS
  <1> USE ScanningAssumption DEF Init
  <1>1. disk \in [Names -> [content : Contents, time : 0 .. MaxClock] \cup {None}]
    OBVIOUS
  <1>2. baseline \in [Names -> Contents \cup {None}]
    BY <1>1
  <1>3. /\ cache \in [Names -> Stamps \cup {None}] /\ fresh \in [Names -> Stamps \cup {None}]
        /\ manifest \in [Names -> Contents \cup {None, Torn}]
    BY DEF Nothing
  <1>4. file \in [name : Names \cup {None}, time : 0 .. MaxClock, began : 0 .. MaxClock,
                  hash : Contents \cup {None}, moved : BOOLEAN]
    BY DEF NoFile
  <1>5. /\ ignored \subseteq Names /\ left \subseteq Names /\ skipped \subseteq Names
        /\ unread \subseteq Names /\ seen \in [Names -> SUBSET (Contents \cup {None})]
    OBVIOUS
  <1>6. clock \in 0 .. MaxClock /\ edits \in 0 .. MaxEdits /\ scans \in 0 .. MaxScans /\ phase = "idle"
    OBVIOUS
  <1> QED
    BY <1>1, <1>2, <1>3, <1>4, <1>5, <1>6 DEF TypeOK

LEMMA TypeWritten ==
    ASSUME TypeOK, NEW n \in Names,
           NEW entry \in [content : Contents, time : 0 .. MaxClock] \cup {None},
           Edit(n, entry)
    PROVE  TypeOK'
  <1> USE ScanningAssumption DEF TypeOK
  <1>1. disk' \in [Names -> [content : Contents, time : 0 .. MaxClock] \cup {None}]
    BY DEF Edit
  <1>2. (IF entry = None THEN None ELSE entry.content) \in Contents \cup {None}
    OBVIOUS
  <1>3. seen' \in [Names -> SUBSET (Contents \cup {None})]
    BY <1>2 DEF Edit
  <1>4. (file.moved \/ file.name = n) \in BOOLEAN
    OBVIOUS
  <1>5. file' \in [name : Names \cup {None}, time : 0 .. MaxClock, began : 0 .. MaxClock,
                   hash : Contents \cup {None}, moved : BOOLEAN]
    BY <1>4 DEF Edit
  <1>6. UNCHANGED <<ignored, clock, baseline, cache, phase, left, fresh, manifest, skipped, unread,
                    scans>>
        /\ edits' \in 0 .. MaxEdits
    BY DEF Edit
  <1> QED
    BY <1>1, <1>3, <1>5, <1>6

LEMMA TypeEdit ==
    ASSUME TypeOK, NEW n \in Names, Write(n) \/ Delete(n) \/ ChangeRules(n)
    PROVE  TypeOK'
  <1>1. CASE Write(n)
    <2>1. clock \in 0 .. MaxClock
      BY DEF TypeOK
    <2> QED
      BY <1>1, <2>1, TypeWritten DEF Write
  <1>2. CASE Delete(n)
    BY <1>2, TypeWritten DEF Delete
  <1>3. CASE ChangeRules(n)
    BY <1>3, ScanningAssumption DEF ChangeRules, TypeOK
  <1> QED
    BY <1>1, <1>2, <1>3

LEMMA TypeWalk ==
    ASSUME TypeOK, NEW n \in Names, Skip(n) \/ Reuse(n) \/ Stat(n) \/ Retain(n)
    PROVE  TypeOK'
  <1> USE ScanningAssumption DEF TypeOK
  <1>1. CASE Skip(n)
    BY <1>1 DEF Skip
  <1>2. CASE Reuse(n)
    BY <1>2 DEF Reuse, Matches, Stamps
  <1>3. CASE Stat(n)
    BY <1>3 DEF Stat, NoFile
  <1>4. CASE Retain(n)
    BY <1>4 DEF Retain, Keeps
  <1> QED
    BY <1>1, <1>2, <1>3, <1>4

LEMMA TypeStep ==
    ASSUME TypeOK, Tick \/ Begin \/ Read \/ Listed \/ ReadFails \/ StartRetaining \/ Save
                   \/ Unused \/ Agree \/ UNCHANGED vars
    PROVE  TypeOK'
  <1> USE ScanningAssumption DEF TypeOK
  <1>1. CASE Tick
    BY <1>1 DEF Tick
  <1>2. CASE Begin
    BY <1>2 DEF Begin, Nothing, Holds
  <1>3. CASE Read
    BY <1>3 DEF Read, Holds
  <1>4. CASE Listed
    BY <1>4 DEF Listed, NoFile, Stamps
  <1>5. CASE ReadFails
    BY <1>5 DEF ReadFails, NoFile, Nothing
  <1>6. CASE StartRetaining \/ Save
    BY <1>6 DEF StartRetaining, Save
  <1>7. CASE Unused \/ Agree
    BY <1>7 DEF Unused, Agree, Nothing
  <1>8. CASE UNCHANGED vars
    BY <1>8 DEF vars
  <1> QED
    BY <1>1, <1>2, <1>3, <1>4, <1>5, <1>6, <1>7, <1>8

LEMMA TypeNext ==
    ASSUME TypeOK, [Next]_vars
    PROVE  TypeOK'
  BY TypeEdit, TypeWalk, TypeStep DEF Next

\* Type correctness: what is listed, cached and agreed on are hashes of contents, and a torn
\* hash never gets into the baseline.
THEOREM TypeCorrect == Spec => []TypeOK
  BY TypeInit, TypeNext, PTL DEF Spec

-----------------------------------------------------------------------------
(***************************************************************************)
(* Why a cached hash can be believed. Stamps are older than the clock, so  *)
(* a later write shows in the times. A file that was written while it was  *)
(* read has times from then on; a hash that is cached was settled, and the *)
(* file was looked at too recently for those times to be the same.         *)
(***************************************************************************)
TimesPast == \A n \in Names : disk[n] # None => disk[n].time <= clock

Old(stamps) == \A n \in Names : stamps[n] # None => stamps[n].time < clock

Reading ==
    file.name # None =>
        /\ file.began <= clock /\ clock <= file.began + ReadTicks
        /\ file.moved /\ disk[file.name] # None => file.began <= disk[file.name].time
        /\ ~file.moved => /\ disk[file.name] # None /\ disk[file.name].time = file.time
                          /\ file.hash \in {None, disk[file.name].content}

CacheInv == TypeOK /\ TimesPast /\ Old(cache) /\ Old(fresh) /\ Reading /\ CacheTruthful

LEMMA CacheInit == Init => CacheInv
  <1> SUFFICES ASSUME Init PROVE CacheInv
    OBVIOUS
  <1>1. /\ file.name = None
        /\ \A n \in Names : cache[n] = None /\ fresh[n] = None
        /\ \A n \in Names : disk[n] # None => disk[n].time = clock
    BY DEF Init, NoFile, Nothing
  <1>2. TimesPast
    BY <1>1, ScanningAssumption DEF TimesPast, Init
  <1> QED
    BY <1>1, <1>2, TypeInit DEF CacheInv, Old, Reading, CacheTruthful, Truthful

\* An edit shows: what was there has a time of this very tick now, or is gone.
LEMMA CacheEdit ==
    ASSUME CacheInv, NEW n \in Names, NEW entry, Edit(n, entry),
           entry # None => entry.time = clock
    PROVE  TimesPast' /\ Old(cache)' /\ Old(fresh)' /\ Reading' /\ CacheTruthful'
  <1> USE DEF CacheInv, TypeOK
  <1>1. /\ disk'[n] = entry /\ \A k \in Names \ {n} : disk'[k] = disk[k]
        /\ UNCHANGED <<clock, cache, fresh>>
    BY DEF Edit
  <1>2. TimesPast'
    BY <1>1 DEF TimesPast
  <1>3. Old(cache)' /\ Old(fresh)'
    BY <1>1 DEF Old
  <1>4. Reading'
    <2>1. /\ file'.name = file.name /\ file'.began = file.began /\ file'.time = file.time
          /\ file'.hash = file.hash /\ (file'.moved <=> file.moved \/ file.name = n)
      BY DEF Edit
    <2> QED
      BY <1>1, <2>1 DEF Reading
  <1>5. CacheTruthful'
    BY <1>1 DEF CacheTruthful, Truthful, Old, Stamps
  <1> QED
    BY <1>2, <1>3, <1>4, <1>5

LEMMA CacheListed ==
    ASSUME CacheInv, Listed, ReadTicks <= 2
    PROVE  TimesPast' /\ Old(cache)' /\ Old(fresh)' /\ Reading' /\ CacheTruthful'
  <1> DEFINE n == file.name
  <1> USE DEF CacheInv
  <1>1. PICK hash \in IF file.moved THEN {file.hash, Torn} ELSE {file.hash} :
            fresh' = [fresh EXCEPT ![n] = IF Settled THEN [time |-> file.time, hash |-> hash] ELSE None]
    BY DEF Listed
  <1>2. UNCHANGED <<disk, clock, cache>> /\ file' = NoFile /\ n \in Names
        /\ file.name # None /\ file.hash # None
    BY DEF Listed, TypeOK
  <1>3. /\ \A k \in Names \ {n} : fresh'[k] = fresh[k]
        /\ fresh'[n] # None => Settled /\ fresh'[n] = [time |-> file.time, hash |-> hash]
    BY <1>1, <1>2 DEF TypeOK
  <1>4. TimesPast' /\ Old(cache)' /\ Reading'
    BY <1>2 DEF TimesPast, Old, Reading, NoFile
  <1>5. file.time \in Nat /\ clock \in Nat /\ file.began \in Nat
    BY DEF TypeOK
  <1>6. Old(fresh)'
    BY <1>2, <1>3, <1>5 DEF Old, Settled
  <1>7. Truthful(cache)'
    BY <1>2 DEF CacheTruthful, Truthful
  <1>8. ASSUME fresh'[n] # None, disk[n] # None, fresh'[n].time = disk[n].time
        PROVE  fresh'[n].hash = disk[n].content
    <2>1. Settled /\ disk[n].time = file.time /\ fresh'[n].hash = hash
      BY <1>3, <1>8
    <2>2. disk[n].time < file.began
      BY <1>2, <1>5, <2>1, ScanningAssumption DEF Settled, Reading
    <2>3. ~file.moved
      BY <1>2, <1>5, <1>8, <2>1, <2>2 DEF Reading
    <2> QED
      BY <1>2, <2>1, <2>3 DEF Reading
  <1>9. Truthful(fresh)'
    BY <1>2, <1>3, <1>8 DEF CacheTruthful, Truthful
  <1> QED
    BY <1>4, <1>6, <1>7, <1>9 DEF CacheTruthful

LEMMA CacheStep ==
    ASSUME CacheInv,
           UNCHANGED disk,
           UNCHANGED file \/ file' = NoFile,
           cache' \in {cache, fresh} /\ fresh' \in {fresh, Nothing},
           UNCHANGED clock
    PROVE  TimesPast' /\ Old(cache)' /\ Old(fresh)' /\ Reading' /\ CacheTruthful'
  BY DEF CacheInv, TimesPast, Old, Reading, CacheTruthful, Truthful, NoFile, Nothing

LEMMA CacheNext ==
    ASSUME CacheInv, [Next]_vars, ReadTicks <= 2
    PROVE  CacheInv'
  <1> DEFINE Goal == TimesPast' /\ Old(cache)' /\ Old(fresh)' /\ Reading' /\ CacheTruthful'
  <1>1. ASSUME NEW n \in Names, Write(n) \/ Delete(n) PROVE Goal
    BY <1>1, CacheEdit DEF Write, Delete
  <1>2. ASSUME Listed PROVE Goal
    BY <1>2, CacheListed
  <1>3. ASSUME Tick PROVE Goal
    <2>1. clock' = clock + 1 /\ UNCHANGED <<disk, cache, file, fresh>> /\ clock \in Nat
          /\ (file.name # None => clock - file.began < ReadTicks)
      BY <1>3 DEF Tick, CacheInv, TypeOK
    <2>2. TimesPast'
      BY <2>1 DEF CacheInv, TypeOK, TimesPast
    <2>3. Old(cache)' /\ Old(fresh)'
      BY <2>1 DEF CacheInv, TypeOK, Old, Stamps
    <2>4. Reading'
      BY <2>1, ScanningAssumption DEF CacheInv, TypeOK, Reading
    <2>5. CacheTruthful'
      BY <2>1 DEF CacheInv, CacheTruthful, Truthful
    <2> QED
      BY <2>2, <2>3, <2>4, <2>5
  <1>4. ASSUME NEW n \in Names, Reuse(n) PROVE Goal
    <2>1. /\ UNCHANGED <<disk, clock, cache, file>> /\ fresh'[n] = cache[n]
          /\ \A k \in Names \ {n} : fresh'[k] = fresh[k]
      BY <1>4 DEF Reuse, CacheInv, TypeOK
    <2> QED
      BY <2>1 DEF CacheInv, TimesPast, Old, Reading, CacheTruthful, Truthful
  <1>5. ASSUME NEW n \in Names, Stat(n) PROVE Goal
    <2>1. UNCHANGED <<disk, clock, cache, fresh>> /\ disk[n] # None
          /\ file' = [NoFile EXCEPT !.name = n, !.time = disk[n].time, !.began = clock]
      BY <1>5 DEF Stat
    <2>2. Reading'
      BY <2>1, ScanningAssumption DEF Reading, NoFile, CacheInv, TypeOK
    <2> QED
      BY <2>1, <2>2 DEF CacheInv, TimesPast, Old, CacheTruthful, Truthful
  <1>6. ASSUME Read PROVE Goal
    <2>1. UNCHANGED <<disk, clock, cache, fresh>>
          /\ file' = [file EXCEPT !.hash = disk[file.name].content]
      BY <1>6 DEF Read, Holds
    <2>2. Reading'
      BY <2>1 DEF Reading, CacheInv, TypeOK
    <2> QED
      BY <2>1, <2>2 DEF CacheInv, TimesPast, Old, CacheTruthful, Truthful
  <1>7. ASSUME Begin \/ ReadFails \/ StartRetaining \/ Save \/ Unused \/ Agree \/ UNCHANGED vars
        PROVE  Goal
    BY <1>7, CacheStep DEF Begin, ReadFails, StartRetaining, Save, Unused, Agree, vars
  <1>8. ASSUME NEW n \in Names, ChangeRules(n) \/ Skip(n) \/ Retain(n) PROVE Goal
    BY <1>8, CacheStep DEF ChangeRules, Skip, Retain
  <1>9. TypeOK'
    BY TypeNext DEF CacheInv
  <1> QED
    BY <1>1, <1>2, <1>3, <1>4, <1>5, <1>6, <1>7, <1>8, <1>9 DEF Next, CacheInv

LEMMA CacheAlways ==
    ASSUME ReadTicks <= 2
    PROVE  Spec => []CacheInv
  BY CacheInit, CacheNext, PTL DEF Spec

\* A hash taken from the cache is the hash of what the file holds, whoever writes the file
\* when, if no file takes more than two ticks to be hashed (source.rs settled, Stamp::matches).
THEOREM CacheAlwaysTruthful ==
    ASSUME ReadTicks <= 2
    PROVE  Spec => []CacheTruthful
  <1>1. CacheInv => CacheTruthful
    BY DEF CacheInv
  <1> QED
    BY <1>1, CacheAlways, PTL

-----------------------------------------------------------------------------
(***************************************************************************)
(* What a scan says of each name, at every moment of it: what it listed is *)
(* accounted for, and so is what it did not list.                          *)
(***************************************************************************)
Changed(n) == \E x, y \in seen[n] : x # y

\* n was gone, or filtered out, when the walk came by.
Away(n) == n \in skipped \/ None \in seen[n]

Real(n) ==
    \/ manifest[n] \in seen[n] \cup {None}
    \/ manifest[n] = baseline[n] /\ Away(n)
    \/ manifest[n] = Torn /\ Changed(n)

Excused(n) == None \in seen[n] \/ MadeGenerated(n) \/ n \in unread

Watched ==
    /\ phase # "idle" => \A n \in Names : Holds(n) \in seen[n]
    /\ file.name # None => /\ phase = "walk"
                           /\ file.hash # None => file.hash \in seen[file.name]
                           /\ file.moved => Changed(file.name)

Accounted ==
    /\ phase # "idle" => \A n \in Names : Real(n)
    /\ phase = "walk" => \A n \in Names \ (left \cup {file.name}) : manifest[n] = None => Away(n)
    /\ phase = "retain" => \A n \in left : Dropped(n) /\ Away(n)
    /\ phase \in {"retain", "done"} => \A n \in Names \ left : Dropped(n) => Excused(n)
    /\ phase = "done" => left = {}

ListInv == CacheInv /\ Watched /\ Accounted

LEMMA ListInit == Init => ListInv
  BY CacheInit DEF Init, ListInv, Watched, Accounted, NoFile

\* What an edit does to what was seen: there is one more thing that was seen.
LEMMA ListEdit ==
    ASSUME ListInv, NEW n \in Names, Write(n) \/ Delete(n)
    PROVE  Watched' /\ Accounted'
  <1> USE DEF ListInv, CacheInv, TypeOK
  <1>1. PICK entry \in Entries \cup {None} : Edit(n, entry) /\ Holds(n)' # Holds(n)
    <2>1. CASE Write(n)
      <3>1. PICK c \in Contents \ {Holds(n)} : Edit(n, [content |-> c, time |-> clock])
        BY <2>1 DEF Write
      <3>2. [content |-> c, time |-> clock] \in Entries
        BY DEF Entries
      <3>3. Holds(n)' = c
        BY <3>1, <3>2, ScanningAssumption DEF Edit, Holds
      <3> QED
        BY <3>1, <3>2, <3>3
    <2>2. CASE Delete(n)
      <3>1. Edit(n, None) /\ disk[n] # None
        BY <2>2 DEF Delete
      <3>2. Holds(n)' = None
        BY <3>1 DEF Edit, Holds
      <3>3. Holds(n) \in Contents
        BY <3>1 DEF Holds
      <3> QED
        BY <3>1, <3>2, <3>3, ScanningAssumption
    <2> QED
      BY <2>1, <2>2
  <1>2. /\ seen'[n] = seen[n] \cup {Holds(n)'}
        /\ \A k \in Names \ {n} : seen'[k] = seen[k] /\ Holds(k)' = Holds(k)
        /\ UNCHANGED <<baseline, phase, left, manifest, skipped, unread>>
    BY <1>1 DEF Edit, Holds
  <1>3. /\ file'.name = file.name /\ file'.hash = file.hash
        /\ file'.moved => file.moved \/ file.name = n
    BY <1>1 DEF Edit
  <1>4. Watched'
    BY <1>1, <1>2, <1>3 DEF Watched, Changed
  <1>5. \A k \in Names : /\ seen[k] \subseteq seen'[k] /\ (Away(k) => Away(k)')
                         /\ (Real(k) => Real(k)') /\ (Excused(k) => Excused(k)')
                         /\ (Dropped(k)' <=> Dropped(k))
    BY <1>2 DEF Away, Real, Excused, MadeGenerated, Dropped, Changed
  <1>6. Accounted'
    BY <1>2, <1>3, <1>5 DEF Accounted
  <1> QED
    BY <1>4, <1>6

LEMMA ListWalk ==
    ASSUME ListInv, NEW n \in Names, Skip(n) \/ Reuse(n) \/ Stat(n)
    PROVE  Watched' /\ Accounted'
  <1> USE DEF ListInv, CacheInv, TypeOK
  <1>1. phase = "walk" /\ file.name = None /\ n \in left /\ left' = left \ {n}
        /\ UNCHANGED <<disk, phase, baseline, seen>>
    BY DEF Skip, Reuse, Stat
  <1>2. \A k \in Names : Holds(k)' = Holds(k) /\ Holds(k) \in seen[k] /\ Real(k)
    BY <1>1 DEF Holds, Watched, Accounted
  <1>3. CASE Skip(n)
    <2>1. /\ UNCHANGED <<file, manifest>> /\ skipped \subseteq skipped'
          /\ n \in skipped' \/ disk[n] = None
      BY <1>3 DEF Skip
    <2>2. Away(n)'
      BY <1>1, <1>2, <2>1 DEF Away, Holds
    <2>3. \A k \in Names : Real(k)' /\ (Away(k) => Away(k)')
      BY <1>1, <1>2, <2>1 DEF Real, Away, Changed
    <2>4. Watched'
      BY <1>1, <1>2, <2>1 DEF Watched
    <2>5. Accounted'
      BY <1>1, <2>1, <2>2, <2>3 DEF Accounted
    <2> QED
      BY <2>4, <2>5
  <1>4. CASE Reuse(n)
    <2>1. /\ UNCHANGED <<file, skipped>> /\ manifest'[n] = cache[n].hash
          /\ \A k \in Names \ {n} : manifest'[k] = manifest[k]
      BY <1>4 DEF Reuse
    <2>2. cache[n].hash = Holds(n) /\ cache[n].hash # None
      BY <1>4, ScanningAssumption DEF Reuse, Matches, CacheTruthful, Truthful, Holds, Stamps
    <2>3. \A k \in Names : Real(k)'
      BY <1>1, <1>2, <2>1, <2>2 DEF Real, Away, Changed
    <2>4. \A k \in Names : Away(k)' <=> Away(k)
      BY <1>1, <2>1 DEF Away
    <2> QED
      BY <1>1, <1>2, <2>1, <2>2, <2>3, <2>4 DEF Watched, Accounted
  <1>5. CASE Stat(n)
    <2>1. UNCHANGED <<manifest, skipped>> /\ file'.name = n /\ file'.hash = None /\ file'.moved = FALSE
      BY <1>5 DEF Stat, NoFile
    <2>2. \A k \in Names : Real(k)' /\ (Away(k)' <=> Away(k))
      BY <1>1, <1>2, <2>1 DEF Real, Away, Changed
    <2>3. Watched'
      BY <1>1, <1>2, <2>1 DEF Watched
    <2>4. Accounted'
      BY <1>1, <2>1, <2>2, ScanningAssumption DEF Accounted
    <2> QED
      BY <2>3, <2>4
  <1> QED
    BY <1>3, <1>4, <1>5

LEMMA ListListed ==
    ASSUME ListInv, Listed
    PROVE  Watched' /\ Accounted'
  <1> DEFINE n == file.name
  <1> USE DEF ListInv, CacheInv, TypeOK
  <1>1. phase = "walk" /\ n \in Names /\ n # None /\ file.hash # None /\ file' = NoFile
        /\ UNCHANGED <<disk, phase, left, baseline, seen, skipped>>
    BY DEF Listed, Watched
  <1>2. PICK hash \in IF file.moved THEN {file.hash, Torn} ELSE {file.hash} :
            manifest' = [manifest EXCEPT ![n] = hash]
    BY DEF Listed
  <1>3. hash # None /\ (hash \in seen[n] \/ (hash = Torn /\ Changed(n)))
    <2>1. file.hash \in seen[n]
      BY <1>1 DEF Watched
    <2>2. file.moved => Changed(n)
      BY <1>1 DEF Watched
    <2> QED
      BY <1>1, <1>2, <2>1, <2>2, ScanningAssumption
  <1>4. manifest'[n] = hash /\ \A k \in Names \ {n} : manifest'[k] = manifest[k]
    BY <1>1, <1>2
  <1>5. \A k \in Names : Real(k)' /\ (Away(k)' <=> Away(k))
    BY <1>1, <1>3, <1>4 DEF Real, Away, Changed, Accounted
  <1>6. Watched'
    BY <1>1 DEF Watched, Holds, NoFile
  <1>7. Accounted'
    BY <1>1, <1>3, <1>4, <1>5 DEF Accounted
  <1> QED
    BY <1>6, <1>7

LEMMA ListRetain ==
    ASSUME ListInv, NEW n \in Names, Retain(n)
    PROVE  Watched' /\ Accounted'
  <1> USE DEF ListInv, CacheInv, TypeOK
  <1>1. phase = "retain" /\ n \in left /\ left' = left \ {n} /\ Dropped(n) /\ Away(n)
        /\ UNCHANGED <<disk, phase, baseline, file, seen, skipped>>
    BY DEF Retain, Accounted
  <1>2. \A k \in Names : Holds(k)' = Holds(k) /\ Holds(k) \in seen[k]
    BY <1>1 DEF Holds, Watched
  <1>3. Watched'
    BY <1>1, <1>2 DEF Watched, Changed
  <1>4. PICK readable \in BOOLEAN :
            /\ manifest' = IF Keeps(n, readable) THEN [manifest EXCEPT ![n] = baseline[n]]
                           ELSE manifest
            /\ unread' = IF readable \/ disk[n] = None \/ MadeGenerated(n) THEN unread
                         ELSE unread \cup {n}
    BY DEF Retain
  <1>5. CASE Keeps(n, readable)
    <2>1. manifest' = [manifest EXCEPT ![n] = baseline[n]] /\ unread' = unread
      BY <1>4, <1>5 DEF Keeps
    <2>2. \A k \in Names : Real(k)' /\ (Away(k)' <=> Away(k))
      BY <1>1, <2>1 DEF Real, Away, Changed, Accounted
    <2>3. \A k \in Names \ {n} : /\ manifest'[k] = manifest[k]
                                 /\ Dropped(k)' <=> Dropped(k)
      BY <1>1, <2>1 DEF Dropped
    <2>4. ~Dropped(n)'
      BY <1>1, <2>1 DEF Dropped
    <2>5. \A k \in Names : Excused(k) => Excused(k)'
      BY <1>1, <2>1, <2>3, <2>4 DEF Excused, MadeGenerated, Dropped
    <2>6. Accounted'
      BY <1>1, <2>2, <2>3, <2>4, <2>5 DEF Accounted
    <2> QED
      BY <1>3, <2>6
  <1>6. CASE ~Keeps(n, readable)
    <2>1. UNCHANGED manifest /\ unread \subseteq unread'
      BY <1>4, <1>6
    <2>2. Excused(n)'
      BY <1>1, <1>2, <1>4, <1>6, <2>1 DEF Keeps, Excused, MadeGenerated, Holds
    <2>3. \A k \in Names : /\ Real(k)' <=> Real(k)
                           /\ Away(k)' <=> Away(k)
                           /\ Excused(k) => Excused(k)'
                           /\ Dropped(k)' <=> Dropped(k)
      BY <1>1, <2>1 DEF Real, Away, Changed, Excused, MadeGenerated, Dropped
    <2>4. Accounted'
      BY <1>1, <2>2, <2>3 DEF Accounted
    <2> QED
      BY <1>3, <2>4
  <1> QED
    BY <1>5, <1>6

LEMMA ListBetween ==
    ASSUME ListInv, Begin \/ ReadFails \/ StartRetaining \/ Save \/ Unused \/ Agree
    PROVE  Watched' /\ Accounted'
  <1> USE DEF ListInv, CacheInv, TypeOK
  <1>1. CASE Begin
    <2>1. /\ phase' = "walk" /\ left' = Names /\ file.name = None
          /\ UNCHANGED <<disk, file>>
          /\ \A k \in Names : manifest'[k] = None /\ seen'[k] = {Holds(k)}
      BY <1>1 DEF Begin, Nothing, Watched
    <2>2. \A k \in Names : Holds(k)' = Holds(k)
      BY <2>1 DEF Holds
    <2> QED
      BY <2>1, <2>2 DEF Watched, Accounted, Real
  <1>2. CASE ReadFails \/ Unused \/ Agree
    <2>1. phase' = "idle" /\ file'.name = None
      BY <1>2 DEF ReadFails, Unused, Agree, NoFile, Watched
    <2> QED
      BY <2>1 DEF Watched, Accounted
  <1>3. CASE StartRetaining
    <2>1. /\ phase = "walk" /\ left = {} /\ file.name = None /\ phase' = "retain"
          /\ left' = {k \in Names : Dropped(k)}
          /\ UNCHANGED <<disk, baseline, file, manifest, seen, skipped, unread>>
      BY <1>3 DEF StartRetaining, Dropped
    <2>2. \A k \in Names : /\ Real(k)' <=> Real(k)
                           /\ Away(k)' <=> Away(k)
                           /\ Dropped(k)' <=> Dropped(k)
                           /\ Holds(k)' = Holds(k)
      BY <2>1 DEF Real, Away, Changed, Dropped, Holds
    <2>3. Watched'
      BY <2>1, <2>2 DEF Watched
    <2>4. Accounted'
      BY <2>1, <2>2, ScanningAssumption DEF Accounted, Dropped
    <2> QED
      BY <2>3, <2>4
  <1>4. CASE Save
    <2>1. /\ phase = "retain" /\ left = {} /\ phase' = "done" /\ file.name = None
          /\ UNCHANGED <<disk, baseline, left, file, manifest, seen, skipped, unread>>
      BY <1>4 DEF Save, Watched
    <2>2. \A k \in Names : /\ Real(k)' <=> Real(k)
                           /\ Dropped(k)' <=> Dropped(k)
                           /\ Excused(k)' <=> Excused(k)
                           /\ Holds(k)' = Holds(k)
      BY <2>1 DEF Real, Away, Changed, Dropped, Excused, MadeGenerated, Holds
    <2> QED
      BY <2>1, <2>2 DEF Watched, Accounted
  <1> QED
    BY <1>1, <1>2, <1>3, <1>4

LEMMA ListKept ==
    ASSUME ListInv, Tick \/ (\E n \in Names : ChangeRules(n)) \/ Read \/ UNCHANGED vars
    PROVE  Watched' /\ Accounted'
  <1> USE DEF ListInv, CacheInv, TypeOK
  <1>1. /\ UNCHANGED <<disk, baseline, phase, left, manifest, seen, skipped, unread>>
        /\ file'.name = file.name /\ file'.moved = file.moved
        /\ file'.hash = file.hash \/ (file.name # None /\ file'.hash = Holds(file.name))
    BY DEF Tick, ChangeRules, Read, vars
  <1>2. \A k \in Names : /\ Real(k)' <=> Real(k)
                         /\ Away(k)' <=> Away(k)
                         /\ Dropped(k)' <=> Dropped(k)
                         /\ Excused(k)' <=> Excused(k)
                         /\ Holds(k)' = Holds(k)
    BY <1>1 DEF Real, Away, Changed, Dropped, Excused, MadeGenerated, Holds
  <1>3. Watched'
    BY <1>1, <1>2 DEF Watched, Changed
  <1>4. Accounted'
    BY <1>1, <1>2 DEF Accounted
  <1> QED
    BY <1>3, <1>4

LEMMA ListNext ==
    ASSUME ListInv, [Next]_vars, ReadTicks <= 2
    PROVE  ListInv'
  <1>1. CacheInv'
    BY CacheNext DEF ListInv
  <1>2. Watched' /\ Accounted'
    BY ListEdit, ListWalk, ListListed, ListRetain, ListBetween, ListKept DEF Next
  <1> QED
    BY <1>1, <1>2 DEF ListInv

LEMMA ListAlways ==
    ASSUME ReadTicks <= 2
    PROVE  Spec => []ListInv
  BY ListInit, ListNext, PTL DEF Spec

\* What a scan lists of a file was in it during the scan, or is what both machines agreed on
\* and the file was out of sight; cached hashes and edits during the scan included.
THEOREM ListedAlwaysReal ==
    ASSUME ReadTicks <= 2
    PROVE  Spec => []ListedIsReal
  <1>1. ListInv => ListedIsReal
    BY DEF ListInv, Accounted, Real, Away, Changed, ListedIsReal
  <1> QED
    BY <1>1, ListAlways, PTL

\* No scan drops a file that was there all the time for a change of rules, unless a listed
\* Cargo.toml makes it generated or it could not be read when it was looked at again: the
\* planner takes a dropped entry for a deletion.
THEOREM DroppedAlwaysGone ==
    ASSUME ReadTicks <= 2
    PROVE  Spec => []DroppedIfGone
  <1>1. ListInv => DroppedIfGone
    BY DEF ListInv, Accounted, Excused, DroppedIfGone
  <1> QED
    BY <1>1, ListAlways, PTL
=============================================================================
