------------------------------- MODULE Scanning -------------------------------
(***************************************************************************)
(* One machine's scan of a project: which files it lists, the hashes it    *)
(* takes from its cache or computes, and the files it keeps from the       *)
(* baseline although they are filtered out now, while the project is       *)
(* edited and its rules change (crates/slingshot-core/src/source.rs).      *)
(*                                                                         *)
(* Time goes in ticks of the file system's clock. Writes of one tick leave *)
(* the same times, and every write here keeps the size and the inode: it   *)
(* is the times alone that tell two contents apart.                        *)
(***************************************************************************)
EXTENDS Naturals

CONSTANTS
    Names, Contents,
    Marks,       \* Marks[n]: the Cargo.toml beside which n is in a generated target folder
    None, Torn,  \* no such file; the hash of a file that changed while it was read
    ReadTicks,   \* ticks from looking at a file's times to the end of its hashing
    MaxClock, MaxEdits, MaxScans   \* bounds

\* A file that is there: what it holds, and when it was written.
Entries == [content : Contents, time : Nat]

ASSUME ScanningAssumption ==
    /\ Marks \in [Names -> SUBSET Names]
    /\ \A n \in Names : \A k \in Marks[n] : Marks[k] = {}
    /\ None \notin Contents \cup Names \cup Entries
    /\ Torn \notin Contents /\ None # Torn
    /\ ReadTicks \in Nat /\ MaxClock \in Nat /\ MaxEdits \in Nat /\ MaxScans \in Nat

VARIABLES
    disk,      \* disk[n]: content and time of a file, or None
    ignored,   \* names that .gitignore or an exclusion pattern filters out
    clock,
    baseline,  \* baseline[n]: the hash both machines agreed on, or None
    cache,     \* the saved cache: a time and a hash for a name, or None
    phase,     \* "idle", "walk", "retain" or "done"
    left,      \* names this phase has not come to
    file,      \* the file that is being read
    fresh,     \* the cache of this scan
    manifest,  \* manifest[n]: the hash listed for n, or None
    seen,      \* history: what each name held since the scan began
    skipped,   \* history: names that were there and filtered out when the walk came by
    unread,    \* history: names that were there and could not be read in the second look
    edits, scans

tree    == <<disk, ignored, clock>>
scan    == <<phase, left, file, fresh, manifest>>
history == <<seen, skipped, unread>>
vars    == <<tree, baseline, cache, scan, history, edits, scans>>

Nothing == [n \in Names |-> None]
NoFile  == [name |-> None, time |-> 0, began |-> 0, hash |-> None, moved |-> FALSE]

Init ==
    /\ disk \in [Names -> [content : Contents, time : {0}] \cup {None}]
    /\ ignored \in SUBSET Names /\ clock = 0
    /\ baseline = [n \in Names |-> IF disk[n] = None \/ \E k \in Marks[n] : disk[k] # None
                                  THEN None ELSE disk[n].content]
    /\ cache = Nothing
    /\ phase = "idle" /\ left = {} /\ file = NoFile /\ fresh = Nothing /\ manifest = Nothing
    /\ seen = [n \in Names |-> {}] /\ skipped = {} /\ unread = {}
    /\ edits = 0 /\ scans = 0

-----------------------------------------------------------------------------
(* The project and its clock *)

Holds(n) == IF disk[n] = None THEN None ELSE disk[n].content

\* A tick, unless the file being read would take too long.
Tick ==
    /\ clock < MaxClock
    /\ file.name # None => clock - file.began < ReadTicks
    /\ clock' = clock + 1
    /\ UNCHANGED <<disk, ignored, baseline, cache, scan, history, edits, scans>>

Edit(n, entry) ==
    /\ edits < MaxEdits /\ edits' = edits + 1
    /\ disk' = [disk EXCEPT ![n] = entry]
    /\ seen' = [seen EXCEPT ![n] = @ \cup {IF entry = None THEN None ELSE entry.content}]
    /\ file' = [file EXCEPT !.moved = @ \/ file.name = n]
    /\ UNCHANGED <<ignored, clock, baseline, cache, phase, left, fresh, manifest,
                   skipped, unread, scans>>

Write(n) ==
    \E c \in Contents \ {Holds(n)} : Edit(n, [content |-> c, time |-> clock])

Delete(n) == disk[n] # None /\ Edit(n, None)

\* .gitignore, git's own excludes or sync.exclude change.
ChangeRules(n) ==
    /\ edits < MaxEdits /\ edits' = edits + 1
    /\ ignored' = IF n \in ignored THEN ignored \ {n} ELSE ignored \cup {n}
    /\ UNCHANGED <<disk, clock, baseline, cache, scan, history, scans>>

-----------------------------------------------------------------------------
(* scan *)

Begin ==
    /\ phase = "idle" /\ scans < MaxScans
    /\ scans' = scans + 1
    /\ phase' = "walk" /\ left' = Names
    /\ fresh' = Nothing /\ manifest' = Nothing
    /\ seen' = [n \in Names |-> {Holds(n)}] /\ skipped' = {} /\ unread' = {}
    /\ UNCHANGED <<tree, baseline, cache, file, edits>>

\* The mandatory exclusions: what is generated depends on the files beside it.
Generated(n) == \E k \in Marks[n] : disk[k] # None

\* filter_entry
Filtered(n) == n \in ignored \/ Generated(n)

\* The walk comes by a file it does not list.
Skip(n) ==
    /\ phase = "walk" /\ file.name = None /\ n \in left
    /\ disk[n] = None \/ Filtered(n)
    /\ left' = left \ {n}
    /\ skipped' = IF disk[n] = None THEN skipped ELSE skipped \cup {n}
    /\ UNCHANGED <<tree, baseline, cache, phase, file, fresh, manifest, seen, unread, edits,
                   scans>>

\* Mutant of Matches: a cached hash is good for a file of the same size.
MatchesSize(n) == cache[n] # None

\* Stamp::matches
Matches(n) == cache[n] # None /\ cache[n].time = disk[n].time

\* entry_cached: the times are read; a cached hash will do when they are the same.
Reuse(n) ==
    /\ phase = "walk" /\ file.name = None /\ n \in left
    /\ disk[n] # None /\ ~Filtered(n) /\ Matches(n)
    /\ left' = left \ {n}
    /\ fresh' = [fresh EXCEPT ![n] = cache[n]]
    /\ manifest' = [manifest EXCEPT ![n] = cache[n].hash]
    /\ UNCHANGED <<tree, baseline, cache, phase, file, history, edits, scans>>

Stat(n) ==
    /\ phase = "walk" /\ file.name = None /\ n \in left
    /\ disk[n] # None /\ ~Filtered(n) /\ ~Matches(n)
    /\ left' = left \ {n}
    /\ file' = [NoFile EXCEPT !.name = n, !.time = disk[n].time, !.began = clock]
    /\ UNCHANGED <<tree, baseline, cache, phase, fresh, manifest, history, edits, scans>>

\* hash_file
Read ==
    /\ file.name # None /\ file.hash = None /\ disk[file.name] # None
    /\ file' = [file EXCEPT !.hash = Holds(file.name)]
    /\ UNCHANGED <<tree, baseline, cache, phase, left, fresh, manifest, history, edits, scans>>

\* Mutant of Settled: two seconds are taken for more than two.
SettledSoon == file.time + 2 <= clock

\* settled: the times are those from before the hash, now is after it.
Settled == file.time + 2 < clock

\* The hash is listed, and cached unless the file could change again unseen.
Listed ==
    /\ file.name # None /\ file.hash # None
    /\ \E hash \in IF file.moved THEN {file.hash, Torn} ELSE {file.hash} :
        /\ manifest' = [manifest EXCEPT ![file.name] = hash]
        /\ fresh' = [fresh EXCEPT ![file.name] =
                IF Settled THEN [time |-> file.time, hash |-> hash] ELSE None]
    /\ file' = NoFile
    /\ UNCHANGED <<tree, baseline, cache, phase, left, history, edits, scans>>

\* A file that is gone by now, or cannot be read, fails the scan; nothing is saved.
ReadFails ==
    /\ file.name # None /\ file.hash = None
    /\ file' = NoFile /\ phase' = "idle" /\ left' = {} /\ manifest' = Nothing /\ fresh' = Nothing
    /\ UNCHANGED <<tree, baseline, cache, history, edits, scans>>

\* What the baseline has and the walk did not list is looked at again.
StartRetaining ==
    /\ phase = "walk" /\ left = {} /\ file.name = None
    /\ phase' = "retain"
    /\ left' = {n \in Names : baseline[n] # None /\ manifest[n] = None}
    /\ UNCHANGED <<tree, baseline, cache, file, fresh, manifest, history, edits, scans>>

\* always_excluded, with the manifest for the files beside n.
MadeGenerated(n) == \E k \in Marks[n] : manifest[k] # None

\* Mutant of Keeps: a file that is filtered out is no longer listed.
KeepsListed(n, readable) == disk[n] # None /\ readable /\ n \notin ignored

\* A file keeps its entry if it still exists and can be inspected and hashed, and no listed
\* file makes it a generated one: Ok(Some(_)) is neither Ok(None) nor an error.
Keeps(n, readable) == disk[n] # None /\ readable /\ ~MadeGenerated(n)

\* In the order of names, where a Cargo.toml comes before the target folder beside it.
Retain(n) ==
    /\ phase = "retain" /\ n \in left /\ Marks[n] \cap left = {}
    /\ left' = left \ {n}
    /\ \E readable \in BOOLEAN :
        /\ manifest' = IF Keeps(n, readable) THEN [manifest EXCEPT ![n] = baseline[n]] ELSE manifest
        /\ unread' = IF readable \/ disk[n] = None \/ MadeGenerated(n) THEN unread
                     ELSE unread \cup {n}
    /\ UNCHANGED <<tree, baseline, cache, phase, file, fresh, seen, skipped, edits, scans>>

\* The cache is saved, if it can be.
Save ==
    /\ phase = "retain" /\ left = {}
    /\ phase' = "done"
    /\ cache' \in {cache, fresh}
    /\ UNCHANGED <<tree, baseline, left, file, fresh, manifest, history, edits, scans>>

\* check_links refuses, or the caller does not go through with the synchronization.
Unused ==
    /\ phase = "done"
    /\ phase' = "idle" /\ manifest' = Nothing /\ fresh' = Nothing
    /\ UNCHANGED <<tree, baseline, cache, left, file, history, edits, scans>>

\* A push that finds the other machine at the baseline makes the manifest the new one.
Agree ==
    /\ phase = "done" /\ \A n \in Names : manifest[n] # Torn
    /\ baseline' = manifest
    /\ phase' = "idle" /\ manifest' = Nothing /\ fresh' = Nothing
    /\ UNCHANGED <<tree, cache, left, file, history, edits, scans>>

Next ==
    \/ Tick \/ Begin \/ Read \/ Listed \/ ReadFails \/ StartRetaining \/ Save
    \/ Unused \/ Agree
    \/ \E n \in Names : \/ Write(n) \/ Delete(n) \/ ChangeRules(n)
                        \/ Skip(n) \/ Reuse(n) \/ Stat(n) \/ Retain(n)

Spec == Init /\ [][Next]_vars

-----------------------------------------------------------------------------
Stamps == [time : 0 .. MaxClock, hash : Contents \cup {Torn}]

TypeOK ==
    /\ disk \in [Names -> [content : Contents, time : 0 .. MaxClock] \cup {None}]
    /\ ignored \subseteq Names /\ clock \in 0 .. MaxClock
    /\ baseline \in [Names -> Contents \cup {None}]
    /\ cache \in [Names -> Stamps \cup {None}] /\ fresh \in [Names -> Stamps \cup {None}]
    /\ phase \in {"idle", "walk", "retain", "done"} /\ left \subseteq Names
    /\ file \in [name : Names \cup {None}, time : 0 .. MaxClock, began : 0 .. MaxClock,
                 hash : Contents \cup {None}, moved : BOOLEAN]
    /\ manifest \in [Names -> Contents \cup {None, Torn}]
    /\ seen \in [Names -> SUBSET (Contents \cup {None})] /\ skipped \subseteq Names
    /\ unread \subseteq Names
    /\ edits \in 0 .. MaxEdits /\ scans \in 0 .. MaxScans

\* As long as a file's times are those of its cached hash, that hash is of its content
\* (source.rs settled). It takes that no hashing takes more than ReadTicks = 2 ticks.
Truthful(stamps) ==
    \A n \in Names : stamps[n] # None /\ disk[n] # None /\ stamps[n].time = disk[n].time =>
        stamps[n].hash = disk[n].content

CacheTruthful == Truthful(cache) /\ Truthful(fresh)

\* What a scan lists of a file is a content the file had while the scan went on, or it is
\* the baseline of a file that was filtered out or away when the walk came by, or the file
\* changed while it was read.
ListedIsReal ==
    phase = "done" => \A n \in Names :
        \/ manifest[n] \in seen[n] \cup {None}
        \/ manifest[n] = baseline[n] /\ (n \in skipped \/ None \in seen[n])
        \/ manifest[n] = Torn /\ \E x, y \in seen[n] : x # y

Dropped(n) == baseline[n] # None /\ manifest[n] = None

\* A scan drops a file only when the file was gone at some moment, so that no change of
\* rules is taken for a deletion, or when it is in a target folder beside a Cargo.toml, or
\* when it is filtered out and could not be read at all (source.rs:445).
DroppedIfGone ==
    phase = "done" => \A n \in Names :
        Dropped(n) => None \in seen[n] \/ MadeGenerated(n) \/ n \in unread

\* source.rs:370-371, "A file that was synchronized before but is now filtered out keeps its
\* baseline entry while it still exists", as far as it could be read.
FilteredKeepTheirEntry ==
    phase = "done" => \A n \in Names : Dropped(n) => None \in seen[n] \/ n \in unread

\* source.rs:371-372, "Changing ignore rules therefore never deletes or transfers anything by
\* itself", for files that cannot be read too, other than those in a target folder.
UnreadKeepTheirEntry ==
    phase = "done" => \A n \in Names : Dropped(n) => None \in seen[n] \/ MadeGenerated(n)
=============================================================================
