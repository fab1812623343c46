------------------------------- MODULE EnvFiles -------------------------------
(***************************************************************************)
(* The environment files of one project on the Agent: contents kept in     *)
(* Agent storage, links to them in the project's copy, and the list of     *)
(* their names (env_add, env_remove, remove_environment and the removing   *)
(* half of unlink in crates/slingshot-agent/src/projects.rs).              *)
(*                                                                         *)
(* A request holds the project lock from its first step to its last, so    *)
(* there is one at a time; but it may fail between two steps, the daemon   *)
(* may die, and sessions change the copy without asking.                   *)
(***************************************************************************)
EXTENDS Naturals

CONSTANTS
    Targets,  \* places in the copy that environment files may have
    None,
    MaxCuts   \* bound on requests that are cut short

\* linked: an env add found Slingshot's link in place.
Requests == [does : {"add", "remove", "unlink"}, target : Targets, linked : BOOLEAN,
             step : {"first", "second", "third"}]

ASSUME EnvAssumption == None \notin Targets \cup Requests /\ MaxCuts \in Nat

VARIABLES
    stored,   \* targets whose contents are in Agent storage
    link,     \* link[t]: what the copy has at t: nothing, Slingshot's link, another file
    names,    \* the list env list shows and unlink goes by
    request,  \* the request that holds the lock: what it does and its step
    left,     \* the targets an unlink has still to remove
    torn,     \* history: targets whose env add stopped halfway and was not repeated
    cuts

files   == <<stored, link, names>>
work    == <<request, left>>
envVars == <<files, work, torn, cuts>>

InitEnv ==
    /\ stored = {} /\ names = {}
    /\ link = [t \in Targets |-> "none"]
    /\ request = None /\ left = {}
    /\ torn = {} /\ cuts = 0

At(step) == request # None /\ request.step = step
Adding   == request # None /\ request.does = "add"
Removing == request # None /\ request.does # "add"

\* An unlink is removing environment files.
Unlinking == request # None /\ request.does = "unlink"

Goes(step) == request' = [request EXCEPT !.step = step]

\* An env add or env remove is answered; an unlink goes on with the next name.
NextTarget ==
    IF left = {} THEN request' = None /\ UNCHANGED left
    ELSE \E t \in left : /\ request' = [request EXCEPT !.target = t, !.step = "first"]
                         /\ left' = left \ {t}

-----------------------------------------------------------------------------
(* env_add *)

\* Refused unless t is new or to be replaced, and nothing or Slingshot's own link is there.
Add(t) ==
    /\ request = None /\ link[t] # "other"
    /\ request' = [does |-> "add", target |-> t, linked |-> link[t] = "ours", step |-> "first"]
    /\ UNCHANGED <<files, left, torn, cuts>>

\* The contents, in one step (storage::write_bytes). A link that was there is left as it is,
\* whatever a session did to it since.
Store ==
    /\ Adding /\ At("first")
    /\ stored' = stored \cup {request.target}
    /\ Goes(IF request.linked THEN "third" ELSE "second")
    /\ UNCHANGED <<link, names, left, torn, cuts>>

MakeLink ==
    /\ Adding /\ At("second") /\ link[request.target] # "other"
    /\ link' = [link EXCEPT ![request.target] = "ours"]
    /\ Goes("third")
    /\ UNCHANGED <<stored, names, left, torn, cuts>>

\* A file came to be where the link should go: the request fails.
LinkRefused ==
    /\ Adding /\ At("second") /\ link[request.target] = "other"
    /\ request' = None
    /\ torn' = torn \cup ({request.target} \ names)
    /\ UNCHANGED <<files, left, cuts>>

Name ==
    /\ Adding /\ At("third")
    /\ names' = names \cup {request.target}
    /\ torn' = torn \ {request.target}
    /\ request' = None
    /\ UNCHANGED <<stored, link, left, cuts>>

-----------------------------------------------------------------------------
(* env_remove and unlink, which share remove_environment *)

Remove(t) ==
    /\ request = None /\ t \in names
    /\ request' = [does |-> "remove", target |-> t, linked |-> FALSE, step |-> "first"]
    /\ UNCHANGED <<files, left, torn, cuts>>

\* unlink, once every project of the Client is idle: all names of the list.
StartUnlink ==
    /\ request = None /\ names # {}
    /\ \E t \in names :
           /\ request' = [does |-> "unlink", target |-> t, linked |-> FALSE, step |-> "first"]
           /\ left' = names \ {t}
    /\ UNCHANGED <<files, torn, cuts>>

\* Mutant of Unlink: the contents go first.
UnlinkLast ==
    /\ Removing /\ At("first")
    /\ stored' = stored \ {request.target}
    /\ Goes("second")
    /\ UNCHANGED <<link, names, left, torn, cuts>>

\* The link goes first, and only if it is Slingshot's.
Unlink ==
    /\ Removing /\ At("first")
    /\ link' = [link EXCEPT ![request.target] = IF @ = "ours" THEN "none" ELSE @]
    /\ Goes("second")
    /\ UNCHANGED <<stored, names, left, torn, cuts>>

\* Mutant of Discard: the name goes before the contents.
DiscardNameFirst ==
    /\ Removing /\ At("second")
    /\ names' = names \ {request.target}
    /\ Goes("third")
    /\ UNCHANGED <<stored, link, left, torn, cuts>>

Discard ==
    /\ Removing /\ At("second")
    /\ stored' = stored \ {request.target}
    /\ Goes("third")
    /\ UNCHANGED <<link, names, left, torn, cuts>>

Forget ==
    /\ Removing /\ At("third")
    /\ names' = names \ {request.target}
    /\ torn' = torn \ {request.target}
    /\ NextTarget
    /\ UNCHANGED <<stored, link, cuts>>

-----------------------------------------------------------------------------
(* Failures, and the sessions that work in the copy *)

\* A step fails or the daemon dies: what was done stays, the lock is free.
Cut ==
    /\ request # None /\ cuts < MaxCuts
    /\ torn' = IF Adding /\ ~At("first") THEN torn \cup ({request.target} \ names) ELSE torn
    /\ request' = None /\ left' = {}
    /\ cuts' = cuts + 1
    /\ UNCHANGED files

\* A session writes a file of its own, or deletes whatever is there.
Writes(t) ==
    /\ link[t] # "other"
    /\ link' = [link EXCEPT ![t] = "other"]
    /\ UNCHANGED <<stored, names, work, torn, cuts>>

Deletes(t) ==
    /\ link[t] # "none"
    /\ link' = [link EXCEPT ![t] = "none"]
    /\ UNCHANGED <<stored, names, work, torn, cuts>>

Serve   == Store \/ MakeLink \/ LinkRefused \/ Name \/ Unlink \/ Discard \/ Forget
Session == \E t \in Targets : Writes(t) \/ Deletes(t)

-----------------------------------------------------------------------------
EnvTypeOK ==
    /\ stored \subseteq Targets /\ names \subseteq Targets /\ torn \subseteq Targets
    /\ link \in [Targets -> {"none", "ours", "other"}]
    /\ request = None \/ request \in Requests
    /\ left \subseteq Targets /\ cuts \in 0 .. MaxCuts

\* Slingshot's link always leads to contents, whatever step was the last: a program in the
\* copy never finds an environment file that is listed and cannot be opened.
LinksLead == \A t \in Targets : link[t] = "ours" => t \in stored

\* Contents are on the list unlink goes by, unless the env add that brought them stopped
\* halfway or is still at work: no secret is left behind by an interrupted removal.
SecretsListed ==
    \A t \in stored : t \in names \cup torn \/ (Adding /\ request.target = t)
=============================================================================
