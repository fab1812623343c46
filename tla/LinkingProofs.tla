----------------------------- MODULE LinkingProofs -----------------------------
(***************************************************************************)
(* Proofs about Linking and the environment files in it, for any Agents,   *)
(* commands and places, and any number of failures.                        *)
(***************************************************************************)
EXTENDS Linking, TLAPS

USE DEF files, work, envVars, client, agent, progress, histories

(***************************************************************************)
(* How any step of Linking changes the environment files.                  *)
(***************************************************************************)
EnvStep ==
    \/ \E t \in Targets : Add(t) \/ Remove(t)
    \/ StartUnlink \/ Serve \/ Session \/ Cut
    \/ UNCHANGED envVars

LEMMA StepsAreEnvSteps ==
    ASSUME [Next]_vars
    PROVE  EnvStep
  <1>1. CASE UNCHANGED vars
    BY <1>1 DEF vars, EnvStep
  <1>2. ASSUME NEW c \in Commands, NEW what, NEW b, Start(c, what, b)
        PROVE  EnvStep
    BY <1>2 DEF Start, EnvStep
  <1>3. ASSUME NEW c \in Commands, Quit(c) \/ Truncate(c) \/ Save(c) \/ Link(c)
        PROVE  EnvStep
    BY <1>3 DEF Quit, Truncate, Save, Link, Allow, Authorize, Learn, Linked, EnvStep
  <1>4. ASSUME NEW c \in Commands, Undo(c)
        PROVE  EnvStep
    BY <1>4 DEF Undo, Ask, Unanswered, RemoveKey, KeyStays, ForgetHost, Unlinked, EnvStep
  <1>5. ASSUME NEW b \in Boxes, Answer(b)
        PROVE  EnvStep
    BY <1>5 DEF Answer, EnvStep
  <1>6. CASE Fail \/ Secret \/ Environment
    BY <1>6 DEF Fail, Secret, Environment, EnvStep
  <1> QED
    BY <1>1, <1>2, <1>3, <1>4, <1>5, <1>6 DEF Next

(***************************************************************************)
(* What a request has done by the step it is at: an env add stores before  *)
(* it links, a removal unlinks before it discards and discards before it   *)
(* forgets the name.                                                       *)
(***************************************************************************)
Order ==
    /\ Adding /\ ~At("first") => request.target \in stored
    /\ Removing /\ ~At("first") => link[request.target] # "ours"
    /\ Removing /\ At("third") => request.target \notin stored

\* SecretsListed, with the one exception taken as narrowly as it is.
Listed ==
    \A t \in stored :
        t \in names \cup torn \/ (Adding /\ ~At("first") /\ request.target = t)

EnvInv == EnvTypeOK /\ Order /\ Listed /\ LinksLead

LEMMA EnvInit == Init => EnvInv
  BY EnvAssumption DEF Init, InitEnv, EnvInv, EnvTypeOK, Order, Listed, LinksLead, Adding, Removing

LEMMA EnvTypeNext ==
    ASSUME EnvTypeOK, EnvStep
    PROVE  EnvTypeOK'
  <1> USE EnvAssumption DEF EnvTypeOK
  <1>1. CASE UNCHANGED envVars
    BY <1>1
  <1>2. ASSUME NEW t \in Targets, Add(t)
        PROVE  EnvTypeOK'
    <2>1. request' \in Requests
      BY <1>2 DEF Add, Requests
    <2> QED
      BY <1>2, <2>1 DEF Add
  <1>3. ASSUME NEW t \in Targets, Remove(t)
        PROVE  EnvTypeOK'
    <2>1. request' \in Requests
      BY <1>3 DEF Remove, Requests
    <2> QED
      BY <1>3, <2>1 DEF Remove
  <1>4. CASE StartUnlink
    <2>1. request' \in Requests /\ left' \subseteq Targets
      BY <1>4 DEF StartUnlink, Requests
    <2> QED
      BY <1>4, <2>1 DEF StartUnlink
  <1>5. ASSUME request \in Requests, NEW step \in {"first", "second", "third"}, Goes(step)
        PROVE  request' \in Requests
    BY <1>5 DEF Goes, Requests
  <1>6. CASE Store
    <2>1. request' \in Requests /\ request.target \in Targets
      BY <1>5, <1>6 DEF Store, Adding, Requests
    <2> QED
      BY <1>6, <2>1 DEF Store
  <1>7. CASE MakeLink \/ Unlink \/ Discard
    <2>1. request' \in Requests
      BY <1>5, <1>7 DEF MakeLink, Unlink, Discard, Adding, Removing
    <2> QED
      BY <1>7, <2>1 DEF MakeLink, Unlink, Discard
  <1>8. CASE LinkRefused \/ Name
    <2>1. request.target \in Targets
      BY <1>8 DEF LinkRefused, Name, Adding, Requests
    <2> QED
      BY <1>8, <2>1 DEF LinkRefused, Name
  <1>9. CASE Forget
    <2>1. request \in Requests
      BY <1>9 DEF Forget, Removing
    <2>2. request' = None \/ request' \in Requests
      <3>1. CASE left = {}
        BY <1>9, <3>1 DEF Forget, NextTarget
      <3>2. CASE left # {}
        <4>1. PICK t \in left : request' = [request EXCEPT !.target = t, !.step = "first"]
          BY <1>9, <3>2 DEF Forget, NextTarget
        <4> QED
          BY <2>1, <4>1 DEF Requests
      <3> QED
        BY <3>1, <3>2
    <2>3. left' \subseteq Targets
      BY <1>9 DEF Forget, NextTarget
    <2> QED
      BY <1>9, <2>2, <2>3 DEF Forget
  <1>10. CASE Session
    BY <1>10 DEF Session, Writes, Deletes
  <1>11. CASE Cut
    <2>1. Adding => request.target \in Targets
      BY DEF Adding, Requests
    <2> QED
      BY <1>11, <2>1 DEF Cut
  <1> QED
    BY <1>1, <1>2, <1>3, <1>4, <1>6, <1>7, <1>8, <1>9, <1>10, <1>11 DEF EnvStep, Serve

\* A request that was just taken has done nothing.
LEMMA EnvTaken ==
    ASSUME EnvInv, EnvTypeOK', request = None, At("first")', UNCHANGED <<files, torn>>
    PROVE  EnvInv'
  <1>1. ~Adding
    BY DEF Adding
  <1> QED
    BY <1>1 DEF EnvInv, Order, Listed, LinksLead, At, Adding, Removing

LEMMA EnvServe ==
    ASSUME EnvInv, EnvTypeOK', Serve
    PROVE  EnvInv'
  <1> USE EnvAssumption DEF EnvInv, EnvTypeOK
  <1>1. request \in Requests
    BY DEF Serve, Store, MakeLink, LinkRefused, Name, Unlink, Discard, Forget, Adding, Removing
  <1>2. ASSUME NEW step \in {"first", "second", "third"}, Goes(step)
        PROVE  /\ request' \in Requests /\ request'.step = step
               /\ request'.target = request.target /\ request'.does = request.does
    BY <1>1, <1>2 DEF Goes, Requests
  <1>3. CASE Store
    BY <1>1, <1>2, <1>3 DEF Store, Order, Listed, LinksLead, At, Adding, Removing
  <1>4. CASE MakeLink
    BY <1>1, <1>2, <1>4 DEF MakeLink, Order, Listed, LinksLead, At, Adding, Removing, Requests
  <1>5. CASE LinkRefused \/ Name
    BY <1>1, <1>5 DEF LinkRefused, Name, Order, Listed, LinksLead, At, Adding, Removing
  <1>6. CASE Unlink
    BY <1>1, <1>2, <1>6 DEF Unlink, Order, Listed, LinksLead, At, Adding, Removing, Requests
  <1>7. CASE Discard
    BY <1>1, <1>2, <1>7 DEF Discard, Order, Listed, LinksLead, At, Adding, Removing
  <1>8. CASE Forget
    <2>1. ~Adding /\ request.target \notin stored
      BY <1>8 DEF Forget, Removing, Adding, Order
    <2>2. request' = None \/ At("first")'
      <3>1. CASE left = {}
        BY <1>8, <3>1 DEF Forget, NextTarget
      <3>2. CASE left # {}
        <4>1. PICK t \in left : request' = [request EXCEPT !.target = t, !.step = "first"]
          BY <1>8, <3>2 DEF Forget, NextTarget
        <4> QED
          BY <1>1, <4>1 DEF At, Requests
      <3> QED
        BY <3>1, <3>2
    <2>3. Order'
      BY <2>2 DEF Order, At, Adding, Removing
    <2> QED
      BY <1>8, <2>1, <2>3 DEF Forget, Listed, LinksLead
  <1> QED
    BY <1>3, <1>4, <1>5, <1>6, <1>7, <1>8 DEF Serve

LEMMA EnvSession ==
    ASSUME EnvInv, EnvTypeOK', Session
    PROVE  EnvInv'
  <1>1. PICK t \in Targets : Writes(t) \/ Deletes(t)
    BY DEF Session
  <1>2. \A u \in Targets : link'[u] = "ours" => link[u] = "ours"
    BY <1>1 DEF Writes, Deletes, EnvInv, EnvTypeOK
  <1>3. request # None => request.target \in Targets
    BY DEF EnvInv, EnvTypeOK, Requests
  <1> QED
    BY <1>1, <1>2, <1>3
       DEF Writes, Deletes, EnvInv, Order, Listed, LinksLead, At, Adding, Removing

LEMMA EnvCut ==
    ASSUME EnvInv, EnvTypeOK', Cut
    PROVE  EnvInv'
  BY DEF Cut, EnvInv, Order, Listed, LinksLead, At, Adding, Removing

LEMMA EnvNext ==
    ASSUME EnvInv, [Next]_vars
    PROVE  EnvInv'
  <1>1. EnvStep /\ EnvTypeOK'
    BY StepsAreEnvSteps, EnvTypeNext DEF EnvInv
  <1>2. ASSUME request' \in Requests, request'.step = "first"
        PROVE  At("first")'
    BY <1>2, EnvAssumption DEF At
  <1>3. ASSUME NEW t \in Targets, Add(t) \/ Remove(t)
        PROVE  EnvInv'
    <2>1. request' \in Requests
      <3>1. CASE Add(t)
        BY <3>1 DEF Add, Requests
      <3>2. CASE Remove(t)
        BY <3>2 DEF Remove, Requests
      <3> QED
        BY <1>3, <3>1, <3>2
    <2>2. request'.step = "first"
      BY <1>3 DEF Add, Remove
    <2> QED
      BY <1>1, <1>2, <1>3, <2>1, <2>2, EnvTaken DEF Add, Remove
  <1>5. CASE StartUnlink
    <2>1. request' \in Requests /\ request'.step = "first"
      BY <1>5 DEF StartUnlink, Requests, EnvInv, EnvTypeOK
    <2> QED
      BY <1>1, <1>2, <1>5, <2>1, EnvTaken DEF StartUnlink
  <1>4. CASE UNCHANGED envVars
    BY <1>1, <1>4 DEF EnvInv, Order, Listed, LinksLead, At, Adding, Removing
  <1> QED
    BY <1>1, <1>3, <1>4, <1>5, EnvServe, EnvSession, EnvCut DEF EnvStep

LEMMA EnvAlways == Spec => []EnvInv
  BY EnvInit, EnvNext, PTL DEF Spec

\* Slingshot's link always leads to contents, whichever requests were cut short and whatever
\* sessions do at its place (projects.rs env_add, remove_environment).
THEOREM LinksAlwaysLead == Spec => []LinksLead
  <1>1. EnvInv => LinksLead
    BY DEF EnvInv
  <1> QED
    BY <1>1, EnvAlways, PTL

\* Contents are on the list unlink goes by, unless the env add that brought them stopped
\* halfway or is still at work.
THEOREM SecretsAlwaysListed == Spec => []SecretsListed
  <1>1. EnvInv => SecretsListed
    BY DEF EnvInv, Listed, SecretsListed
  <1> QED
    BY <1>1, EnvAlways, PTL

-----------------------------------------------------------------------------
(***************************************************************************)
(* Every version of config.toml a command may have in memory names a       *)
(* default that is in it; so does what it writes.                          *)
(***************************************************************************)
Named(k) == k.default \in k.agents \cup {None}

ConfigInv ==
    /\ config \in Configs /\ Named(config)
    /\ memory \in [Commands -> Configs] /\ \A c \in Commands : Named(memory[c])
    /\ command \in [Commands -> [does : {"nothing", "link", "unlink"}, box : Boxes,
                                 whole : BOOLEAN]]

LEMMA WrittenNamed ==
    ASSUME ConfigInv, NEW c \in Commands
    PROVE  Written(c) \in Configs /\ Named(Written(c))
  <1> DEFINE k == memory[c]
             b == command[c].box
  <1>1. k \in Configs /\ Named(k) /\ b \in Boxes
    BY DEF ConfigInv
  <1>2. Upserted(k, b) \in Configs /\ Named(Upserted(k, b))
    BY <1>1 DEF Upserted, Configs, Named
  <1>3. Dropped(k, b) \in Configs /\ Named(Dropped(k, b))
    BY <1>1 DEF Dropped, Configs, Named
  <1> QED
    BY <1>2, <1>3 DEF Written, Box

LEMMA EmptyNamed == Empty \in Configs /\ Named(Empty)
  BY DEF Empty, Configs, Named

LEMMA ConfigInit == Init => ConfigInv
  BY LinkingAssumption, EmptyNamed DEF Init, ConfigInv, Idle

LEMMA ConfigNext ==
    ASSUME ConfigInv, [Next]_vars
    PROVE  ConfigInv'
  <1> USE LinkingAssumption DEF ConfigInv, Moves
  <1>1. CASE UNCHANGED vars
    BY <1>1 DEF vars
  <1>2. ASSUME NEW c \in Commands, NEW what \in {"link", "unlink"}, NEW b \in Boxes,
               Start(c, what, b)
        PROVE  ConfigInv'
    BY <1>2 DEF Start, Loaded
  <1>3. ASSUME NEW c, Ends(c), UNCHANGED config
        PROVE  ConfigInv'
    <2>1. Idle \in [does : {"nothing", "link", "unlink"}, box : Boxes, whole : BOOLEAN]
      BY DEF Idle
    <2>2. \A d \in Commands : memory'[d] \in {memory[d], Empty}
      BY <1>3 DEF Ends
    <2>3. memory' \in [Commands -> Configs] /\ \A d \in Commands : Named(memory'[d])
      BY <1>3, <2>2, EmptyNamed DEF Ends
    <2>4. command' \in [Commands -> [does : {"nothing", "link", "unlink"}, box : Boxes,
                                     whole : BOOLEAN]]
      BY <1>3, <2>1 DEF Ends
    <2> QED
      BY <1>3, <2>3, <2>4
  <1>4. ASSUME NEW c \in Commands, Truncate(c) \/ Save(c)
        PROVE  ConfigInv'
    BY <1>4, EmptyNamed, WrittenNamed DEF Truncate, Save
  <1>5. ASSUME NEW c \in Commands, Quit(c) \/ Linked(c) \/ Unlinked(c)
        PROVE  ConfigInv'
    BY <1>3, <1>5 DEF Quit, Linked, Unlinked
  <1>6. ASSUME NEW c \in Commands, Unanswered(c) \/ KeyStays(c)
        PROVE  ConfigInv'
    BY <1>6 DEF Unanswered, KeyStays
  <1>7. ASSUME NEW c \in Commands,
               Allow(c) \/ Authorize(c) \/ Learn(c) \/ Ask(c) \/ RemoveKey(c) \/ ForgetHost(c)
        PROVE  UNCHANGED <<config, memory, command>>
    BY <1>7 DEF Allow, Authorize, Learn, Ask, RemoveKey, ForgetHost
  <1>8. ASSUME NEW b \in Boxes, Answer(b)
        PROVE  UNCHANGED <<config, memory, command>>
    BY <1>8 DEF Answer
  <1>9. CASE Secret \/ Environment
    BY <1>9 DEF Secret, Environment
  <1>10. CASE Fail
    <2>1. UNCHANGED config /\ (UNCHANGED progress \/ Ends(asker[EnvBox]))
      BY <1>10 DEF Fail
    <2> QED
      BY <1>3, <2>1
  <1> QED
    BY <1>1, <1>2, <1>4, <1>5, <1>6, <1>7, <1>8, <1>9, <1>10 DEF Next, Link, Undo

\* The saved configuration never names a default Agent that it does not hold, although every
\* command writes what it read when it started, over whatever others wrote since.
THEOREM DefaultAlwaysSaved == Spec => []DefaultSaved
  <1>1. ConfigInv => DefaultSaved
    BY DEF ConfigInv, Named, DefaultSaved
  <1> QED
    BY <1>1, ConfigInit, ConfigNext, PTL DEF Spec

-----------------------------------------------------------------------------
(***************************************************************************)
(* Type correctness, with what a command does at each place.               *)
(***************************************************************************)
Places == {"idle", "loaded", "allowed", "authorized", "ready", "saving", "saved", "asked",
           "cleaned", "unkeyed"}

PlacesType == at \in [Commands -> Places] /\ asker \in [Boxes -> Commands \cup {None}]

BoxesType ==
    /\ hosts \subseteq Boxes /\ registered \subseteq Boxes
    /\ keys \subseteq Boxes /\ allowed \subseteq Boxes
    /\ linked \subseteq Boxes /\ clean \subseteq Boxes

Stages ==
    \A c \in Commands :
        /\ at[c] = "idle" <=> Does(c, "nothing")
        /\ at[c] \in {"allowed", "authorized"} => Does(c, "link")
        /\ at[c] \in {"asked", "cleaned", "unkeyed"} => Does(c, "unlink")

LinkTypeInv == EnvInv /\ ConfigInv /\ PlacesType /\ BoxesType /\ Stages

LEMMA LinkTypeInit == Init => LinkTypeInv
  <1> SUFFICES ASSUME Init PROVE LinkTypeInv
    OBVIOUS
  <1>1. PlacesType /\ BoxesType
    BY DEF Init, PlacesType, BoxesType, Places
  <1>2. Stages
    BY DEF Init, Stages, Does, Idle
  <1> QED
    BY <1>1, <1>2, EnvInit, ConfigInit DEF LinkTypeInv

\* What an ended command leaves of the others.
LEMMA EndsAt ==
    ASSUME LinkTypeInv, NEW c \in Commands, Ends(c)
    PROVE  /\ at' \in [Commands -> Places] /\ at'[c] = "idle" /\ command'[c] = Idle
           /\ Stages'
  <1>1. at' \in [Commands -> Places] /\ at'[c] = "idle" /\ command'[c] = Idle
    BY DEF Ends, Moves, LinkTypeInv, PlacesType, ConfigInv, Places
  <1>2. \A d \in Commands \ {c} : at'[d] = at[d] /\ command'[d] = command[d]
    BY DEF Ends, Moves, LinkTypeInv, PlacesType, ConfigInv
  <1> QED
    BY <1>1, <1>2 DEF Stages, LinkTypeInv, Does, Idle

LEMMA MovesAt ==
    ASSUME LinkTypeInv, NEW c \in Commands, NEW place \in Places, Moves(c, place),
           \/ command' = command
           \/ command' = [command EXCEPT ![c].whole = FALSE]
    PROVE  /\ at' \in [Commands -> Places] /\ at'[c] = place
           /\ \A d \in Commands \ {c} : at'[d] = at[d] /\ command'[d] = command[d]
           /\ \A d \in Commands : /\ command'[d].does = command[d].does
                                  /\ command'[d].box = command[d].box
           /\ command'[c].whole => command[c].whole
  <1>1. /\ at' \in [Commands -> Places] /\ at'[c] = place
        /\ \A d \in Commands \ {c} : at'[d] = at[d]
    BY DEF Moves, LinkTypeInv, PlacesType
  <1>2. CASE command' = command
    BY <1>1, <1>2, Zenon
  <1>3. CASE command' = [command EXCEPT ![c].whole = FALSE]
    <2>1. DOMAIN command = Commands
      BY DEF LinkTypeInv, ConfigInv
    <2>2. \A d \in Commands \ {c} : command'[d] = command[d]
      BY <1>3, <2>1
    <2>3. command[c] \in [does : {"nothing", "link", "unlink"}, box : Boxes, whole : BOOLEAN]
      BY DEF LinkTypeInv, ConfigInv
    <2>4. command'[c] = [command[c] EXCEPT !.whole = FALSE]
      BY <1>3, <2>1
    <2>5. /\ command'[c].does = command[c].does /\ command'[c].box = command[c].box
          /\ ~command'[c].whole
      BY <2>3, <2>4
    <2> QED
      BY <1>1, <2>2, <2>5, Zenon
  <1> QED
    BY <1>2, <1>3

LEMMA LinkTypeMoves ==
    ASSUME LinkTypeInv, NEW c \in Commands,
           \/ Truncate(c) \/ Save(c) \/ Allow(c) \/ Authorize(c) \/ Learn(c) \/ Ask(c)
           \/ Unanswered(c) \/ RemoveKey(c) \/ KeyStays(c) \/ ForgetHost(c)
    PROVE  PlacesType' /\ BoxesType' /\ Stages'
  <1>1. Box(c) \in Boxes
    BY DEF Box, LinkTypeInv, ConfigInv
  <1>2. BoxesType'
    BY <1>1 DEF Truncate, Save, Allow, Authorize, Learn, Ask, Unanswered, RemoveKey, KeyStays,
       ForgetHost, LinkTypeInv, BoxesType, HostsWithout
  <1>3. asker' \in [Boxes -> Commands \cup {None}]
    BY <1>1 DEF Truncate, Save, Allow, Authorize, Learn, Ask, Unanswered, RemoveKey, KeyStays,
       ForgetHost, LinkTypeInv, PlacesType
  <1>4. PICK place \in Places :
            /\ Moves(c, place) /\ place # "idle" /\ at[c] # "idle"
            /\ place \in {"allowed", "authorized"} => Does(c, "link")
            /\ place \in {"asked", "cleaned", "unkeyed"} => Does(c, "unlink")
    BY DEF Truncate, Save, Allow, Authorize, Learn, Ask, Unanswered, RemoveKey, KeyStays,
       ForgetHost, LinkTypeInv, Stages, Places
  <1>5. command' = command \/ command' = [command EXCEPT ![c].whole = FALSE]
    BY DEF Truncate, Save, Allow, Authorize, Learn, Ask, Unanswered, RemoveKey, KeyStays,
       ForgetHost
  <1>6. /\ at' \in [Commands -> Places] /\ at'[c] = place
        /\ \A d \in Commands \ {c} : at'[d] = at[d]
        /\ \A d \in Commands : command'[d].does = command[d].does
    BY <1>4, <1>5, MovesAt
  <1>7. Stages'
    BY <1>4, <1>6 DEF Stages, LinkTypeInv, Does
  <1> QED
    BY <1>2, <1>3, <1>6, <1>7 DEF PlacesType

LEMMA LinkTypeNext ==
    ASSUME LinkTypeInv, [Next]_vars
    PROVE  LinkTypeInv'
  <1>1. EnvInv' /\ ConfigInv'
    BY EnvNext, ConfigNext DEF LinkTypeInv
  <1>2. CASE UNCHANGED vars
    BY <1>1, <1>2 DEF vars, LinkTypeInv, PlacesType, BoxesType, Stages, Does
  <1>3. ASSUME NEW c \in Commands, NEW what \in {"link", "unlink"}, NEW b \in Boxes,
               Start(c, what, b)
        PROVE  LinkTypeInv'
    <2>1. PlacesType' /\ BoxesType'
      BY <1>3 DEF Start, Moves, LinkTypeInv, PlacesType, BoxesType, Places
    <2>2. \A d \in Commands : command'[d].does = IF d = c THEN what ELSE command[d].does
      BY <1>3 DEF Start, LinkTypeInv, ConfigInv
    <2>3. \A d \in Commands : at'[d] = IF d = c THEN "loaded" ELSE at[d]
      BY <1>3 DEF Start, Moves, LinkTypeInv, PlacesType
    <2>4. Stages'
      BY <2>2, <2>3 DEF LinkTypeInv, Stages, Does
    <2> QED
      BY <1>1, <2>1, <2>4 DEF LinkTypeInv
  <1>4. ASSUME NEW c \in Commands,
               \/ Truncate(c) \/ Save(c) \/ Allow(c) \/ Authorize(c) \/ Learn(c) \/ Ask(c)
               \/ Unanswered(c) \/ RemoveKey(c) \/ KeyStays(c) \/ ForgetHost(c)
        PROVE  LinkTypeInv'
    BY <1>1, <1>4, LinkTypeMoves DEF LinkTypeInv
  <1>5. ASSUME NEW c \in Commands, Quit(c) \/ Linked(c) \/ Unlinked(c)
        PROVE  LinkTypeInv'
    <2>1. Ends(c) /\ asker' = asker /\ Box(c) \in Boxes
      BY <1>5 DEF Quit, Linked, Unlinked, Box, LinkTypeInv, ConfigInv
    <2>2. BoxesType'
      BY <1>5, <2>1 DEF Quit, Linked, Unlinked, LinkTypeInv, BoxesType, ProjectsWithout
    <2> QED
      BY <1>1, <2>1, <2>2, EndsAt DEF LinkTypeInv, PlacesType
  <1>6. ASSUME NEW b \in Boxes, Answer(b)
        PROVE  LinkTypeInv'
    <2>1. /\ BoxesType' /\ asker' \in [Boxes -> Commands \cup {None}] /\ command' = command
      BY <1>6 DEF Answer, LinkTypeInv, BoxesType, PlacesType, AllowedWithout
    <2>2. /\ asker[b] \in Commands
          /\ at' = at \/ (at[asker[b]] = "asked" /\ Moves(asker[b], "cleaned"))
      BY <1>6 DEF Answer, LinkTypeInv, PlacesType
    <2>3. at' \in [Commands -> Places] /\ Stages'
      <3>1. CASE at' = at
        BY <2>1, <3>1 DEF LinkTypeInv, PlacesType, Stages, Does
      <3>2. CASE at[asker[b]] = "asked" /\ Moves(asker[b], "cleaned")
        <4>1. at' \in [Commands -> Places]
          BY <2>2, <3>2 DEF Moves, LinkTypeInv, PlacesType, Places
        <4>2. \A d \in Commands : at'[d] = IF d = asker[b] THEN "cleaned" ELSE at[d]
          BY <2>2, <3>2 DEF Moves, LinkTypeInv, PlacesType
        <4> QED
          BY <2>1, <3>2, <4>1, <4>2 DEF LinkTypeInv, Stages, Does
      <3> QED
        BY <2>2, <3>1, <3>2
    <2> QED
      BY <1>1, <2>1, <2>3 DEF LinkTypeInv, PlacesType
  <1>7. CASE Fail
    <2>1. BoxesType' /\ asker' \in [Boxes -> Commands \cup {None}]
      BY <1>7 DEF Fail, LinkTypeInv, BoxesType, PlacesType
    <2>2. UNCHANGED progress \/ (asker[EnvBox] \in Commands /\ Ends(asker[EnvBox]))
      BY <1>7, LinkingAssumption DEF Fail, LinkTypeInv, PlacesType
    <2>3. at' \in [Commands -> Places] /\ Stages'
      <3>1. CASE UNCHANGED progress
        BY <3>1 DEF LinkTypeInv, PlacesType, Stages, Does
      <3> QED
        BY <2>2, <3>1, EndsAt
    <2> QED
      BY <1>1, <2>1, <2>3 DEF LinkTypeInv, PlacesType
  <1>8. CASE Secret \/ Environment
    <2>1. UNCHANGED <<progress, asker>> /\ BoxesType'
      BY <1>8, LinkingAssumption DEF Secret, Environment, LinkTypeInv, BoxesType, Identified
    <2> QED
      BY <1>1, <2>1 DEF LinkTypeInv, PlacesType, Stages, Does
  <1> QED
    BY <1>2, <1>3, <1>4, <1>5, <1>6, <1>7, <1>8 DEF Next, Link, Undo

-----------------------------------------------------------------------------
(***************************************************************************)
(* As long as no two commands get in each other's way, an Agent is used by *)
(* one at a time, config.toml loses no Agent but the one a command is      *)
(* about, and what a link or an unlink has done by each place stays done.  *)
(***************************************************************************)
\* b is saved, or is in what a command is about to write.
Kept(b) ==
    \/ b \in config.agents
    \/ \E d \in Commands : at[d] = "saving" /\ b \in memory[d].agents /\ Box(d) # b

Apart == \A c, d \in Commands : at[c] # "idle" /\ at[d] # "idle" /\ Box(c) = Box(d) => c = d

LinkedAt(b) ==
    b \in linked => /\ b \in hosts /\ b \in keys /\ b \in allowed
                    /\ Kept(b) \/ \E c \in Commands : at[c] = "saving" /\ Box(c) = b

CleanAt(b) ==
    b \in clean => /\ b \notin keys /\ b \notin allowed
                   /\ b = EnvBox => request = None /\ stored \subseteq torn

LinkTidy(c) ==
    Does(c, "link") =>
        /\ at[c] \in {"allowed", "authorized", "ready", "saving", "saved"} => Box(c) \in allowed
        /\ at[c] \in {"authorized", "ready", "saving", "saved"} => Box(c) \in keys
        /\ at[c] \in {"ready", "saving", "saved"} => Box(c) \in hosts
        /\ at[c] = "saved" => Kept(Box(c))

\* The Agent that was asked has nothing to remove, or is removing all of it.
AskTidy(c) ==
    at[c] = "asked" /\ Box(c) = EnvBox /\ asker[EnvBox] = c =>
        \/ request = None /\ names = {}
        \/ Unlinking /\ names \subseteq left \cup {request.target}

UnlinkTidy(c) ==
    Does(c, "unlink") =>
        /\ Box(c) \notin linked
        /\ command[c].whole /\ at[c] \in {"cleaned", "unkeyed", "ready", "saving", "saved"} =>
               /\ Box(c) \notin allowed
               /\ at[c] # "cleaned" => Box(c) \notin keys
               /\ Box(c) = EnvBox => request = None /\ names = {} /\ stored \subseteq torn

CommandTidy(c) == LinkTidy(c) /\ AskTidy(c) /\ UnlinkTidy(c)

Registered == names # {} \/ Adding => EnvBox \in registered

Tidy ==
    /\ Apart /\ Registered
    /\ \A b \in Boxes : LinkedAt(b) /\ CleanAt(b)
    /\ \A c \in Commands : CommandTidy(c)

LinkInv == LinkTypeInv /\ (crossed \/ Tidy)

\* What a command is about is one Agent.
Elsewhere(b) ==
    /\ \A x \in Boxes \ {b} :
           /\ x \in hosts' <=> x \in hosts
           /\ x \in keys' <=> x \in keys
           /\ x \in allowed' <=> x \in allowed
           /\ x \in linked' <=> x \in linked
           /\ x \in clean' <=> x \in clean
           /\ asker'[x] = asker[x]
    /\ b # EnvBox => UNCHANGED envVars

SameCommand(d) == at'[d] = at[d] /\ command'[d] = command[d] /\ memory'[d] = memory[d]

Owns(c, b) ==
    /\ Elsewhere(b)
    /\ \A d \in Commands \ {c} : SameCommand(d) /\ (at[d] # "idle" => Box(d) # b)
    /\ at[c] # "idle" => Box(c) = b
    /\ at'[c] # "idle" => Box(c)' = b
    /\ \A x \in Boxes \ {b} : Kept(x) => Kept(x)'

\* What a step of a command has to be shown for.
LEMMA OwnsTidy ==
    ASSUME LinkTypeInv, LinkTypeInv', Tidy, NEW c \in Commands, NEW b \in Boxes, Owns(c, b),
           LinkedAt(b)', CleanAt(b)', CommandTidy(c)', Registered'
    PROVE  Tidy'
  <1>1. ASSUME NEW d \in Commands \ {c}
        PROVE  /\ at'[d] = at[d] /\ Box(d)' = Box(d) /\ memory'[d] = memory[d]
               /\ command'[d] = command[d]
               /\ at[d] # "idle" => Box(d) # b
    BY DEF Owns, SameCommand, Box
  <1>2. Apart'
    BY <1>1 DEF Apart, Tidy, Owns
  <1>3. ASSUME NEW x \in Boxes \ {b}
        PROVE  LinkedAt(x)' /\ CleanAt(x)'
    <2>1. Kept(x) => Kept(x)'
      BY DEF Owns
    <2>2. ASSUME NEW e \in Commands, at[e] = "saving", Box(e) = x
          PROVE  at'[e] = "saving" /\ Box(e)' = x
      <3>1. e # c
        BY <2>2 DEF Owns
      <3> QED
        BY <1>1, <2>2, <3>1
    <2>3. LinkedAt(x)'
      BY <2>1, <2>2 DEF Tidy, LinkedAt, Owns, Elsewhere
    <2>4. CleanAt(x)'
      BY DEF Tidy, CleanAt, Owns, Elsewhere
    <2> QED
      BY <2>3, <2>4
  <1>4. ASSUME NEW d \in Commands \ {c}
        PROVE  CommandTidy(d)'
    <2>1. CASE at[d] = "idle"
      <3>1. at'[d] = "idle" /\ ~Does(d, "link")' /\ ~Does(d, "unlink")'
        BY <1>1, <2>1 DEF LinkTypeInv, Stages, Does
      <3> QED
        BY <3>1 DEF CommandTidy, LinkTidy, AskTidy, UnlinkTidy
    <2>2. CASE at[d] # "idle"
      <3>1. Box(d) \in Boxes \ {b} /\ CommandTidy(d) /\ (Box(d) = EnvBox => UNCHANGED envVars)
        BY <1>1, <2>2 DEF Box, LinkTypeInv, ConfigInv, Tidy, Owns, Elsewhere
      <3>2. LinkTidy(d)'
        BY <1>1, <3>1 DEF CommandTidy, LinkTidy, Does, Owns, Elsewhere
      <3>3. AskTidy(d)'
        BY <1>1, <3>1 DEF CommandTidy, AskTidy, Owns, Elsewhere, Unlinking
      <3>4. UnlinkTidy(d)'
        BY <1>1, <3>1 DEF CommandTidy, UnlinkTidy, Does, Owns, Elsewhere
      <3> QED
        BY <3>2, <3>3, <3>4 DEF CommandTidy
    <2> QED
      BY <2>1, <2>2
  <1> QED
    BY <1>2, <1>3, <1>4 DEF Tidy

LEMMA KeptCalm ==
    ASSUME NEW c \in Commands, config' = config, at[c] # "saving",
           \A d \in Commands \ {c} : SameCommand(d)
    PROVE  \A x \in Boxes : Kept(x) => Kept(x)'
  BY DEF Kept, SameCommand, Box

LEMMA OthersSame ==
    ASSUME LinkTypeInv, NEW c \in Commands,
           \/ \E what, b : Start(c, what, b)
           \/ Quit(c) \/ Truncate(c) \/ Save(c) \/ Link(c) \/ Undo(c)
    PROVE  \A d \in Commands \ {c} : SameCommand(d)
  <1> USE DEF SameCommand, LinkTypeInv, ConfigInv, PlacesType, Moves
  <1>1. ASSUME NEW what, NEW b, Start(c, what, b)
        PROVE  \A d \in Commands \ {c} : SameCommand(d)
    BY <1>1 DEF Start
  <1>2. ASSUME Ends(c)
        PROVE  \A d \in Commands \ {c} : SameCommand(d)
    BY <1>2 DEF Ends
  <1>3. CASE Quit(c) \/ Linked(c) \/ Unlinked(c)
    BY <1>2, <1>3 DEF Quit, Linked, Unlinked
  <1>4. CASE \/ Truncate(c) \/ Save(c) \/ Allow(c) \/ Authorize(c) \/ Learn(c) \/ Ask(c)
             \/ RemoveKey(c) \/ ForgetHost(c)
    BY <1>4 DEF Truncate, Save, Allow, Authorize, Learn, Ask, RemoveKey, ForgetHost
  <1>5. CASE Unanswered(c) \/ KeyStays(c)
    BY <1>5 DEF Unanswered, KeyStays
  <1> QED
    BY <1>1, <1>3, <1>4, <1>5 DEF Link, Undo

LEMMA BoxElsewhere ==
    ASSUME LinkTypeInv, NEW c \in Commands,
           Quit(c) \/ Truncate(c) \/ Save(c) \/ Link(c) \/ Undo(c)
    PROVE  Elsewhere(Box(c))
  <1> USE DEF Elsewhere
  <1>1. CASE Quit(c) \/ Truncate(c) \/ Save(c)
    BY <1>1 DEF Quit, Truncate, Save
  <1>2. CASE Link(c)
    BY <1>2 DEF Link, Allow, Authorize, Learn, Linked, HostsWithout
  <1>3. CASE Undo(c)
    BY <1>3 DEF Undo, Ask, Unanswered, RemoveKey, KeyStays, ForgetHost, Unlinked, HostsWithout,
       ProjectsWithout, LinkTypeInv, PlacesType
  <1> QED
    BY <1>1, <1>2, <1>3

\* A command at work on an Agent, in any step but the two that save.
LEMMA WorksOwns ==
    ASSUME LinkTypeInv, Tidy, NEW c \in Commands, at[c] \notin {"idle", "saving"},
           Quit(c) \/ Link(c) \/ Undo(c)
    PROVE  /\ Owns(c, Box(c)) /\ Box(c) \in Boxes
           /\ \A x \in Boxes : Kept(x) => Kept(x)'
  <1>1. \A d \in Commands \ {c} : SameCommand(d)
    BY OthersSame
  <1>2. \A d \in Commands \ {c} : at[d] # "idle" => Box(d) # Box(c)
    BY DEF Tidy, Apart
  <1>3. config' = config
    BY DEF Quit, Link, Undo, Allow, Authorize, Learn, Linked, Ask, Unanswered, RemoveKey,
       KeyStays, ForgetHost, Unlinked
  <1>4. at'[c] # "idle" => Box(c)' = Box(c)
    <2>1. CASE Quit(c) \/ Linked(c) \/ Unlinked(c)
      <3>1. Ends(c)
        BY <2>1 DEF Quit, Linked, Unlinked
      <3> QED
        BY <3>1, EndsAt
    <2>2. CASE \/ Allow(c) \/ Authorize(c) \/ Learn(c) \/ Ask(c) \/ Unanswered(c)
               \/ RemoveKey(c) \/ KeyStays(c) \/ ForgetHost(c)
      <3>1. command' = command \/ command' = [command EXCEPT ![c].whole = FALSE]
        BY <2>2 DEF Allow, Authorize, Learn, Ask, Unanswered, RemoveKey, KeyStays, ForgetHost
      <3> QED
        BY <3>1 DEF Box, LinkTypeInv, ConfigInv
    <2> QED
      BY <2>1, <2>2 DEF Link, Undo
  <1>5. Box(c) \in Boxes
    BY DEF Box, LinkTypeInv, ConfigInv
  <1> QED
    BY <1>1, <1>2, <1>3, <1>4, <1>5, KeptCalm, BoxElsewhere DEF Owns

-----------------------------------------------------------------------------
(***************************************************************************)
(* Each action.                                                            *)
(***************************************************************************)
\* What an ended command was about is forgotten.
LEMMA EndedTidy ==
    ASSUME LinkTypeInv, LinkTypeInv', NEW c \in Commands, Ends(c)
    PROVE  CommandTidy(c)' /\ at'[c] = "idle"
  <1>1. at'[c] = "idle"
    BY EndsAt
  <1>2. ~Does(c, "link")' /\ ~Does(c, "unlink")'
    BY <1>1 DEF LinkTypeInv, Stages, Does
  <1> QED
    BY <1>1, <1>2 DEF CommandTidy, LinkTidy, AskTidy, UnlinkTidy

\* A step that only adds to what a linked Agent needs.
LEMMA LinkedStays ==
    ASSUME LinkTypeInv, Tidy, NEW c \in Commands, NEW b \in Boxes, LinkedAt(b),
           b \in linked' => b \in linked, b \in hosts => b \in hosts', b \in keys => b \in keys',
           b \in allowed => b \in allowed', Kept(b) => Kept(b)',
           at[c] # "saving", \A d \in Commands \ {c} : SameCommand(d)
    PROVE  LinkedAt(b)'
  <1>1. ASSUME NEW e \in Commands, at[e] = "saving", Box(e) = b
        PROVE  at'[e] = "saving" /\ Box(e)' = b
    BY <1>1 DEF SameCommand, Box
  <1> QED
    BY <1>1 DEF LinkedAt

LEMMA TidyStart ==
    ASSUME LinkTypeInv, LinkTypeInv', Tidy, ~crossed',
           NEW c \in Commands, NEW what \in {"link", "unlink"}, NEW b \in Boxes, Start(c, what, b)
    PROVE  Tidy'
  <1>1. /\ UNCHANGED <<envVars, client, agent, asker, clean>> /\ at[c] = "idle"
        /\ linked' = IF what = "unlink" THEN linked \ {b} ELSE linked
    BY DEF Start
  <1>2. /\ at'[c] = "loaded" /\ Box(c)' = b /\ command'[c].does = what
    BY DEF Start, Moves, Box, LinkTypeInv, PlacesType, ConfigInv
  <1>3. \A d \in Commands \ {c} : at[d] # "idle" => Box(d) # b
    <2>1. crossed' = (crossed \/ \E d \in Commands \ {c} : at[d] # "idle" /\ Box(d) = b)
      BY DEF Start
    <2> QED
      BY <2>1, Zenon
  <1>4. \A d \in Commands \ {c} : SameCommand(d)
    BY OthersSame
  <1>5. \A x \in Boxes : Kept(x) => Kept(x)'
    BY <1>1, <1>4, KeptCalm
  <1>6. Owns(c, b)
    BY <1>1, <1>2, <1>3, <1>4, <1>5 DEF Owns, Elsewhere
  <1>7. LinkedAt(b)'
    BY <1>1, <1>4, <1>5, LinkedStays DEF Tidy
  <1>8. CleanAt(b)' /\ Registered'
    BY <1>1 DEF Tidy, CleanAt, Registered, Adding
  <1>9. CommandTidy(c)'
    BY <1>1, <1>2 DEF CommandTidy, LinkTidy, AskTidy, UnlinkTidy, Does
  <1> QED
    BY <1>6, <1>7, <1>8, <1>9, OwnsTidy

LEMMA TidyQuit ==
    ASSUME LinkTypeInv, LinkTypeInv', Tidy, ~crossed', NEW c \in Commands, Quit(c)
    PROVE  Tidy'
  <1>1. /\ UNCHANGED <<envVars, client, agent, asker, linked, clean>> /\ at[c] # "idle"
        /\ Ends(c)
    BY DEF Quit
  <1>2. at[c] # "saving"
    <2>1. crossed' = (crossed \/ at[c] = "saving")
      BY DEF Quit
    <2> QED
      BY <2>1, Zenon
  <1>3. /\ Owns(c, Box(c)) /\ Box(c) \in Boxes /\ \A x \in Boxes : Kept(x) => Kept(x)'
    BY <1>1, <1>2, WorksOwns
  <1>5. \A d \in Commands \ {c} : SameCommand(d)
    BY <1>3 DEF Owns
  <1>6. PICK x \in Boxes : x = Box(c)
    BY <1>3
  <1>7. LinkedAt(x)'
    BY <1>1, <1>2, <1>3, <1>5, <1>6, LinkedStays DEF Tidy
  <1>8. CleanAt(x)' /\ Registered'
    BY <1>1 DEF Tidy, CleanAt, Registered, Adding
  <1>9. CommandTidy(c)'
    BY <1>1, EndedTidy
  <1> QED
    BY <1>3, <1>6, <1>7, <1>8, <1>9, OwnsTidy

\* A link adds the keys and the host key, and then knows what it has.
LEMMA TidyLink ==
    ASSUME LinkTypeInv, LinkTypeInv', Tidy, NEW c \in Commands, Link(c)
    PROVE  Tidy'
  <1>1. /\ at[c] \notin {"idle", "saving"} /\ Does(c, "link")
    BY DEF Link, Allow, Authorize, Learn, Linked, LinkTypeInv, Stages, Does
  <1>2. PICK b \in Boxes : b = Box(c)
    BY DEF Box, LinkTypeInv, ConfigInv
  <1>3. /\ Owns(c, b) /\ \A x \in Boxes : Kept(x) => Kept(x)'
        /\ \A d \in Commands \ {c} : SameCommand(d)
    BY <1>1, <1>2, WorksOwns DEF Owns
  <1>4. LinkedAt(b) /\ CleanAt(b) /\ Registered /\ LinkTidy(c)
    BY DEF Tidy, CommandTidy
  <1>5. Registered'
    BY <1>4 DEF Link, Allow, Authorize, Learn, Linked, Registered, Adding
  <1>6. CASE Allow(c) \/ Authorize(c) \/ Learn(c)
    <2>1. LinkedAt(b)'
      BY <1>1, <1>2, <1>3, <1>4, <1>6, LinkedStays DEF Allow, Authorize, Learn
    <2>2. CleanAt(b)'
      BY <1>1, <1>2, <1>4, <1>6 DEF Allow, Authorize, Learn, CleanAt, LinkTidy
    <2>3. /\ command' = command
          /\ at'[c] = IF Allow(c) THEN "allowed" ELSE IF Authorize(c) THEN "authorized" ELSE "ready"
      BY <1>6 DEF Allow, Authorize, Learn, Moves, LinkTypeInv, PlacesType
    <2>4. LinkTidy(c)'
      BY <1>1, <1>2, <1>4, <1>6, <2>3
         DEF Allow, Authorize, Learn, LinkTidy, Does, Box, HostsWithout
    <2>5. CommandTidy(c)'
      BY <1>1, <2>3, <2>4, <1>6 DEF CommandTidy, AskTidy, UnlinkTidy, Does
    <2> QED
      BY <1>3, <1>5, <2>1, <2>2, <2>5, OwnsTidy
  <1>7. CASE Linked(c)
    <2>1. /\ Ends(c) /\ UNCHANGED <<envVars, client, agent, clean>> /\ at[c] = "saved"
      BY <1>7 DEF Linked
    <2>2. Kept(b)' /\ b \in hosts /\ b \in keys /\ b \in allowed
      BY <1>1, <1>2, <1>3, <1>4, <2>1 DEF LinkTidy
    <2>3. LinkedAt(b)' /\ CleanAt(b)'
      BY <1>4, <2>1, <2>2 DEF LinkedAt, CleanAt
    <2>4. CommandTidy(c)'
      BY <2>1, EndedTidy
    <2> QED
      BY <1>3, <1>5, <2>3, <2>4, OwnsTidy
  <1> QED
    BY <1>6, <1>7 DEF Link

LEMMA TidySave ==
    ASSUME LinkTypeInv, LinkTypeInv', Tidy, ~crossed', NEW c \in Commands,
           Truncate(c) \/ Save(c)
    PROVE  Tidy'
  <1>1. /\ at[c] = (IF Truncate(c) THEN "ready" ELSE "saving")
        /\ at'[c] = (IF Truncate(c) THEN "saving" ELSE "saved")
        /\ UNCHANGED <<envVars, hosts, registered, agent, memory, command, asker, linked, clean>>
    BY DEF Truncate, Save, Moves, LinkTypeInv, PlacesType
  <1>2. PICK b \in Boxes : b = Box(c)
    BY DEF Box, LinkTypeInv, ConfigInv
  <1>3. \A d \in Commands \ {c} : SameCommand(d) /\ (at[d] # "idle" => Box(d) # b)
    <2>1. \A d \in Commands \ {c} : at[d] # "idle" => Box(d) # Box(c)
      BY <1>1 DEF Tidy, Apart
    <2> QED
      BY <1>2, <2>1, OthersSame
  <1>4. \A d \in Commands : Box(d)' = Box(d) /\ (Does(d, "link") \/ Does(d, "unlink") \/ at[d] = "idle")
    BY <1>1 DEF Box, LinkTypeInv, ConfigInv, Stages, Does
  <1>5. CASE Truncate(c)
    <2>1. config = memory[c]
      <3>1. crossed' = (crossed \/ config # memory[c])
        BY <1>5 DEF Truncate
      <3> QED
        BY <3>1, Zenon
    <2>2. \A x \in Boxes \ {b} : Kept(x) => Kept(x)'
      BY <1>1, <1>2, <1>3, <1>4, <1>5, <2>1 DEF Kept, SameCommand
    <2>3. LinkedAt(b)'
      <3>1. b \in linked => b \in hosts /\ b \in keys /\ b \in allowed
        BY DEF Tidy, LinkedAt
      <3> QED
        BY <1>1, <1>2, <1>4, <1>5, <3>1 DEF LinkedAt
    <2>4. CommandTidy(c)'
      <3>1. CommandTidy(c) /\ at[c] = "ready" /\ at'[c] = "saving"
        BY <1>1, <1>5 DEF Tidy
      <3> QED
        BY <1>1, <3>1 DEF CommandTidy, LinkTidy, AskTidy, UnlinkTidy, Does, Box
    <2>5. Elsewhere(b)
      BY <1>2, <1>5, BoxElsewhere
    <2>6. Owns(c, b)
      BY <1>2, <1>3, <1>4, <2>2, <2>5 DEF Owns
    <2>7. CleanAt(b)' /\ Registered'
      BY <1>1 DEF Tidy, CleanAt, Registered, Adding
    <2> QED
      BY <2>3, <2>4, <2>6, <2>7, OwnsTidy
  <1>6. CASE ~Truncate(c)
    <2>0. Save(c)
      BY <1>6
    <2>1. config = Empty /\ config' = Written(c)
      <3>1. crossed' = (crossed \/ config # Empty)
        BY <2>0 DEF Save
      <3>2. config = Empty
        BY <3>1, Zenon
      <3> QED
        BY <2>0, <3>2 DEF Save
    <2>2. \A x \in memory[c].agents : x # b => x \in Written(c).agents
      BY <1>2 DEF Written, Upserted, Dropped
    <2>3. Does(c, "link") => b \in config'.agents
      BY <1>2, <2>1 DEF Written, Upserted
    <2>4. \A x \in Boxes \ {b} : Kept(x) => Kept(x)'
      <3>1. config.agents = {}
        BY <2>1 DEF Empty
      <3>2. TAKE x \in Boxes \ {b}
      <3>3. HAVE Kept(x)
      <3>4. PICK d \in Commands : at[d] = "saving" /\ x \in memory[d].agents /\ Box(d) # x
        BY <3>1, <3>3 DEF Kept
      <3>5. CASE d = c
        BY <2>1, <2>2, <3>4, <3>5 DEF Kept
      <3>6. CASE d # c
        BY <1>1, <1>3, <1>4, <3>4, <3>6 DEF Kept, SameCommand
      <3> QED
        BY <3>5, <3>6
    <2>5. b \in linked => Does(c, "link")
      BY <1>1, <1>2, <1>4, <1>6 DEF Tidy, CommandTidy, UnlinkTidy
    <2>6. LinkedAt(b)'
      <3>1. b \in linked => b \in hosts /\ b \in keys /\ b \in allowed
        BY DEF Tidy, LinkedAt
      <3> QED
        BY <1>1, <2>3, <2>5, <3>1 DEF LinkedAt, Kept
    <2>7. CommandTidy(c)'
      <3>1. CommandTidy(c) /\ at[c] = "saving" /\ at'[c] = "saved"
        BY <1>1, <1>6 DEF Tidy
      <3>2. Does(c, "link") => Kept(Box(c))'
        BY <1>2, <1>4, <2>3 DEF Kept
      <3>3. LinkTidy(c)'
        BY <1>1, <3>1, <3>2 DEF CommandTidy, LinkTidy, Does, Box
      <3> QED
        BY <1>1, <3>1, <3>3 DEF CommandTidy, AskTidy, UnlinkTidy, Does, Box
    <2>8. Elsewhere(b)
      BY <1>2, <2>0, BoxElsewhere
    <2>9. Owns(c, b)
      BY <1>2, <1>3, <1>4, <2>4, <2>8 DEF Owns
    <2>10. CleanAt(b)' /\ Registered'
      BY <1>1 DEF Tidy, CleanAt, Registered, Adding
    <2> QED
      BY <2>6, <2>7, <2>9, <2>10, OwnsTidy
  <1> QED
    BY <1>5, <1>6

LEMMA NotWhole ==
    ASSUME LinkTypeInv, NEW c \in Commands, command' = [command EXCEPT ![c].whole = FALSE]
    PROVE  ~command'[c].whole /\ Box(c)' = Box(c) /\ command'[c].does = command[c].does
  <1>1. command[c] \in [does : {"nothing", "link", "unlink"}, box : Boxes, whole : BOOLEAN]
    BY DEF LinkTypeInv, ConfigInv
  <1>2. command'[c] = [command[c] EXCEPT !.whole = FALSE]
    BY DEF LinkTypeInv, ConfigInv
  <1> QED
    BY <1>1, <1>2 DEF Box

\* The Agent is asked when nothing else is at work on it, and knows what it has to remove.
LEMMA TidyAsk ==
    ASSUME LinkTypeInv, LinkTypeInv', Tidy, NEW c \in Commands, Ask(c)
    PROVE  Tidy'
  <1>1. /\ at[c] = "loaded" /\ at'[c] = "asked" /\ Does(c, "unlink") /\ Undo(c)
        /\ UNCHANGED <<client, agent, memory, command, histories>>
    BY DEF Ask, Undo, Moves, LinkTypeInv, PlacesType
  <1>2. PICK b \in Boxes : b = Box(c)
    BY DEF Box, LinkTypeInv, ConfigInv
  <1>3. /\ Owns(c, b) /\ \A x \in Boxes : Kept(x) => Kept(x)'
        /\ \A d \in Commands \ {c} : SameCommand(d)
    BY <1>1, <1>2, WorksOwns DEF Owns
  <1>4. LinkedAt(b) /\ CleanAt(b) /\ Registered /\ CommandTidy(c)
    BY DEF Tidy
  <1>5. LinkedAt(b)'
    BY <1>1, <1>3, <1>4, LinkedStays
  <1>6. CleanAt(b)'
    <2>1. b \notin clean
      BY <1>2, <1>4 DEF Ask, CleanAt
    <2> QED
      BY <1>1, <2>1 DEF CleanAt
  <1>7. \/ UNCHANGED envVars /\ (b = EnvBox => request = None)
        \/ StartUnlink
    BY <1>2 DEF Ask
  <1>8. ASSUME StartUnlink
        PROVE  /\ names' = names /\ request' # None /\ request'.does = "unlink"
               /\ names' \subseteq left' \cup {request'.target}
    <2>1. request' \in Requests
      BY <1>8 DEF StartUnlink, LinkTypeInv, EnvInv, EnvTypeOK, Requests
    <2>2. PICK t \in names :
              /\ request' = [does |-> "unlink", target |-> t, linked |-> FALSE, step |-> "first"]
              /\ left' = names \ {t} /\ names' = names
      BY <1>8 DEF StartUnlink
    <2>3. request'.does = "unlink" /\ request'.target = t
      BY <2>2
    <2> QED
      BY <2>1, <2>2, <2>3, EnvAssumption
  <1>9. Registered'
    BY <1>1, <1>4, <1>7, <1>8 DEF Registered, Adding
  <1>10. AskTidy(c)'
    <2>1. CASE StartUnlink
      BY <1>8, <2>1 DEF AskTidy, Unlinking
    <2>2. CASE b = EnvBox /\ ~StartUnlink
      <3>1. request = None /\ names = {} /\ UNCHANGED envVars
        BY <1>2, <1>4, <2>2 DEF Ask, Registered
      <3> QED
        BY <3>1 DEF AskTidy
    <2>3. CASE b # EnvBox
      BY <1>1, <1>2, <2>3 DEF AskTidy, Box
    <2> QED
      BY <2>1, <2>2, <2>3
  <1>11. CommandTidy(c)'
    BY <1>1, <1>4, <1>10 DEF CommandTidy, LinkTidy, UnlinkTidy, Does, Box
  <1> QED
    BY <1>3, <1>5, <1>6, <1>9, <1>11, OwnsTidy

\* What an unlink does to the Client and the Agent, after the Agent was asked.
LEMMA TidyUndo ==
    ASSUME LinkTypeInv, LinkTypeInv', Tidy, NEW c \in Commands,
           Unanswered(c) \/ RemoveKey(c) \/ KeyStays(c) \/ ForgetHost(c)
    PROVE  Tidy'
  <1>1. /\ at[c] \in {"loaded", "asked", "cleaned", "unkeyed"} /\ Does(c, "unlink")
        /\ Undo(c)
        /\ UNCHANGED <<envVars, config, registered, allowed, memory, asker, histories>>
    BY DEF Unanswered, RemoveKey, KeyStays, ForgetHost, Undo, LinkTypeInv, Stages
  <1>2. PICK b \in Boxes : b = Box(c)
    BY DEF Box, LinkTypeInv, ConfigInv
  <1>3. Owns(c, b)
    BY <1>1, <1>2, WorksOwns
  <1>4. CleanAt(b) /\ Registered /\ UnlinkTidy(c) /\ b \notin linked
    BY <1>1, <1>2 DEF Tidy, CommandTidy, UnlinkTidy
  <1>5. LinkedAt(b)' /\ Registered'
    BY <1>1, <1>4 DEF LinkedAt, Registered, Adding
  <1>6. CleanAt(b)'
    BY <1>1, <1>4 DEF CleanAt, RemoveKey, Unanswered, KeyStays, ForgetHost
  <1>7. CASE Unanswered(c) \/ KeyStays(c)
    <2>1. /\ ~command'[c].whole /\ Box(c)' = b /\ Does(c, "unlink")'
          /\ at'[c] \in {"cleaned", "unkeyed"}
      BY <1>1, <1>2, <1>7, NotWhole
         DEF Unanswered, KeyStays, Does, Moves, LinkTypeInv, PlacesType
    <2> QED
      BY <1>1, <1>3, <1>4, <1>5, <1>6, <2>1, OwnsTidy
         DEF CommandTidy, LinkTidy, AskTidy, UnlinkTidy, Does
  <1>8. CASE RemoveKey(c) \/ ForgetHost(c)
    <2>1. /\ command' = command /\ Box(c)' = b /\ Does(c, "unlink")'
          /\ b \notin keys' \/ (at[c] # "cleaned" /\ keys' = keys)
          /\ at[c] \in {"cleaned", "unkeyed"} /\ at'[c] \in {"unkeyed", "ready"}
      BY <1>1, <1>2, <1>8 DEF RemoveKey, ForgetHost, Does, Box, Moves, LinkTypeInv, PlacesType
    <2>2. UnlinkTidy(c)'
      BY <1>1, <1>2, <1>4, <2>1 DEF UnlinkTidy
    <2>3. CommandTidy(c)'
      BY <1>1, <2>1, <2>2 DEF CommandTidy, LinkTidy, AskTidy, Does
    <2> QED
      BY <1>3, <1>5, <1>6, <2>3, OwnsTidy
  <1> QED
    BY <1>7, <1>8

LEMMA TidyUnlinked ==
    ASSUME LinkTypeInv, LinkTypeInv', Tidy, NEW c \in Commands, Unlinked(c)
    PROVE  Tidy'
  <1>1. /\ at[c] = "saved" /\ Does(c, "unlink") /\ Undo(c) /\ Ends(c)
        /\ UNCHANGED <<envVars, config, hosts, agent, asker>>
        /\ linked' = linked \ {Box(c)}
    BY DEF Unlinked, Undo
  <1>2. PICK b \in Boxes : b = Box(c)
    BY DEF Box, LinkTypeInv, ConfigInv
  <1>3. Owns(c, b)
    BY <1>1, <1>2, WorksOwns
  <1>4. CleanAt(b) /\ Registered /\ UnlinkTidy(c)
    BY DEF Tidy, CommandTidy
  <1>5. LinkedAt(b)' /\ CommandTidy(c)'
    BY <1>1, <1>2, EndedTidy DEF LinkedAt
  <1>6. CleanAt(b)'
    BY <1>1, <1>2, <1>4 DEF Unlinked, CleanAt, UnlinkTidy
  <1>7. Registered'
    <2>1. CASE registered' = registered
      BY <1>1, <1>4, <2>1 DEF Registered, Adding
    <2>2. CASE command[c].whole /\ registered' = registered \ {b}
      <3>1. b = EnvBox => request = None /\ names = {}
        BY <1>1, <1>2, <1>4, <2>2 DEF UnlinkTidy
      <3> QED
        BY <1>1, <1>4, <2>2, <3>1 DEF Registered, Adding
    <2> QED
      BY <1>2, <2>1, <2>2 DEF Unlinked, ProjectsWithout
  <1> QED
    BY <1>3, <1>5, <1>6, <1>7, OwnsTidy

\* The answer comes when the list is empty, and then no contents are left to be found.
LEMMA TidyAnswer ==
    ASSUME LinkTypeInv, LinkTypeInv', Tidy, ~crossed', NEW b \in Boxes, Answer(b)
    PROVE  Tidy'
  <1>1. PICK c \in Commands : c = asker[b]
    BY DEF Answer, LinkTypeInv, PlacesType
  <1>2. /\ UNCHANGED <<envVars, client, keys, memory, command, linked, clean>>
        /\ allowed' = allowed \ {b} /\ asker' = [asker EXCEPT ![b] = None]
        /\ ~(b = EnvBox /\ Unlinking)
    BY DEF Answer, AllowedWithout
  <1>3. at[c] = "asked" /\ Box(c) = b /\ Moves(c, "cleaned")
    <2>1. \/ at[c] = "asked" /\ Box(c) = b /\ Moves(c, "cleaned")
          \/ crossed' = TRUE
      BY <1>1 DEF Answer
    <2> QED
      BY <2>1, Zenon
  <1>4. /\ Does(c, "unlink") /\ at'[c] = "cleaned" /\ Box(c)' = b
        /\ b \notin linked
    BY <1>2, <1>3 DEF Moves, Box, LinkTypeInv, PlacesType, Stages, Tidy, CommandTidy, UnlinkTidy
  <1>5. \A d \in Commands \ {c} : SameCommand(d) /\ (at[d] # "idle" => Box(d) # b)
    BY <1>2, <1>3 DEF SameCommand, Moves, LinkTypeInv, PlacesType, Tidy, Apart
  <1>6. Owns(c, b)
    <2>1. \A x \in Boxes : Kept(x) => Kept(x)'
      BY <1>2, <1>3, <1>5, KeptCalm
    <2>2. Elsewhere(b)
      BY <1>2 DEF Elsewhere, LinkTypeInv, PlacesType
    <2> QED
      BY <1>3, <1>4, <1>5, <2>1, <2>2 DEF Owns
  <1>7. LinkedAt(b)' /\ CleanAt(b)' /\ Registered'
    BY <1>2, <1>4 DEF LinkedAt, CleanAt, Registered, Adding, Tidy
  <1>8. b = EnvBox => request = None /\ names = {} /\ stored \subseteq torn
    <2>1. b = EnvBox => request = None /\ names = {}
      BY <1>1, <1>2, <1>3 DEF Tidy, CommandTidy, AskTidy
    <2>2. request = None /\ names = {} => stored \subseteq torn
      BY DEF LinkTypeInv, EnvInv, Listed, Adding
    <2> QED
      BY <2>1, <2>2
  <1>9. CommandTidy(c)'
    BY <1>2, <1>4, <1>8 DEF CommandTidy, LinkTidy, AskTidy, UnlinkTidy, Does
  <1> QED
    BY <1>6, <1>7, <1>9, OwnsTidy

\* What steps of the Agent and of sessions leave as it is.
LEMMA OutsideTidy ==
    ASSUME LinkTypeInv, Tidy, UNCHANGED <<config, hosts, agent, progress, linked, clean>>,
           EnvBox \in clean => CleanAt(EnvBox)', Registered',
           \A c \in Commands : Box(c) = EnvBox => AskTidy(c)' /\ UnlinkTidy(c)'
    PROVE  Tidy'
  <1>1. Apart' /\ \A b \in Boxes : LinkedAt(b)' /\ CleanAt(b)'
    BY DEF Tidy, Apart, LinkedAt, CleanAt, Kept, Box
  <1>2. ASSUME NEW c \in Commands
        PROVE  CommandTidy(c)'
    <2>1. CommandTidy(c) /\ Box(c)' = Box(c)
      BY DEF Tidy, Box
    <2>2. LinkTidy(c)'
      BY <2>1 DEF CommandTidy, LinkTidy, Does, Kept, Box
    <2>3. CASE Box(c) # EnvBox
      BY <2>1, <2>2, <2>3 DEF CommandTidy, AskTidy, UnlinkTidy, Does
    <2> QED
      BY <2>2, <2>3 DEF CommandTidy
  <1> QED
    BY <1>1, <1>2 DEF Tidy

\* The Agent works on environment files, and sessions in the copy.
LEMMA TidyEnvironment ==
    ASSUME LinkTypeInv, LinkTypeInv', Tidy, Environment
    PROVE  Tidy'
  <1>1. UNCHANGED <<config, registered, hosts, agent, progress, asker, linked, clean>>
    BY DEF Environment
  <1>2. request = None => UNCHANGED <<request, names, stored, torn>>
    BY DEF Environment, Serve, Session, Store, MakeLink, LinkRefused, Name, Unlink, Discard,
       Forget, Adding, Removing, Writes, Deletes
  <1>3. ASSUME Unlinking
        PROVE  /\ names' \subseteq names
               /\ \/ request' = None /\ (names \subseteq left \cup {request.target} => names' = {})
                  \/ /\ Unlinking'
                     /\ names \subseteq left \cup {request.target} =>
                            names' \subseteq left' \cup {request'.target}
    <2>1. request \in Requests /\ request.does = "unlink" /\ ~Adding /\ Removing
      BY <1>3 DEF Unlinking, Adding, Removing, LinkTypeInv, EnvInv, EnvTypeOK
    <2>2. ASSUME NEW step \in {"first", "second", "third"}, Goes(step)
          PROVE  /\ request' \in Requests /\ request'.target = request.target
                 /\ request'.does = "unlink"
      BY <2>1, <2>2 DEF Goes, Requests
    <2>3. CASE Unlink \/ Discard
      <3>1. /\ request' \in Requests /\ request'.target = request.target
            /\ request'.does = "unlink" /\ UNCHANGED <<names, left>>
        BY <2>2, <2>3 DEF Unlink, Discard
      <3> QED
        BY <3>1, EnvAssumption DEF Unlinking
    <2>4. CASE Forget
      <3>1. names' = names \ {request.target}
        BY <2>4 DEF Forget
      <3>2. CASE left = {}
        BY <2>4, <3>1, <3>2 DEF Forget, NextTarget
      <3>3. CASE left # {}
        <4>1. PICK t \in left : /\ request' = [request EXCEPT !.target = t, !.step = "first"]
                                /\ left' = left \ {t}
          BY <2>4, <3>3 DEF Forget, NextTarget
        <4>2. request' \in Requests /\ request'.target = t /\ request'.does = "unlink"
          BY <2>1, <4>1 DEF Requests, LinkTypeInv, EnvInv, EnvTypeOK
        <4> QED
          BY <3>1, <4>1, <4>2, EnvAssumption DEF Unlinking
      <3> QED
        BY <3>2, <3>3
    <2>5. CASE Session
      BY <1>3, <2>5 DEF Session, Writes, Deletes, Unlinking
    <2> QED
      BY <2>1, <2>3, <2>4, <2>5 DEF Environment, Serve, Store, MakeLink, LinkRefused, Name
  <1>4. Registered'
    <2>1. names' # {} \/ Adding' => names # {} \/ Adding
      <3>1. CASE Session
        BY <3>1 DEF Session, Writes, Deletes, Adding
      <3>2. CASE Store \/ MakeLink \/ LinkRefused \/ Name
        BY <3>2 DEF Store, MakeLink, LinkRefused, Name
      <3>3. CASE Unlink \/ Discard \/ Forget
        <4>1. request \in Requests /\ request.does # "add" /\ names' \subseteq names
          BY <3>3 DEF Unlink, Discard, Forget, Removing, LinkTypeInv, EnvInv, EnvTypeOK
        <4>2. request' = None \/ request'.does # "add"
          <5>1. CASE Unlink \/ Discard
            BY <4>1, <5>1 DEF Unlink, Discard, Goes, Requests
          <5>2. CASE Forget
            BY <4>1, <5>2 DEF Forget, NextTarget, Requests
          <5> QED
            BY <3>3, <5>1, <5>2
        <4> QED
          BY <4>1, <4>2 DEF Adding
      <3> QED
        BY <3>1, <3>2, <3>3 DEF Environment, Serve
    <2> QED
      BY <1>1, <2>1 DEF Tidy, Registered
  <1>5. EnvBox \in clean => CleanAt(EnvBox)'
    BY <1>1, <1>2, LinkingAssumption DEF Tidy, CleanAt
  <1>6. ASSUME NEW c \in Commands, Box(c) = EnvBox
        PROVE  AskTidy(c)' /\ UnlinkTidy(c)'
    <2>1. AskTidy(c) /\ UnlinkTidy(c) /\ Box(c)' = Box(c)
      BY <1>1 DEF Tidy, CommandTidy, Box
    <2>2. AskTidy(c)'
      BY <1>1, <1>2, <1>3, <2>1 DEF AskTidy
    <2>3. UnlinkTidy(c)'
      BY <1>1, <1>2, <2>1 DEF UnlinkTidy, Does
    <2> QED
      BY <2>2, <2>3
  <1> QED
    BY <1>1, <1>4, <1>5, <1>6, OutsideTidy

\* An environment file is added or removed only where the Client can be used.
LEMMA TidySecret ==
    ASSUME LinkTypeInv, LinkTypeInv', Tidy, ~crossed', Secret
    PROVE  Tidy'
  <1>1. /\ UNCHANGED <<config, hosts, agent, progress, asker, linked, clean, names>>
        /\ EnvBox \in keys /\ EnvBox \in registered'
    BY DEF Secret, Reaches, Identified, Add, Remove
  <1>2. \A c \in Commands : at[c] = "idle" \/ Box(c) # EnvBox
    <2>1. crossed' = (crossed \/ \E c \in Commands : at[c] # "idle" /\ Box(c) = EnvBox)
      BY DEF Secret
    <2> QED
      BY <2>1, Zenon
  <1>3. EnvBox \notin clean
    BY <1>1, LinkingAssumption DEF Tidy, CleanAt
  <1>4. Registered'
    BY <1>1 DEF Registered
  <1>5. ASSUME NEW c \in Commands, Box(c) = EnvBox
        PROVE  AskTidy(c)' /\ UnlinkTidy(c)'
    <2>1. at'[c] = "idle" /\ ~Does(c, "unlink")'
      BY <1>1, <1>2, <1>5 DEF LinkTypeInv, Stages, Does
    <2> QED
      BY <2>1 DEF AskTidy, UnlinkTidy
  <1> QED
    BY <1>1, <1>3, <1>4, <1>5, OutsideTidy

LEMMA TidyFail ==
    ASSUME LinkTypeInv, LinkTypeInv', Tidy, Fail
    PROVE  Tidy'
  <1>1. /\ UNCHANGED <<client, agent, linked, clean, stored, names>>
        /\ request # None /\ request' = None
    BY DEF Fail, Cut
  <1>2. Registered' /\ EnvBox \notin clean
    BY <1>1, LinkingAssumption DEF Tidy, Registered, Adding, CleanAt
  <1>3. CASE UNCHANGED progress
    <2>1. ASSUME NEW c \in Commands, Box(c) = EnvBox
          PROVE  AskTidy(c)' /\ UnlinkTidy(c)'
      <3>1. /\ AskTidy(c) /\ UnlinkTidy(c) /\ Box(c)' = Box(c) /\ c # None
        BY <1>3, LinkingAssumption DEF Tidy, CommandTidy, Box
      <3>2. \/ asker' = asker /\ (asker[EnvBox] = None \/ ~Unlinking)
            \/ asker'[EnvBox] = None
        BY LinkingAssumption DEF Fail, LinkTypeInv, PlacesType
      <3>3. AskTidy(c)'
        BY <1>1, <1>3, <3>1, <3>2 DEF AskTidy
      <3>4. UnlinkTidy(c)'
        BY <1>1, <1>3, <2>1, <3>1 DEF UnlinkTidy, Does
      <3> QED
        BY <3>3, <3>4
    <2> QED
      BY <1>1, <1>2, <1>3, <2>1, OutsideTidy
  <1>4. CASE ~UNCHANGED progress
    <2>1. PICK c \in Commands : c = asker[EnvBox]
      BY <1>4, LinkingAssumption DEF Fail, LinkTypeInv, PlacesType
    <2>2. at[c] = "asked" /\ Box(c) = EnvBox /\ Ends(c) /\ asker' = [asker EXCEPT ![EnvBox] = None]
      BY <1>4, <2>1 DEF Fail
    <2>3. \A d \in Commands \ {c} : SameCommand(d) /\ (at[d] # "idle" => Box(d) # EnvBox)
      BY <2>2 DEF SameCommand, Ends, Moves, LinkTypeInv, PlacesType, ConfigInv, Tidy, Apart
    <2>4. \A x \in Boxes : Kept(x) => Kept(x)'
      BY <1>1, <2>2, <2>3, KeptCalm
    <2>5. Elsewhere(EnvBox)
      BY <1>1, <2>2 DEF Elsewhere, LinkTypeInv, PlacesType
    <2>6. CommandTidy(c)' /\ at'[c] = "idle"
      BY <2>2, EndedTidy
    <2>7. Owns(c, EnvBox)
      BY <2>2, <2>3, <2>4, <2>5, <2>6 DEF Owns
    <2>8. LinkedAt(EnvBox)'
      BY <1>1, <2>2, <2>3, <2>4, LinkingAssumption, LinkedStays DEF Tidy
    <2>9. CleanAt(EnvBox)'
      BY <1>1, <1>2 DEF CleanAt
    <2> QED
      BY <1>2, <2>6, <2>7, <2>8, <2>9, LinkingAssumption, OwnsTidy
  <1> QED
    BY <1>3, <1>4

LEMMA TidyInit == Init => Tidy
  <1> SUFFICES ASSUME Init PROVE Tidy
    OBVIOUS
  <1>1. /\ request = None /\ names = {} /\ linked = {} /\ clean = {}
        /\ \A c \in Commands : at[c] = "idle" /\ ~Does(c, "link") /\ ~Does(c, "unlink")
    BY DEF Init, InitEnv, Does, Idle
  <1> QED
    BY <1>1 DEF Tidy, Apart, Registered, Adding, LinkedAt, CleanAt, CommandTidy, LinkTidy,
       AskTidy, UnlinkTidy

\* Commands that got in each other's way have.
LEMMA CrossedStays ==
    ASSUME [Next]_vars, crossed
    PROVE  crossed'
  <1>1. ASSUME NEW c \in Commands, NEW what, NEW b, Start(c, what, b)
        PROVE  crossed'
    BY <1>1, Zenon DEF Start
  <1>2. ASSUME NEW c \in Commands, Quit(c) \/ Truncate(c) \/ Save(c)
        PROVE  crossed'
    BY <1>2, Zenon DEF Quit, Truncate, Save
  <1>3. ASSUME NEW c \in Commands, Link(c) \/ Undo(c)
        PROVE  crossed' = crossed
    BY <1>3 DEF Link, Undo, Allow, Authorize, Learn, Linked, Ask, Unanswered, RemoveKey,
       KeyStays, ForgetHost, Unlinked
  <1>4. ASSUME NEW b \in Boxes, Answer(b)
        PROVE  crossed'
    <2>1. crossed' = crossed \/ crossed' = TRUE
      BY <1>4 DEF Answer
    <2> QED
      BY <2>1, Zenon
  <1>5. CASE Secret
    BY <1>5, Zenon DEF Secret
  <1>6. CASE Fail \/ Environment
    <2>1. crossed' = crossed
      BY <1>6 DEF Fail, Environment
    <2> QED
      BY <2>1, Zenon
  <1>7. CASE UNCHANGED vars
    BY <1>7 DEF vars
  <1> QED
    BY <1>1, <1>2, <1>3, <1>4, <1>5, <1>6, <1>7 DEF Next

LEMMA LinkNext ==
    ASSUME LinkInv, [Next]_vars
    PROVE  LinkInv'
  <1>1. LinkTypeInv /\ LinkTypeInv'
    BY LinkTypeNext DEF LinkInv
  <1>2. CASE crossed'
    BY <1>1, <1>2 DEF LinkInv
  <1>3. CASE ~crossed'
    <2>1. Tidy
      <3>1. ~crossed
        BY <1>3, CrossedStays, Zenon
      <3> QED
        BY <3>1, Zenon DEF LinkInv
    <2>2. ASSUME UNCHANGED vars
          PROVE  Tidy'
      BY <2>1, <2>2 DEF vars, Tidy, Apart, Registered, Adding, LinkedAt, CleanAt, Kept,
         CommandTidy, LinkTidy, AskTidy, UnlinkTidy, Unlinking, Does, Box
    <2>3. ASSUME NEW c \in Commands, Undo(c)
          PROVE  Tidy'
      BY <1>1, <2>1, <2>3, TidyAsk, TidyUndo, TidyUnlinked DEF Undo
    <2>4. Tidy'
      BY <1>1, <1>3, <2>1, <2>2, <2>3, TidyStart, TidyQuit, TidyLink, TidySave, TidyAnswer,
         TidyFail, TidySecret, TidyEnvironment DEF Next
    <2> QED
      BY <1>1, <2>4 DEF LinkInv
  <1> QED
    BY <1>2, <1>3

LEMMA LinkAlways == Spec => []LinkInv
  <1>1. Init => LinkInv
    BY LinkTypeInit, TidyInit DEF LinkInv
  <1> QED
    BY <1>1, LinkNext, PTL DEF Spec

\* An Agent whose last command was a successful link can be used, whichever links and unlinks
\* failed halfway, unless commands overlapped (link.rs run, unlink.rs run).
THEOREM LinkedAlwaysWorks == Spec => []LinkedWorks
  <1>1. LinkInv => LinkedWorks
    <2> SUFFICES ASSUME LinkInv, ~crossed, NEW b \in linked
                 PROVE  \/ Busy(b)
                        \/ /\ b \in config.agents \/ \E c \in Commands : at[c] = "saving"
                           /\ b \in hosts /\ b \in keys /\ b \in allowed
      BY DEF LinkedWorks
    <2>1. b \in Boxes /\ Tidy
      BY Zenon DEF LinkInv, LinkTypeInv, BoxesType
    <2> QED
      BY <2>1 DEF Tidy, LinkedAt, Kept
  <1> QED
    BY <1>1, LinkAlways, PTL

\* After an unlink that finished, the Agent has no key of this Client and none of its
\* secrets, except where an env add stopped halfway (unlink.rs run, projects.rs unlink).
THEOREM UnlinkedAlwaysClean == Spec => []UnlinkedIsClean
  <1>1. LinkInv => UnlinkedIsClean
    <2> SUFFICES ASSUME LinkInv, ~crossed, NEW b \in clean
                 PROVE  b \notin keys /\ b \notin allowed /\ (b = EnvBox => stored \subseteq torn)
      BY DEF UnlinkedIsClean
    <2>1. b \in Boxes /\ Tidy
      BY Zenon DEF LinkInv, LinkTypeInv, BoxesType
    <2> QED
      BY <2>1 DEF Tidy, CleanAt
  <1> QED
    BY <1>1, LinkAlways, PTL

\* While the Agent lists secrets, the Client knows the project by which a later unlink
\* removes them (unlink.rs run, project.rs identify and forget_agent).
THEOREM SecretsAlwaysReachable == Spec => []SecretsReachable
  <1>1. LinkInv => SecretsReachable
    <2> SUFFICES ASSUME LinkInv, ~crossed, names # {} PROVE EnvBox \in registered
      BY DEF SecretsReachable
    <2>1. Tidy
      BY Zenon DEF LinkInv
    <2> QED
      BY <2>1 DEF Tidy, Registered
  <1> QED
    BY <1>1, LinkAlways, PTL

(***************************************************************************)
(* Type correctness, with the counter and the history that LinkInv leaves  *)
(* out.                                                                    *)
(***************************************************************************)
CountsType == crossed \in BOOLEAN /\ started \in 0 .. MaxCommands

LEMMA CountsNext ==
    ASSUME CountsType, [Next]_vars
    PROVE  CountsType'
  <1>1. CASE UNCHANGED <<crossed, started>>
    BY <1>1 DEF CountsType
  <1>2. ASSUME NEW c \in Commands, NEW what \in {"link", "unlink"}, NEW b \in Boxes,
               Start(c, what, b)
        PROVE  CountsType'
    <2>1. MaxCommands \in Nat
      BY LinkingAssumption
    <2>2. started' \in 0 .. MaxCommands
      BY <1>2, <2>1 DEF Start, CountsType
    <2>3. crossed' \in BOOLEAN
      BY <1>2 DEF Start, CountsType
    <2> QED
      BY <2>2, <2>3 DEF CountsType
  <1>3. ASSUME NEW c \in Commands, Truncate(c) \/ Save(c) \/ Quit(c)
        PROVE  CountsType'
    <2>1. started' = started
      BY <1>3 DEF Truncate, Save, Quit
    <2>2. crossed' \in BOOLEAN
      BY <1>3 DEF Truncate, Save, Quit, CountsType
    <2> QED
      BY <2>1, <2>2 DEF CountsType
  <1>4. ASSUME NEW c \in Commands,
               \/ Allow(c) \/ Authorize(c) \/ Learn(c) \/ Linked(c) \/ Ask(c)
               \/ Unanswered(c) \/ RemoveKey(c) \/ KeyStays(c) \/ ForgetHost(c) \/ Unlinked(c)
        PROVE  UNCHANGED <<crossed, started>>
    BY <1>4
       DEF Allow, Authorize, Learn, Linked, Ask, Unanswered, RemoveKey, KeyStays, ForgetHost,
           Unlinked
  <1>5. ASSUME NEW b \in Boxes, Answer(b)
        PROVE  CountsType'
    <2>1. started' = started /\ crossed' \in BOOLEAN
      BY <1>5 DEF Answer, CountsType
    <2> QED
      BY <2>1 DEF CountsType
  <1>6. CASE Fail \/ Secret \/ Environment
    <2>1. started' = started /\ crossed' \in BOOLEAN
      BY <1>6 DEF Fail, Secret, Environment, CountsType
    <2> QED
      BY <2>1 DEF CountsType
  <1> QED
    BY <1>1, <1>2, <1>3, <1>4, <1>5, <1>6 DEF Next, Link, Undo, vars, histories

\* Every variable keeps its type, and no command is anywhere but in a step of its own kind,
\* whatever overlaps, fails or is killed (link.rs run, unlink.rs run).
THEOREM TypeCorrect == Spec => []TypeOK
  <1>1. LinkInv /\ CountsType => TypeOK
    BY DEF LinkInv, LinkTypeInv, EnvInv, ConfigInv, PlacesType, Places, BoxesType, CountsType,
           TypeOK
  <1>2. Init => CountsType
    <2>1. MaxCommands \in Nat
      BY LinkingAssumption
    <2>2. Init => crossed \in BOOLEAN
      BY Zenon DEF Init
    <2>3. Init => started \in 0 .. MaxCommands
      BY <2>1 DEF Init
    <2> QED
      BY <2>2, <2>3 DEF CountsType
  <1> QED
    BY <1>1, <1>2, CountsNext, LinkAlways, PTL DEF Spec
=============================================================================
