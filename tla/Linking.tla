------------------------------- MODULE Linking --------------------------------
(***************************************************************************)
(* What one Client keeps about its Agents and what they keep about it, and *)
(* the commands slingshot link and slingshot unlink, which change both     *)
(* (crates/slingshot-cli/src/commands/link.rs and unlink.rs, project.rs,   *)
(* crates/slingshot-core/src/config.rs and keys.rs, and the Unlink request *)
(* of crates/slingshot-agent/src/service.rs).                              *)
(*                                                                         *)
(* A command reads config.toml when it starts and writes it when it ends;  *)
(* nothing locks it. In between it talks to the Agent, which may refuse,   *)
(* be out of reach, or answer too late; and the command may be killed. The *)
(* pairing itself is two steps here and has a module of its own, Pairing.  *)
(* One project, on the Agent EnvBox, has environment files.                *)
(***************************************************************************)
EXTENDS EnvFiles

CONSTANTS
    Boxes,       \* the Agents, one name for each
    EnvBox,      \* the one with the project
    Commands,    \* commands that may run at the same time
    MaxCommands  \* bound on the commands started

ASSUME LinkingAssumption ==
    EnvBox \in Boxes /\ None \notin Boxes \cup Commands /\ MaxCommands \in Nat

VARIABLES
    config,      \* config.toml
    memory,      \* memory[c]: config.toml as command c read it
    hosts,       \* Agents with a line in known_hosts
    registered,  \* Agents with a project in projects.json
    keys,        \* Agents whose authorized_keys has this Client's line
    allowed,     \* Agents whose clients.json has this Client
    command,     \* command[c]: what c does, to which Agent, and whether all of it worked
    at,          \* where each command stands
    asker,       \* asker[b]: the command whose Unlink request Agent b is handling
    linked,      \* history: Agents whose last command was a link that succeeded
    clean,       \* history: Agents whose last command was an unlink that finished
    crossed,     \* history: commands got in each other's way
    started

client    == <<config, hosts, registered>>
agent     == <<keys, allowed>>
progress  == <<memory, command, at>>
histories == <<linked, clean, crossed>>
vars == <<envVars, client, agent, progress, asker, histories, started>>

Configs == [agents : SUBSET Boxes, default : Boxes \cup {None}]
Empty   == [agents |-> {}, default |-> None]
Idle    == [does |-> "nothing", box |-> EnvBox, whole |-> TRUE]

Moves(c, place) == at' = [at EXCEPT ![c] = place]

\* What an ended command was about is forgotten with it.
Ends(c) ==
    /\ Moves(c, "idle")
    /\ command' = [command EXCEPT ![c] = Idle] /\ memory' = [memory EXCEPT ![c] = Empty]

Box(c)  == command[c].box
Does(c, what) == command[c].does = what

Init ==
    /\ InitEnv
    /\ config = Empty /\ memory = [c \in Commands |-> Empty]
    /\ hosts = {} /\ registered = {} /\ keys = {} /\ allowed = {}
    /\ command = [c \in Commands |-> Idle] /\ at = [c \in Commands |-> "idle"]
    /\ asker = [b \in Boxes |-> None]
    /\ linked = {} /\ clean = {} /\ crossed = FALSE /\ started = 0

-----------------------------------------------------------------------------
(* config.rs *)

\* upsert: the first Agent becomes the default one.
Upserted(k, b) ==
    [agents |-> k.agents \cup {b},
     default |-> IF k.default = None /\ k.agents \ {b} = {} THEN b ELSE k.default]

\* Mutant of Dropped: the default is kept.
DroppedKeepingDefault(k, b) == [k EXCEPT !.agents = @ \ {b}]

\* remove
Dropped(k, b) ==
    [agents |-> k.agents \ {b}, default |-> IF k.default = b THEN None ELSE k.default]

\* What c is going to write.
Written(c) ==
    IF Does(c, "link") THEN Upserted(memory[c], Box(c)) ELSE Dropped(memory[c], Box(c))

\* save empties the file and fills it again; a command that starts in between reads
\* nothing, and one that writes over a change it has not read undoes it.
Truncate(c) ==
    /\ at[c] = "ready"
    /\ crossed' = (crossed \/ config # memory[c])
    /\ config' = Empty
    /\ Moves(c, "saving")
    /\ UNCHANGED <<envVars, hosts, registered, agent, memory, command, asker, linked, clean,
                   started>>

Save(c) ==
    /\ at[c] = "saving"
    /\ crossed' = (crossed \/ config # Empty)
    /\ config' = Written(c)
    /\ Moves(c, "saved")
    /\ UNCHANGED <<envVars, hosts, registered, agent, memory, command, asker, linked, clean,
                   started>>

-----------------------------------------------------------------------------
\* Config::load
Loaded == config

Start(c, what, b) ==
    /\ at[c] = "idle" /\ started < MaxCommands
    /\ what = "unlink" => b \in config.agents
    /\ memory' = [memory EXCEPT ![c] = Loaded]
    /\ command' = [command EXCEPT ![c] = [does |-> what, box |-> b, whole |-> TRUE]]
    /\ linked' = IF what = "unlink" THEN linked \ {b} ELSE linked
    /\ crossed' = (crossed \/ \E d \in Commands \ {c} : at[d] # "idle" /\ Box(d) = b)
    /\ started' = started + 1
    /\ Moves(c, "loaded")
    /\ UNCHANGED <<envVars, client, agent, asker, clean>>

\* A command fails, is refused or is killed; a file it was writing stays empty.
Quit(c) ==
    /\ at[c] # "idle"
    /\ Ends(c)
    /\ crossed' = (crossed \/ at[c] = "saving")
    /\ UNCHANGED <<envVars, client, agent, asker, linked, clean, started>>

(* link *)

\* The Agent accepts the code and records the Client's iroh key, then its ssh key; the
\* answer may be lost (Quit).
Allow(c) ==
    /\ Does(c, "link") /\ at[c] = "loaded"
    /\ allowed' = allowed \cup {Box(c)}
    /\ clean' = clean \ {Box(c)}
    /\ Moves(c, "allowed")
    /\ UNCHANGED <<envVars, client, keys, memory, command, asker, linked, crossed, started>>

Authorize(c) ==
    /\ at[c] = "allowed"
    /\ keys' = keys \cup {Box(c)}
    /\ Moves(c, "authorized")
    /\ UNCHANGED <<envVars, client, allowed, memory, command, asker, histories, started>>

\* without_host and write_lines: the lines of every other host, in one step.
HostsWithout(b) == hosts \ {b}

\* Mutant of Learn: the first connection is left to find the host key.
LearnLater(c) ==
    /\ at[c] = "authorized"
    /\ Moves(c, "ready")
    /\ UNCHANGED <<envVars, client, agent, memory, command, asker, histories, started>>

\* learn_host, before the entry that needs it is saved.
Learn(c) ==
    /\ at[c] = "authorized"
    /\ hosts' = HostsWithout(Box(c)) \cup {Box(c)}
    /\ Moves(c, "ready")
    /\ UNCHANGED <<envVars, config, registered, agent, memory, command, asker, histories, started>>

Linked(c) ==
    /\ Does(c, "link") /\ at[c] = "saved"
    /\ linked' = linked \cup {Box(c)}
    /\ Ends(c)
    /\ UNCHANGED <<envVars, client, agent, asker, clean, crossed, started>>

(* unlink *)

\* ssh needs the key and the host key. The Agent refuses while its project is busy, and the
\* command ends with nothing unlinked (Quit).
Ask(c) ==
    /\ Does(c, "unlink") /\ at[c] = "loaded"
    /\ Box(c) \in keys \cap hosts /\ asker[Box(c)] = None
    /\ asker' = [asker EXCEPT ![Box(c)] = c]
    /\ IF Box(c) = EnvBox /\ EnvBox \in registered /\ names # {}
       THEN StartUnlink
       ELSE /\ (Box(c) = EnvBox => request = None)
            /\ UNCHANGED envVars
    /\ Moves(c, "asked")
    /\ UNCHANGED <<client, agent, memory, command, histories, started>>

\* The Agent cannot be asked, or the answer is not waited for any longer.
Unanswered(c) ==
    /\ Does(c, "unlink") /\ at[c] \in {"loaded", "asked"}
    /\ command' = [command EXCEPT ![c].whole = FALSE]
    /\ Moves(c, "cleaned")
    /\ UNCHANGED <<envVars, client, agent, memory, asker, histories, started>>

\* clients::forget
AllowedWithout(b) == allowed \ {b}

\* The Agent is done with the environment files: it forgets the iroh key and answers. It
\* may be late, as the request goes on without the connection it came by.
Answer(b) ==
    /\ asker[b] # None
    /\ ~(b = EnvBox /\ Unlinking)
    /\ allowed' = AllowedWithout(b)
    /\ asker' = [asker EXCEPT ![b] = None]
    /\ LET c == asker[b]
       IN IF at[c] = "asked" /\ Box(c) = b
          THEN Moves(c, "cleaned") /\ UNCHANGED crossed
          ELSE crossed' = TRUE /\ UNCHANGED at
    /\ UNCHANGED <<envVars, client, keys, memory, command, linked, clean, started>>

\* A failing removal is answered with an error: nothing is unlinked. A daemon that dies
\* answers nothing.
Fail ==
    /\ Cut
    /\ LET c == asker[EnvBox]
       IN IF c # None /\ Unlinking
          THEN /\ asker' = [asker EXCEPT ![EnvBox] = None]
               /\ \/ at[c] = "asked" /\ Box(c) = EnvBox /\ Ends(c)
                  \/ UNCHANGED progress
          ELSE UNCHANGED <<progress, asker>>
    /\ UNCHANGED <<client, agent, histories, started>>

RemoveKey(c) ==
    /\ at[c] = "cleaned" /\ Box(c) \in keys \cap hosts
    /\ keys' = keys \ {Box(c)}
    /\ Moves(c, "unkeyed")
    /\ UNCHANGED <<envVars, client, allowed, memory, command, asker, histories, started>>

\* Mutant of KeyStays: a failed removal is not remembered.
KeyStaysWhole(c) ==
    /\ at[c] = "cleaned"
    /\ Moves(c, "unkeyed")
    /\ UNCHANGED <<envVars, client, agent, memory, command, asker, histories, started>>

\* The script cannot be run or fails: a warning, and the unlink is not whole.
KeyStays(c) ==
    /\ at[c] = "cleaned"
    /\ command' = [command EXCEPT ![c].whole = FALSE]
    /\ Moves(c, "unkeyed")
    /\ UNCHANGED <<envVars, client, agent, memory, asker, histories, started>>

ForgetHost(c) ==
    /\ at[c] = "unkeyed"
    /\ hosts' = HostsWithout(Box(c))
    /\ Moves(c, "ready")
    /\ UNCHANGED <<envVars, config, registered, agent, memory, command, asker, histories, started>>

\* project::forget_agent
ProjectsWithout(b) == registered \ {b}

\* Mutant of Unlinked: the Agent's projects are forgotten whatever was cleaned up.
UnlinkedAnyway(c) ==
    /\ Does(c, "unlink") /\ at[c] = "saved"
    /\ registered' = ProjectsWithout(Box(c))
    /\ clean' = IF command[c].whole THEN clean \cup {Box(c)} ELSE clean
    /\ linked' = linked \ {Box(c)}
    /\ Ends(c)
    /\ UNCHANGED <<envVars, config, hosts, agent, asker, crossed, started>>

\* The Agent's projects are forgotten only when everything worked.
Unlinked(c) ==
    /\ Does(c, "unlink") /\ at[c] = "saved"
    /\ IF command[c].whole
       THEN registered' = ProjectsWithout(Box(c)) /\ clean' = clean \cup {Box(c)}
       ELSE UNCHANGED <<registered, clean>>
    /\ linked' = linked \ {Box(c)}
    /\ Ends(c)
    /\ UNCHANGED <<envVars, config, hosts, agent, asker, crossed, started>>

(* env add and env remove, by further commands of the Client *)

Reaches == EnvBox \in config.agents /\ EnvBox \in keys \cap hosts

\* project::identify: a project gets its ID once.
Identified(b) == registered \cup {b}

\* The project gets its ID before the Agent is asked.
Secret ==
    \E t \in Targets :
        /\ Reaches
        /\ \/ Add(t) /\ registered' = Identified(EnvBox)
           \/ EnvBox \in registered /\ Remove(t) /\ UNCHANGED registered
        /\ crossed' = (crossed \/ \E c \in Commands : at[c] # "idle" /\ Box(c) = EnvBox)
        /\ UNCHANGED <<config, hosts, agent, progress, asker, linked, clean, started>>

Environment ==
    /\ Serve \/ Session
    /\ UNCHANGED <<client, agent, progress, asker, histories, started>>

-----------------------------------------------------------------------------
Link(c)  == Allow(c) \/ Authorize(c) \/ Learn(c) \/ Linked(c)
Undo(c)  == Ask(c) \/ Unanswered(c) \/ RemoveKey(c) \/ KeyStays(c) \/ ForgetHost(c) \/ Unlinked(c)

Next ==
    \/ \E c \in Commands :
           \/ \E what \in {"link", "unlink"}, b \in Boxes : Start(c, what, b)
           \/ Quit(c) \/ Truncate(c) \/ Save(c) \/ Link(c) \/ Undo(c)
    \/ \E b \in Boxes : Answer(b)
    \/ Fail \/ Secret \/ Environment

Spec == Init /\ [][Next]_vars

-----------------------------------------------------------------------------
TypeOK ==
    /\ EnvTypeOK
    /\ config \in Configs /\ memory \in [Commands -> Configs]
    /\ hosts \subseteq Boxes /\ registered \subseteq Boxes
    /\ keys \subseteq Boxes /\ allowed \subseteq Boxes
    /\ command \in [Commands -> [does : {"nothing", "link", "unlink"}, box : Boxes,
                                 whole : BOOLEAN]]
    /\ at \in [Commands -> {"idle", "loaded", "allowed", "authorized", "ready", "saving",
                            "saved", "asked", "cleaned", "unkeyed"}]
    /\ asker \in [Boxes -> Commands \cup {None}]
    /\ linked \subseteq Boxes /\ clean \subseteq Boxes /\ crossed \in BOOLEAN
    /\ started \in 0 .. MaxCommands

\* config.rs:204, "so the config never names an agent that is not there": the default is
\* saved, whatever is lost when commands overlap.
DefaultSaved == config.default \in config.agents \cup {None}

Busy(b) == asker[b] # None \/ \E c \in Commands : at[c] # "idle" /\ Box(c) = b

\* An Agent whose last command was a successful link can be used: it is saved, its host key
\* is known, and it has both keys of this Client, whichever links and unlinks of any Agent
\* failed halfway; unless commands overlapped or one was killed while writing config.toml.
LinkedWorks ==
    ~crossed => \A b \in linked :
        \/ Busy(b)
        \/ /\ b \in config.agents \/ \E c \in Commands : at[c] = "saving"
           /\ b \in hosts /\ b \in keys /\ b \in allowed

\* docs/ARCHITECTURE.md:154: after an unlink that finished, the Agent has no key of this
\* Client and none of its secrets, except where an env add stopped halfway.
UnlinkedIsClean ==
    ~crossed => \A b \in clean : b \notin keys /\ b \notin allowed
                                 /\ (b = EnvBox => stored \subseteq torn)

\* unlink.rs:96, "Pair again and unlink once the Agent is reachable to finish it": while the
\* Agent lists secrets, the Client knows the project by which a later unlink removes them.
SecretsReachable == ~crossed /\ names # {} => EnvBox \in registered
=============================================================================
