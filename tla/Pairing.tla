------------------------------- MODULE Pairing --------------------------------
(***************************************************************************)
(* Pairing on the Agent: the code on its screen, the exchange by which a   *)
(* Client proves that it knows the code, the few wrong proofs a code       *)
(* survives, and the keys that are installed; next to unlinks, which take  *)
(* a key out again (crates/slingshot-agent/src/lib.rs and clients.rs,      *)
(* crates/slingshot-core/src/keys.rs, crates/slingshot-cli/src/client.rs   *)
(* and commands/unlink.rs).                                                *)
(*                                                                         *)
(* Connections are handled at the same time and may stop at any point. The *)
(* handshake is SPAKE2, from a library: a proof is right just when both    *)
(* sides used the same code.                                               *)
(***************************************************************************)
EXTENDS Naturals, FiniteSets

CONSTANTS
    Clients,
    None,
    WrongCodeLimit,        \* wrong codes a pairing code survives, and one
    MaxCodes, MaxTries,    \* bounds on codes made, and on connections of each Client
    MaxUnlinks             \* bound on unlinks

ASSUME PairingAssumption ==
    /\ None \notin Clients
    /\ WrongCodeLimit \in Nat \ {0} /\ MaxCodes \in Nat \ {0}
    /\ MaxTries \in Nat /\ MaxUnlinks \in Nat

VARIABLES
    slot,        \* the code in force, with its wrong proofs and whether its time is over
    made,        \* how many codes there have been; a code is its number
    exchanging,  \* the connection whose handshake is under way
    at,          \* where each Client's connection, or its unlink, stands
    typed,       \* typed[c]: the code the Client has, 0 a wrong one
    token,       \* token[c]: the code the Agent used for c's handshake
    allowed,     \* clients.json
    file,        \* authorized_keys: the Clients with a line
    copy,        \* copy[c]: authorized_keys as c's connection or removal script read it
    told,        \* Clients that know they are paired
    tries,       \* history: wrong proofs for each code
    proven,      \* history: for each code, the Clients it let in
    scripted,    \* history: a removal script ran beside another change of authorized_keys
    tried, unlinks

codes     == <<slot, made>>
exchange  == <<exchanging, at, typed, token>>
keys      == <<allowed, file, copy, told>>
histories == <<tries, proven, scripted>>
bounds    == <<tried, unlinks>>
vars      == <<codes, exchange, keys, histories, bounds>>

Codes    == 1 .. MaxCodes
NewCode(n) == [code |-> n, wrong |-> 0, over |-> FALSE]

Goes(c, place) == at' = [at EXCEPT ![c] = place]

Init ==
    /\ slot = NewCode(1) /\ made = 1
    /\ exchanging = None
    /\ at = [c \in Clients |-> "idle"]
    /\ typed = [c \in Clients |-> 0] /\ token = [c \in Clients |-> 0]
    /\ allowed = {} /\ file = {} /\ copy = [c \in Clients |-> {}] /\ told = {}
    /\ tries = [n \in Codes |-> 0] /\ proven = [n \in Codes |-> {}] /\ scripted = FALSE
    /\ tried = [c \in Clients |-> 0] /\ unlinks = 0

-----------------------------------------------------------------------------
(* The code *)

\* Enter is pressed where the Agent runs: the old code is replaced, whoever is using it.
Replace ==
    /\ made < MaxCodes
    /\ slot' = NewCode(made + 1) /\ made' = made + 1
    /\ UNCHANGED <<exchange, keys, histories, bounds>>

Expire ==
    /\ slot # None /\ ~slot.over
    /\ slot' = [slot EXCEPT !.over = TRUE]
    /\ UNCHANGED <<made, exchange, keys, histories, bounds>>

InForce == slot # None /\ ~slot.over

-----------------------------------------------------------------------------
(* handle, one connection of a Client *)

\* link.rs parse_code: any code there has been, or a wrong one (0).
Typable == 0 .. made

Connect(c) ==
    /\ at[c] = "idle" /\ c \notin told /\ tried[c] < MaxTries
    /\ \E n \in Typable : typed' = [typed EXCEPT ![c] = n]
    /\ tried' = [tried EXCEPT ![c] = @ + 1]
    /\ Goes(c, "connected")
    /\ UNCHANGED <<codes, exchanging, token, keys, histories, unlinks>>

\* What is left of a connection that is over.
Over(c) ==
    /\ Goes(c, "idle")
    /\ typed' = [typed EXCEPT ![c] = 0] /\ token' = [token EXCEPT ![c] = 0]

\* Exchange::drop
Drops(c) == exchanging' = IF exchanging = c THEN None ELSE exchanging

\* open takes a copy of the code, and clears one whose time is over.
Open(c) ==
    /\ at[c] = "connected"
    /\ IF InForce
       THEN /\ token' = [token EXCEPT ![c] = slot.code]
            /\ Goes(c, "opened")
            /\ UNCHANGED <<slot, typed>>
       ELSE slot' = None /\ Over(c)
    /\ UNCHANGED <<made, exchanging, keys, histories, bounds>>

\* Only then, and without the lock on the code, it asks for its turn.
Enter(c) ==
    /\ at[c] = "opened"
    /\ IF exchanging = None
       THEN exchanging' = c /\ Goes(c, "exchanging") /\ UNCHANGED <<typed, token>>
       ELSE Over(c) /\ UNCHANGED exchanging
    /\ UNCHANGED <<codes, keys, histories, bounds>>

\* Mutant of TimeOut: a Client that says nothing is waited for.
TimeOutNever(c) ==
    /\ at[c] = "exchanging" /\ exchanging # c
    /\ Drops(c) /\ Over(c)
    /\ UNCHANGED <<codes, keys, histories, bounds>>

\* The Join does not come within ten seconds, or not at all.
TimeOut(c) ==
    /\ at[c] = "exchanging"
    /\ Drops(c) /\ Over(c)
    /\ UNCHANGED <<codes, keys, histories, bounds>>

\* Mutant of Current: any code in force will do.
CurrentAny(c) == InForce

\* join: the code the handshake began with is still the one in force.
Current(c) == InForce /\ slot.code = token[c]

Outdated(c) ==
    /\ at[c] = "exchanging" /\ ~Current(c)
    /\ Drops(c) /\ Over(c)
    /\ UNCHANGED <<codes, keys, histories, bounds>>

\* protocol.rs Handshake: what the Client sends proves a code just when it has that code.
Proves(c) == typed[c] = token[c]

\* Mutant of WrongProof: the limit is one too high.
WrongProofLate(c) ==
    /\ at[c] = "exchanging" /\ Current(c) /\ ~Proves(c)
    /\ slot' = IF slot.wrong + 1 > WrongCodeLimit THEN None
               ELSE [slot EXCEPT !.wrong = @ + 1]
    /\ tries' = [tries EXCEPT ![token[c]] = @ + 1]
    /\ Drops(c) /\ Over(c)
    /\ UNCHANGED <<made, keys, proven, scripted, bounds>>

\* A wrong proof counts against the code, and the last one burns it.
WrongProof(c) ==
    /\ at[c] = "exchanging" /\ Current(c) /\ ~Proves(c)
    /\ slot' = IF slot.wrong + 1 >= WrongCodeLimit THEN None
               ELSE [slot EXCEPT !.wrong = @ + 1]
    /\ tries' = [tries EXCEPT ![token[c]] = @ + 1]
    /\ Drops(c) /\ Over(c)
    /\ UNCHANGED <<made, keys, proven, scripted, bounds>>

\* Mutant of RightProof: the turn ends with the proof.
RightProofDrops(c) ==
    /\ at[c] = "exchanging" /\ Current(c) /\ Proves(c)
    /\ slot' = None
    /\ proven' = [proven EXCEPT ![token[c]] = @ \cup {c}]
    /\ Drops(c)
    /\ Goes(c, "proved")
    /\ UNCHANGED <<made, typed, token, keys, tries, scripted, bounds>>

\* Mutant of RightProof: the code is left for others.
RightProofKeeps(c) ==
    /\ at[c] = "exchanging" /\ Current(c) /\ Proves(c)
    /\ proven' = [proven EXCEPT ![token[c]] = @ \cup {c}]
    /\ Goes(c, "proved")
    /\ UNCHANGED <<codes, exchanging, typed, token, keys, tries, scripted, bounds>>

\* A right proof uses the code up, and the Client's keys are installed.
RightProof(c) ==
    /\ at[c] = "exchanging" /\ Current(c) /\ Proves(c)
    /\ slot' = None
    /\ proven' = [proven EXCEPT ![token[c]] = @ \cup {c}]
    /\ Goes(c, "proved")
    /\ UNCHANGED <<made, exchanging, typed, token, keys, tries, scripted, bounds>>

-----------------------------------------------------------------------------
(* accept *)

\* clients::allow, which has a lock of its own.
Allow(c) ==
    /\ at[c] = "proved"
    /\ allowed' = allowed \cup {c}
    /\ Goes(c, "allowed")
    /\ UNCHANGED <<codes, exchanging, typed, token, file, copy, told, histories, bounds>>

\* The key cannot be recorded, its details make no sense, or the daemon stops here.
AcceptFails(c) ==
    /\ at[c] \in {"proved", "allowed"}
    /\ Drops(c) /\ Over(c)
    /\ UNCHANGED <<codes, keys, histories, bounds>>

\* keys::authorize reads the lines and writes them all, without a lock.
ReadLines(c) ==
    /\ at[c] = "allowed"
    /\ copy' = [copy EXCEPT ![c] = file]
    /\ Goes(c, "authorizing")
    /\ UNCHANGED <<codes, exchanging, typed, token, allowed, file, told, histories, bounds>>

Authorize(c) ==
    /\ at[c] = "authorizing"
    /\ file' = copy[c] \cup {c} /\ copy' = [copy EXCEPT ![c] = {}]
    /\ Drops(c)
    /\ Goes(c, "answering")
    /\ UNCHANGED <<codes, typed, token, allowed, told, histories, bounds>>

\* client.rs answer: the Client reads the Paired answer within its minute.
Hears(c) == told' = told \cup {c}

\* The answer arrives, or the Client has gone.
Answer(c) ==
    /\ at[c] = "answering"
    /\ \/ Hears(c)
       \/ UNCHANGED told
    /\ Over(c)
    /\ UNCHANGED <<codes, exchanging, allowed, file, copy, histories, bounds>>

-----------------------------------------------------------------------------
(* Unlinks: the Agent forgets the iroh key, a script over ssh removes the line *)

Unlink(c) ==
    /\ at[c] = "idle" /\ c \in told /\ c \in file /\ unlinks < MaxUnlinks
    /\ allowed' = allowed \ {c}
    /\ Goes(c, "unlinking")
    /\ unlinks' = unlinks + 1
    /\ UNCHANGED <<codes, exchanging, typed, token, file, copy, told, histories, tried>>

Writing(c) == \E d \in Clients \ {c} : at[d] \in {"authorizing", "removing"}

Script(c) ==
    /\ at[c] = "unlinking"
    /\ copy' = [copy EXCEPT ![c] = file]
    /\ scripted' = (scripted \/ Writing(c))
    /\ Goes(c, "removing")
    /\ UNCHANGED <<codes, exchanging, typed, token, allowed, file, told, tries, proven, bounds>>

RemoveLine(c) ==
    /\ at[c] = "removing"
    /\ file' = copy[c] \ {c} /\ copy' = [copy EXCEPT ![c] = {}]
    /\ scripted' = (scripted \/ Writing(c) \/ file # copy[c])
    /\ told' = told \ {c}
    /\ Goes(c, "idle")
    /\ UNCHANGED <<codes, exchanging, typed, token, allowed, tries, proven, bounds>>

\* The daemon starts again, with a new code; the scripts do not depend on it.
Restart ==
    /\ made < MaxCodes
    /\ slot' = NewCode(made + 1) /\ made' = made + 1
    /\ exchanging' = None
    /\ at' = [c \in Clients |-> IF at[c] \in {"unlinking", "removing"} THEN at[c] ELSE "idle"]
    /\ typed' = [c \in Clients |-> 0] /\ token' = [c \in Clients |-> 0]
    /\ copy' = [c \in Clients |-> IF at[c] = "removing" THEN copy[c] ELSE {}]
    /\ UNCHANGED <<allowed, file, told, histories, bounds>>

-----------------------------------------------------------------------------
Join(c)   == Outdated(c) \/ WrongProof(c) \/ RightProof(c)
Accept(c) == Allow(c) \/ ReadLines(c) \/ Authorize(c)

Next ==
    \/ Replace \/ Expire \/ Restart
    \/ \E c \in Clients :
           \/ Connect(c) \/ Open(c) \/ Enter(c) \/ TimeOut(c) \/ Join(c)
           \/ Accept(c) \/ AcceptFails(c) \/ Answer(c)
           \/ Unlink(c) \/ Script(c) \/ RemoveLine(c)

Spec == Init /\ [][Next]_vars

\* The wait for a Join is limited, and nothing in join and accept waits for anybody.
FairSpec == Spec /\ \A c \in Clients : WF_vars(TimeOut(c)) /\ WF_vars(Accept(c))

-----------------------------------------------------------------------------
TypeOK ==
    /\ slot = None \/ slot \in [code : Codes, wrong : 0 .. WrongCodeLimit, over : BOOLEAN]
    /\ made \in Codes /\ exchanging \in Clients \cup {None}
    /\ at \in [Clients -> {"idle", "connected", "opened", "exchanging", "proved", "allowed",
                           "authorizing", "answering", "unlinking", "removing"}]
    /\ typed \in [Clients -> 0 .. MaxCodes] /\ token \in [Clients -> 0 .. MaxCodes]
    /\ allowed \subseteq Clients /\ file \subseteq Clients /\ told \subseteq Clients
    /\ copy \in [Clients -> SUBSET Clients]
    /\ tries \in [Codes -> Nat] /\ proven \in [Codes -> SUBSET Clients]
    /\ scripted \in BOOLEAN
    /\ tried \in [Clients -> 0 .. MaxTries] /\ unlinks \in 0 .. MaxUnlinks

\* lib.rs:45, "Each one is a single online guess, so three leave a guesser almost no
\* chance": however connections overlap, no code is guessed at more often.
GuessesLimited == \A n \in Codes : tries[n] <= WrongCodeLimit

\* lib.rs:52, "Single use: pairing consumes it": a code lets in one Client.
CodesWorkOnce == \A n \in Codes : Cardinality(proven[n]) <= 1

\* A code that was replaced, or whose time is over, lets nobody in, even a Client that was
\* halfway through the exchange with it (lib.rs join).
OldCodesAreDead ==
    [][\A n \in Codes : proven'[n] # proven[n] => slot # None /\ slot.code = n /\ ~slot.over]_vars

\* A Client that was told it is paired has its line in authorized_keys, although the file is
\* rewritten without a lock: exchanges are one at a time until the keys are installed. Only
\* an unlink's script beside them can lose a line.
ToldIsAuthorized == \A c \in told : c \in file \/ scripted

\* The turn to pair comes back, also from a Client that has gone (lib.rs Exchange).
ExchangeEnds == (exchanging # None) ~> (exchanging = None)
=============================================================================
