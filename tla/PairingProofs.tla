----------------------------- MODULE PairingProofs -----------------------------
(***************************************************************************)
(* Proofs about Pairing, for any Clients, any limit of wrong codes, and    *)
(* any bounds.                                                             *)
(***************************************************************************)
EXTENDS Pairing, FiniteSetTheorems, TLAPS

USE DEF codes, exchange, keys, histories, bounds

(***************************************************************************)
(* TypeOK in parts, each about the variables that change together.         *)
(***************************************************************************)
SlotType ==
    /\ slot = None \/ slot \in [code : Codes, wrong : 0 .. WrongCodeLimit, over : BOOLEAN]
    /\ made \in Codes

ExchangeType ==
    /\ exchanging \in Clients \cup {None}
    /\ at \in [Clients -> {"idle", "connected", "opened", "exchanging", "proved", "allowed",
                           "authorizing", "answering", "unlinking", "removing"}]
    /\ typed \in [Clients -> 0 .. MaxCodes] /\ token \in [Clients -> 0 .. MaxCodes]

KeysType ==
    /\ allowed \subseteq Clients /\ file \subseteq Clients /\ told \subseteq Clients
    /\ copy \in [Clients -> SUBSET Clients]

HistoryType ==
    /\ tries \in [Codes -> Nat] /\ proven \in [Codes -> SUBSET Clients]
    /\ tried \in [Clients -> 0 .. MaxTries] /\ unlinks \in 0 .. MaxUnlinks

LEMMA TypeParts ==
    TypeOK <=> SlotType /\ ExchangeType /\ KeysType /\ HistoryType /\ scripted \in BOOLEAN
  BY DEF TypeOK, SlotType, ExchangeType, KeysType, HistoryType

LEMMA TypeInit == Init => TypeOK
  <1> SUFFICES ASSUME Init PROVE TypeOK
    OBVIOUS
  <1> USE PairingAssumption DEF Init, Codes
  <1>1. SlotType
    BY DEF SlotType, NewCode
  <1>2. ExchangeType
    BY DEF ExchangeType
  <1>3. KeysType
    BY DEF KeysType
  <1>4. HistoryType
    BY DEF HistoryType
  <1> QED
    BY <1>1, <1>2, <1>3, <1>4, TypeParts

LEMMA SlotTypeNext ==
    ASSUME SlotType, [Next]_vars
    PROVE  SlotType'
  <1> USE PairingAssumption DEF SlotType, Codes
  <1>1. CASE Replace \/ Restart
    <2>1. made + 1 \in 1 .. MaxCodes /\ 0 \in 0 .. WrongCodeLimit
      BY <1>1 DEF Replace, Restart
    <2>2. slot' = [code |-> made + 1, wrong |-> 0, over |-> FALSE] /\ made' = made + 1
      BY <1>1 DEF Replace, Restart, NewCode
    <2> QED
      BY <2>1, <2>2
  <1>2. CASE Expire
    <2>1. slot' = [code |-> slot.code, wrong |-> slot.wrong, over |-> TRUE]
      BY <1>2 DEF Expire
    <2> QED
      BY <1>2, <2>1 DEF Expire
  <1>3. ASSUME NEW c \in Clients, Open(c) \/ RightProof(c)
        PROVE  SlotType'
    BY <1>3 DEF Open, RightProof
  <1>4. ASSUME NEW c \in Clients, WrongProof(c)
        PROVE  SlotType'
    BY <1>4 DEF WrongProof, Current, InForce
  <1>5. ASSUME NEW c \in Clients,
               \/ Connect(c) \/ Enter(c) \/ TimeOut(c) \/ Outdated(c)
               \/ Accept(c) \/ AcceptFails(c) \/ Answer(c)
               \/ Unlink(c) \/ Script(c) \/ RemoveLine(c)
        PROVE  UNCHANGED codes
    BY <1>5 DEF Connect, Enter, TimeOut, Outdated, Accept, Allow, ReadLines, Authorize, AcceptFails,
           Answer, Unlink, Script, RemoveLine
  <1>6. CASE UNCHANGED vars
    BY <1>6 DEF vars
  <1> QED
    BY <1>1, <1>2, <1>3, <1>4, <1>5, <1>6 DEF Next, Join

LEMMA ExchangeTypeNext ==
    ASSUME SlotType, ExchangeType, [Next]_vars
    PROVE  ExchangeType'
  <1> USE PairingAssumption DEF SlotType, ExchangeType, Codes, Goes, Over, Drops
  <1>1. CASE Replace \/ Expire \/ UNCHANGED vars
    BY <1>1 DEF Replace, Expire, vars
  <1>2. CASE Restart
    BY <1>2 DEF Restart
  <1>3. ASSUME NEW c \in Clients, Connect(c)
        PROVE  ExchangeType'
    <2>1. PICK n \in 0 .. made : typed' = [typed EXCEPT ![c] = n]
      BY <1>3 DEF Connect, Typable
    <2>2. n \in 0 .. MaxCodes
      BY <2>1
    <2> QED
      BY <1>3, <2>1, <2>2 DEF Connect
  <1>4. ASSUME NEW c \in Clients, Open(c)
        PROVE  ExchangeType'
    BY <1>4 DEF Open, InForce
  <1>5. ASSUME NEW c \in Clients,
               Enter(c) \/ TimeOut(c) \/ AcceptFails(c) \/ Outdated(c) \/ Answer(c)
        PROVE  ExchangeType'
    BY <1>5 DEF Enter, TimeOut, AcceptFails, Outdated, Answer
  <1>6. ASSUME NEW c \in Clients, WrongProof(c) \/ RightProof(c)
        PROVE  ExchangeType'
    BY <1>6 DEF WrongProof, RightProof
  <1>7. ASSUME NEW c \in Clients, Accept(c)
        PROVE  ExchangeType'
    BY <1>7 DEF Accept, Allow, ReadLines, Authorize
  <1>8. ASSUME NEW c \in Clients, Unlink(c) \/ Script(c) \/ RemoveLine(c)
        PROVE  ExchangeType'
    BY <1>8 DEF Unlink, Script, RemoveLine
  <1> QED
    BY <1>1, <1>2, <1>3, <1>4, <1>5, <1>6, <1>7, <1>8 DEF Next, Join

LEMMA KeysTypeNext ==
    ASSUME KeysType, [Next]_vars
    PROVE  KeysType'
  <1> USE DEF KeysType
  <1>1. CASE Replace \/ Expire \/ UNCHANGED vars
    BY <1>1 DEF Replace, Expire, vars
  <1>2. CASE Restart
    BY <1>2 DEF Restart
  <1>3. ASSUME NEW c \in Clients,
               Connect(c) \/ Open(c) \/ Enter(c) \/ TimeOut(c) \/ AcceptFails(c) \/ Join(c)
        PROVE  UNCHANGED keys
    BY <1>3 DEF Connect, Open, Enter, TimeOut, AcceptFails, Join, Outdated, WrongProof, RightProof
  <1>4. ASSUME NEW c \in Clients, Accept(c)
        PROVE  KeysType'
    BY <1>4 DEF Accept, Allow, ReadLines, Authorize
  <1>5. ASSUME NEW c \in Clients, Answer(c)
        PROVE  KeysType'
    BY <1>5 DEF Answer, Hears
  <1>6. ASSUME NEW c \in Clients, Unlink(c) \/ Script(c) \/ RemoveLine(c)
        PROVE  KeysType'
    BY <1>6 DEF Unlink, Script, RemoveLine
  <1> QED
    BY <1>1, <1>2, <1>3, <1>4, <1>5, <1>6 DEF Next

LEMMA HistoryTypeNext ==
    ASSUME SlotType, HistoryType, [Next]_vars
    PROVE  HistoryType'
  <1> USE PairingAssumption DEF HistoryType
  <1>1. CASE Replace \/ Expire \/ Restart \/ UNCHANGED vars
    BY <1>1 DEF Replace, Expire, Restart, vars
  <1>2. ASSUME NEW c \in Clients,
               Open(c) \/ Enter(c) \/ TimeOut(c) \/ AcceptFails(c) \/ Outdated(c) \/ Accept(c)
               \/ Answer(c)
        PROVE  UNCHANGED <<tries, proven, bounds>>
    BY <1>2 DEF Open, Enter, TimeOut, AcceptFails, Outdated, Accept, Allow, ReadLines, Authorize,
                Answer
  <1>3. ASSUME NEW c \in Clients, Connect(c)
        PROVE  HistoryType'
    BY <1>3 DEF Connect
  <1>6. ASSUME NEW c \in Clients, Unlink(c) \/ Script(c) \/ RemoveLine(c)
        PROVE  HistoryType'
    BY <1>6 DEF Unlink, Script, RemoveLine
  <1>4. ASSUME NEW c \in Clients, WrongProof(c)
        PROVE  HistoryType'
    <2>1. \A n \in Codes : tries[n] + 1 \in Nat
      OBVIOUS
    <2> QED
      BY <1>4, <2>1 DEF WrongProof
  <1>5. ASSUME NEW c \in Clients, RightProof(c)
        PROVE  HistoryType'
    BY <1>5 DEF RightProof
  <1> QED
    BY <1>1, <1>2, <1>3, <1>4, <1>5, <1>6 DEF Next, Join

LEMMA ScriptedNext ==
    ASSUME scripted \in BOOLEAN, [Next]_vars
    PROVE  scripted' \in BOOLEAN
  BY DEF Next, vars, Replace, Expire, Restart, Connect, Open, Enter, TimeOut, Join, Outdated, WrongProof, RightProof,
     Accept, Allow, ReadLines, Authorize, AcceptFails, Answer, Unlink, Script, RemoveLine, Writing

LEMMA TypeNext ==
    ASSUME TypeOK, [Next]_vars
    PROVE  TypeOK'
  <1>1. SlotType' /\ ExchangeType' /\ KeysType' /\ HistoryType' /\ scripted' \in BOOLEAN
    BY TypeParts, SlotTypeNext, ExchangeTypeNext, KeysTypeNext, HistoryTypeNext, ScriptedNext
  <1> QED
    BY <1>1 DEF TypeOK, SlotType, ExchangeType, KeysType, HistoryType

\* Type correctness: every field and counter of the pairing stays in its range, whatever
\* order connections, codes, unlinks and restarts come in.
THEOREM TypeCorrect == Spec => []TypeOK
  BY TypeInit, TypeNext, PTL DEF Spec

-----------------------------------------------------------------------------
(***************************************************************************)
(* What the code in force has been through is what the history says of it, *)
(* and later codes have no history yet.                                    *)
(***************************************************************************)
FreshSlot ==
    slot # None => /\ slot.code = made
                   /\ slot.wrong < WrongCodeLimit /\ tries[made] = slot.wrong
                   /\ proven[made] = {}

LaterUnused == \A n \in Codes : n > made => tries[n] = 0 /\ proven[n] = {}

OneProof == \A n \in Codes : \A c, d \in proven[n] : c = d

CodeInv == TypeOK /\ FreshSlot /\ LaterUnused /\ GuessesLimited /\ OneProof

LEMMA CodeInit == Init => CodeInv
  <1> SUFFICES ASSUME Init PROVE CodeInv
    OBVIOUS
  <1>1. slot = NewCode(1) /\ made = 1
    BY DEF Init
  <1> QED
    BY <1>1, TypeInit, PairingAssumption
       DEF Init, CodeInv, FreshSlot, LaterUnused, GuessesLimited, OneProof, NewCode, Codes

\* A new code has been through nothing.
LEMMA CodeFresh ==
    ASSUME CodeInv, TypeOK', made < MaxCodes, slot' = NewCode(made + 1), made' = made + 1,
           tries' = tries, proven' = proven
    PROVE  CodeInv'
  <1>1. made + 1 \in Codes /\ made \in Nat
    BY PairingAssumption DEF CodeInv, TypeOK, Codes
  <1>2. FreshSlot'
    BY <1>1, PairingAssumption DEF CodeInv, FreshSlot, LaterUnused, NewCode
  <1>3. LaterUnused'
    BY <1>1 DEF CodeInv, LaterUnused, Codes
  <1> QED
    BY <1>2, <1>3 DEF CodeInv, GuessesLimited, OneProof

\* A step that changes no code, or only ends one.
LEMMA CodeKept ==
    ASSUME CodeInv, TypeOK', made' = made, tries' = tries, proven' = proven,
           \/ slot' = None
           \/ slot' = slot
           \/ slot # None /\ slot' = [slot EXCEPT !.over = TRUE]
    PROVE  CodeInv'
  BY DEF CodeInv, TypeOK, FreshSlot, LaterUnused, GuessesLimited, OneProof

LEMMA CodeWrongProof ==
    ASSUME CodeInv, TypeOK', NEW c \in Clients, WrongProof(c)
    PROVE  CodeInv'
  <1>1. slot # None /\ slot.code = made /\ token[c] = made /\ made \in Codes
    BY DEF WrongProof, Current, InForce, CodeInv, FreshSlot, TypeOK
  <1>2. slot \in [code : Codes, wrong : 0 .. WrongCodeLimit, over : BOOLEAN]
    BY <1>1 DEF CodeInv, TypeOK
  <1>3. tries' = [tries EXCEPT ![made] = slot.wrong + 1] /\ proven' = proven /\ made' = made
    BY <1>1 DEF WrongProof, CodeInv, FreshSlot
  <1>4. slot.wrong + 1 <= WrongCodeLimit
    BY <1>1, <1>2, PairingAssumption DEF CodeInv, FreshSlot
  <1>5. FreshSlot'
    <2>1. CASE slot.wrong + 1 >= WrongCodeLimit
      BY <2>1 DEF WrongProof, FreshSlot
    <2>2. CASE slot.wrong + 1 < WrongCodeLimit
      BY <1>1, <1>2, <1>3, <2>2, PairingAssumption DEF WrongProof, FreshSlot, CodeInv, TypeOK
    <2> QED
      BY <1>2, <2>1, <2>2, PairingAssumption
  <1>6. \A n \in Codes : tries'[n] = IF n = made THEN slot.wrong + 1 ELSE tries[n]
    BY <1>3 DEF CodeInv, TypeOK
  <1>7. LaterUnused' /\ OneProof'
    BY <1>1, <1>3, <1>6 DEF CodeInv, LaterUnused, OneProof, Codes
  <1>8. GuessesLimited'
    BY <1>4, <1>6 DEF CodeInv, GuessesLimited
  <1> QED
    BY <1>5, <1>7, <1>8 DEF CodeInv

LEMMA CodeRightProof ==
    ASSUME CodeInv, TypeOK', NEW c \in Clients, RightProof(c)
    PROVE  CodeInv'
  <1>1. slot # None /\ slot.code = made /\ token[c] = made /\ made \in Codes
    BY DEF RightProof, Current, InForce, CodeInv, FreshSlot, TypeOK
  <1>2. proven' = [proven EXCEPT ![made] = {c}] /\ tries' = tries /\ made' = made
    BY <1>1 DEF RightProof, CodeInv, FreshSlot
  <1>3. FreshSlot' /\ GuessesLimited'
    BY <1>2 DEF RightProof, FreshSlot, CodeInv, GuessesLimited
  <1>4. \A n \in Codes : proven'[n] = IF n = made THEN {c} ELSE proven[n]
    BY <1>2 DEF CodeInv, TypeOK
  <1>5. LaterUnused'
    BY <1>1, <1>2, <1>4 DEF CodeInv, LaterUnused, Codes
  <1>6. OneProof'
    BY <1>4 DEF CodeInv, OneProof
  <1> QED
    BY <1>3, <1>5, <1>6 DEF CodeInv

LEMMA CodeNext ==
    ASSUME CodeInv, [Next]_vars
    PROVE  CodeInv'
  <1>1. TypeOK'
    BY TypeNext DEF CodeInv
  <1>2. CASE Replace \/ Restart
    BY <1>1, <1>2, CodeFresh DEF Replace, Restart
  <1>3. CASE Expire
    BY <1>1, <1>3, CodeKept DEF Expire
  <1>4. ASSUME NEW c \in Clients, Open(c)
        PROVE  CodeInv'
    BY <1>1, <1>4, CodeKept DEF Open
  <1>5. ASSUME NEW c \in Clients,
               \/ Connect(c) \/ Enter(c) \/ TimeOut(c) \/ Outdated(c)
               \/ Accept(c) \/ AcceptFails(c) \/ Answer(c)
               \/ Unlink(c) \/ Script(c) \/ RemoveLine(c)
        PROVE  CodeInv'
    BY <1>1, <1>5, CodeKept
       DEF Connect, Enter, TimeOut, Outdated, Accept, Allow, ReadLines, Authorize, AcceptFails,
           Answer, Unlink, Script, RemoveLine
  <1>6. CASE UNCHANGED vars
    BY <1>1, <1>6, CodeKept DEF vars
  <1> QED
    BY <1>1, <1>2, <1>3, <1>4, <1>5, <1>6, CodeWrongProof, CodeRightProof DEF Next, Join

LEMMA CodeAlways == Spec => []CodeInv
  BY CodeInit, CodeNext, PTL DEF Spec

\* However connections overlap and codes are replaced, no code is guessed at more than
\* WrongCodeLimit times (lib.rs join).
THEOREM GuessesAlwaysLimited == Spec => []GuessesLimited
  <1>1. CodeInv => GuessesLimited
    BY DEF CodeInv
  <1> QED
    BY <1>1, CodeAlways, PTL

\* A code lets in one Client, however many connections began an exchange with it.
THEOREM CodesAlwaysWorkOnce == Spec => []CodesWorkOnce
  <1>1. CodeInv => CodesWorkOnce
    <2> SUFFICES ASSUME CodeInv, NEW n \in Codes
                 PROVE  Cardinality(proven[n]) <= 1
      BY DEF CodesWorkOnce
    <2>1. CASE proven[n] = {}
      BY <2>1, FS_EmptySet
    <2>2. CASE proven[n] # {}
      <3>1. PICK c : proven[n] = {c}
        BY <2>2 DEF CodeInv, OneProof
      <3>2. Cardinality({c}) = 1
        BY FS_Singleton
      <3> QED
        BY <3>1, <3>2
    <2> QED
      BY <2>1, <2>2
  <1> QED
    BY <1>1, CodeAlways, PTL

\* Nobody is let in by a code that was replaced, burnt or is too old, even halfway through an
\* exchange that began with it.
THEOREM OldCodesAlwaysDead == Spec => OldCodesAreDead
  <1>1. CodeInv /\ [Next]_vars =>
            [\A n \in Codes : proven'[n] # proven[n] =>
                 slot # None /\ slot.code = n /\ ~slot.over]_vars
    <2> SUFFICES ASSUME CodeInv, Next, NEW n \in Codes, proven'[n] # proven[n]
                 PROVE  slot # None /\ slot.code = n /\ ~slot.over
      OBVIOUS
    <2>1. PICK c \in Clients : RightProof(c)
      BY DEF Next, Replace, Expire, Restart, Connect, Open, Enter, TimeOut, Join, Outdated,
             WrongProof, Accept, Allow, ReadLines, Authorize, AcceptFails, Answer, Unlink,
             Script, RemoveLine
    <2>2. token[c] = n
      BY <2>1 DEF RightProof, CodeInv, TypeOK
    <2> QED
      BY <2>1, <2>2 DEF RightProof, Current, InForce
  <1> QED
    BY <1>1, CodeAlways, PTL DEF Spec, OldCodesAreDead

-----------------------------------------------------------------------------
(***************************************************************************)
(* One connection at a time has its turn, until the keys are installed; so *)
(* the lines it read are still those of the file when it writes them all.  *)
(***************************************************************************)
OneTurn ==
    \A c \in Clients : at[c] \in {"exchanging", "proved", "allowed", "authorizing"} =>
        exchanging = c

LinesKept ==
    /\ \A c \in Clients : at[c] = "authorizing" => copy[c] = file
    /\ \A c \in Clients : at[c] = "answering" => c \in file
    /\ told \subseteq file

TurnInv == TypeOK /\ OneTurn /\ (scripted \/ LinesKept)

LEMMA TurnInit == Init => TurnInv
  BY TypeInit DEF Init, TurnInv, OneTurn, LinesKept

\* The two writers of authorized_keys.
LEMMA TurnAuthorize ==
    ASSUME TurnInv, TypeOK', NEW c \in Clients, Authorize(c)
    PROVE  TurnInv'
  <1> USE DEF TurnInv, TypeOK, Authorize, Goes, Drops
  <1>1. exchanging = c /\ \A d \in Clients \ {c} : at[d] # "authorizing"
    BY DEF OneTurn
  <1>2. OneTurn'
    BY <1>1 DEF OneTurn
  <1>3. CASE ~scripted
    <2>1. copy[c] = file /\ told \subseteq file /\ \A d \in Clients : at[d] = "answering" => d \in file
      BY <1>3 DEF LinesKept
    <2>2. file' = file \cup {c} /\ told' = told
      BY <2>1
    <2>3. \A d \in Clients : at'[d] # "authorizing" /\ (at'[d] = "answering" => d \in file')
      BY <1>1, <2>1, <2>2
    <2> QED
      BY <1>2, <2>1, <2>2, <2>3 DEF LinesKept
  <1> QED
    BY <1>2, <1>3

LEMMA TurnRemoveLine ==
    ASSUME TurnInv, TypeOK', NEW c \in Clients, RemoveLine(c)
    PROVE  TurnInv'
  <1> USE DEF TurnInv, TypeOK, RemoveLine, Goes
  <1>1. OneTurn'
    BY DEF OneTurn
  <1>2. CASE ~scripted'
    <2>1. ~scripted /\ file' = file \ {c} /\ \A d \in Clients \ {c} : at[d] # "authorizing"
      BY <1>2 DEF Writing
    <2> QED
      BY <1>1, <2>1 DEF LinesKept
  <1> QED
    BY <1>1, <1>2

LEMMA TurnNext ==
    ASSUME TurnInv, [Next]_vars
    PROVE  TurnInv'
  <1>1. TypeOK'
    BY TypeNext DEF TurnInv
  <1> USE PairingAssumption, <1>1 DEF TurnInv, TypeOK, OneTurn, LinesKept, Goes, Over, Drops
  <1>2. CASE Replace \/ Expire \/ UNCHANGED vars
    BY <1>2 DEF Replace, Expire, vars
  <1>3. CASE Restart
    BY <1>3 DEF Restart
  <1>4. ASSUME NEW c \in Clients, Connect(c)
        PROVE  TurnInv'
    BY <1>4 DEF Connect
  <1>5. ASSUME NEW c \in Clients, Open(c)
        PROVE  TurnInv'
    BY <1>5 DEF Open
  <1>6. ASSUME NEW c \in Clients, Enter(c)
        PROVE  TurnInv'
    BY <1>6 DEF Enter
  <1>7. ASSUME NEW c \in Clients, TimeOut(c) \/ AcceptFails(c) \/ Outdated(c)
        PROVE  TurnInv'
    BY <1>7 DEF TimeOut, AcceptFails, Outdated
  <1>8. ASSUME NEW c \in Clients, WrongProof(c) \/ RightProof(c)
        PROVE  TurnInv'
    BY <1>8 DEF WrongProof, RightProof
  <1>9. ASSUME NEW c \in Clients, Allow(c) \/ ReadLines(c)
        PROVE  TurnInv'
    BY <1>9 DEF Allow, ReadLines
  <1>10. ASSUME NEW c \in Clients, Answer(c)
         PROVE  TurnInv'
    BY <1>10 DEF Answer, Hears
  <1>11. ASSUME NEW c \in Clients, Unlink(c) \/ Script(c)
         PROVE  TurnInv'
    BY <1>11 DEF Unlink, Script
  <1> QED
    BY <1>2, <1>3, <1>4, <1>5, <1>6, <1>7, <1>8, <1>9, <1>10, <1>11, TurnAuthorize,
       TurnRemoveLine DEF Next, Join, Accept

\* A Client that was told it is paired has its line in authorized_keys, unless an unlink's
\* script ran beside another change of the file (lib.rs accept, keys.rs authorize).
THEOREM ToldAlwaysAuthorized == Spec => []ToldIsAuthorized
  <1>1. TurnInv => ToldIsAuthorized
    BY DEF TurnInv, LinesKept, ToldIsAuthorized
  <1>2. Spec => []TurnInv
    BY TurnInit, TurnNext, PTL DEF Spec
  <1> QED
    BY <1>1, <1>2, PTL
=============================================================================
