------------------------------ MODULE ThreeWay ------------------------------
(***************************************************************************)
(* Three way synchronization as pure operators: what the sender, the       *)
(* receiver and their last shared baseline say about each path, and what   *)
(* follows from it (crates/slingshot-core/src/sync.rs, plan, agreed and    *)
(* merge).                                                                 *)
(*                                                                         *)
(* A manifest is total over Paths: Absent stands for a name the code's map *)
(* does not hold. An entry (hash, executable bit, link target) is one      *)
(* member of Content, because the code only ever compares whole entries.   *)
(***************************************************************************)
CONSTANTS
    Paths,    \* the names a project may hold
    Content,  \* the entries a name may have
    Absent    \* no entry

ASSUME AbsentAssumption == Absent \notin Content

Value == Content \cup {Absent}
Manifest == [Paths -> Value]
Empty == [p \in Paths |-> Absent]

(***************************************************************************)
(* sync::plan. Each path falls in one of four classes; only the agreeing   *)
(* and the changed ones move the baseline, to what the sender holds.       *)
(***************************************************************************)
Agreeing(sender, receiver) == {p \in Paths : sender[p] = receiver[p]}

Changes(base, sender, receiver) ==
    {p \in Paths : /\ sender[p] # receiver[p]
                   /\ sender[p] # base[p]
                   /\ receiver[p] = base[p]}

Kept(base, sender, receiver) ==
    {p \in Paths : sender[p] # receiver[p] /\ sender[p] = base[p]}

Conflicts(base, sender, receiver) ==
    {p \in Paths : /\ sender[p] # receiver[p]
                   /\ sender[p] # base[p]
                   /\ receiver[p] # base[p]}

\* sync::merge: the receiver's manifest once the changes have been applied.
Merge(receiver, changes, sender) ==
    [p \in Paths |-> IF p \in changes THEN sender[p] ELSE receiver[p]]

\* The baseline a plan records once its changes are applied.
PlanBaseline(base, sender, receiver) ==
    Merge(base,
          Agreeing(sender, receiver) \cup Changes(base, sender, receiver),
          sender)

\* sync::agreed: the baseline after a pull, told what both sides now hold.
Agreed(base, one, other) == Merge(base, Agreeing(one, other), one)
=============================================================================
