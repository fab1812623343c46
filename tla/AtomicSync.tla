----------------------------- MODULE AtomicSync -----------------------------
(***************************************************************************)
(* What a transfer promises, without journals, backups or steps: one       *)
(* indivisible change of the receiver's files and of the baseline.         *)
(*                                                                         *)
(* content  what the receiver's project holds                              *)
(* baseline the last version both machines agreed on                       *)
(* seen     what it held when the transfer under way was planned           *)
(* edits    how many edits the people and tools working there have made    *)
(***************************************************************************)
EXTENDS ThreeWay, Naturals

VARIABLES content, baseline, seen, edits

vars == <<content, baseline, seen, edits>>

Init == /\ content \in Manifest
        /\ baseline \in Manifest
        /\ seen = Empty
        /\ edits = 0

\* Whoever works in the project changes it as they like.
Edit == /\ content' \in Manifest
        /\ edits' = edits + 1
        /\ UNCHANGED <<baseline, seen>>

Plan == /\ seen' = content
        /\ UNCHANGED <<content, baseline, edits>>

\* A transfer that is refused, fails or dies leaves nothing behind.
Drop == /\ seen' = Empty
        /\ UNCHANGED <<content, baseline, edits>>

(***************************************************************************)
(* All of a transfer's changes at once. It replaces only entries that were *)
(* what both machines last agreed on; every entry it writes becomes the    *)
(* agreed one in the same step, and nothing else does but what the         *)
(* receiver was seen to hold already.                                      *)
(***************************************************************************)
Transfer == /\ content' \in Manifest
            /\ baseline' \in Manifest
            /\ \A p \in Paths :
                   IF content'[p] # content[p]
                   THEN content[p] = baseline[p] /\ baseline'[p] = content'[p]
                   ELSE baseline'[p] \in {baseline[p], seen[p]}
            /\ seen' = Empty
            /\ UNCHANGED edits

Next == Edit \/ Plan \/ Drop \/ Transfer

Spec == Init /\ [][Next]_vars
=============================================================================
