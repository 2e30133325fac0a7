-------------------------- MODULE AtMostOnceStore --------------------------
(***************************************************************************)
(* What the storage component promises of the SET commands it is given:    *)
(* they are settled in the order in which they were issued, each once, and *)
(* a settled command either reached the server or was dropped.             *)
(***************************************************************************)
EXTENDS Naturals, Sequences

VARIABLES
  issued,    \* how many commands were issued; they are 1, 2, ...
  settled    \* the settled ones, and whether the server executed them

vars == <<issued, settled>>

Init == issued = 0 /\ settled = <<>>

Issue == issued' = issued + 1 /\ UNCHANGED settled

Settle == /\ Len(settled) < issued
          /\ \E b \in BOOLEAN :
               settled' = Append(settled, [cmd |-> Len(settled) + 1, stored |-> b])
          /\ UNCHANGED issued

Spec == Init /\ [][Issue \/ Settle]_vars
=============================================================================
