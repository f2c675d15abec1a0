------------------------------ MODULE CoilMirror ------------------------------
(***************************************************************************)
(* What the RS485 link promises, whatever the wire does to it: coils       *)
(* change only by a restart of their node, which clears them, or by taking *)
(* over, as a whole, what the bank wanted of that very node when the link  *)
(* last looked - never a mixture, never another node's coils, never what   *)
(* the bank wanted at an earlier look.                                     *)
(*                                                                         *)
(* How soon is not part of it: a node that is not written after a look     *)
(* keeps what it took over after an earlier one.                           *)
(***************************************************************************)
CONSTANTS
    Nodes,     \* unit ids
    Patterns,  \* what the coils of one node can be set to
    Dark,      \* a node that has just restarted, one of Patterns
    Tables     \* the sets of nodes that the outputs of a table may use

VARIABLES
    wanted,   \* desiredCoils(): what the bank wants of each node it uses
    picture,  \* wanted as it was at the last look
    held      \* what the coils of each node are

mirrorVars == <<wanted, picture, held>>

\* What a bank may want.
Demands == UNION { [used -> Patterns] : used \in Tables }

MirrorInit ==
    /\ wanted \in Demands
    /\ picture = [n \in {} |-> Dark]
    /\ held = [n \in Nodes |-> Dark]

\* The outputs move.
Move == wanted' \in Demands /\ UNCHANGED <<picture, held>>

\* The link looks at the outputs.
Look == picture' = wanted /\ UNCHANGED <<wanted, held>>

\* A node takes over what the link saw.
Copy(n) ==
    /\ n \in DOMAIN picture
    /\ held' = [held EXCEPT ![n] = picture[n]]
    /\ UNCHANGED <<wanted, picture>>

\* A node loses power or misses its watchdog.
Restart(n) == held' = [held EXCEPT ![n] = Dark] /\ UNCHANGED <<wanted, picture>>

MirrorNext == Move \/ Look \/ \E n \in Nodes : Copy(n) \/ Restart(n)

MirrorSpec == MirrorInit /\ [][MirrorNext]_mirrorVars
===============================================================================
