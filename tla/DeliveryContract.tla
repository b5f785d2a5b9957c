--------------------------- MODULE DeliveryContract ---------------------------
(* What the owner of a delivery may rely on, whoever it is: a session's turn, *)
(* a Goal's milestone.  A delivery is begun once, is charged for more and     *)
(* more while it works, may be blocked and go on where it was, and ends once. *)
(* The owner sees what is stored, so a daemon that stops loses a step at most *)
(* and no step leads back.                                                    *)
EXTENDS Naturals

CONSTANTS
    Renewable,  \* whether the owner may begin again after a block, or after the end
    None

VARIABLE child   \* None, or the delivery that is stored

Ended == {"Delivered", "Stopped"}

\* The charge of a delivery that has ended is its owner's.
Children == [phase : {"Working", "Blocked"}, used : Nat] \cup [phase : Ended, used : {0}]

TypeOK == child \in Children \cup {None}

IsIn(phases) == child # None /\ child.phase \in phases

Init == child = None

Begins ==
    /\ child = None
    /\ child' = [phase |-> "Working", used |-> 0]

Charged(phase) ==
    /\ child' \in [phase : {phase}, used : Nat]
    /\ child'.used >= child.used

Works == IsIn({"Working"}) /\ Charged("Working")

Blocks == IsIn({"Working"}) /\ Charged("Blocked")

Resumes ==
    /\ IsIn({"Blocked"})
    /\ child' = [child EXCEPT !.phase = "Working"]

Delivers ==
    /\ IsIn({"Working"})
    /\ child' = [phase |-> "Delivered", used |-> 0]

Stops ==
    /\ IsIn({"Working", "Blocked"})
    /\ child' = [phase |-> "Stopped", used |-> 0]

\* The owner gives up what was blocked and starts from the files as they are.
IsDropped ==
    /\ Renewable /\ IsIn({"Blocked"})
    /\ child' = None

\* The end was stored but the owner did not learn of it: the delivery is begun
\* another time.
BeginsAgain ==
    /\ Renewable /\ IsIn(Ended)
    /\ child' = [phase |-> "Working", used |-> 0]

Next ==
    \/ Begins \/ Works \/ Blocks \/ Resumes \/ Delivers \/ Stops
    \/ IsDropped \/ BeginsAgain

Spec == Init /\ [][Next]_child

===============================================================================
