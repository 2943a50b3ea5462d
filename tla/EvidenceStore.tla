----------------------------- MODULE EvidenceStore -----------------------------
(***************************************************************************)
(* What the directory of evidence promises to the commands that publish in *)
(* it: evidence appears whole under a name that was free, nobody replaces  *)
(* it, and only who published it takes it back.  Outsiders may do what     *)
(* they like.                                                              *)
(***************************************************************************)
CONSTANTS
    Names,         \* what evidence is published under
    Publishers,    \* the commands
    Absent,        \* what a free name is bound to
    Outsider,      \* what an outsider binds a name to
    Free(_),       \* what may give way to evidence under a name
    Evidence(_)    \* what a command binds its name to

VARIABLE bound     \* name -> who its evidence is from

Init == bound = [n \in Names |-> Absent]

Publish(n, p) ==
    /\ bound[n] \in Free(n)
    /\ bound' = [bound EXCEPT ![n] = Evidence(p)]

TakeBack(n, p) ==
    /\ bound[n] = Evidence(p)
    /\ bound' = [bound EXCEPT ![n] = Absent]

Intrude(n) == bound' = [bound EXCEPT ![n] = Outsider]

\* One name at a time
Next ==
    \E n \in Names :
        /\ bound'[n] # bound[n]
        /\ \/ \E p \in Publishers : Publish(n, p) \/ TakeBack(n, p)
           \/ Intrude(n)

Spec == Init /\ [][Next]_bound
=============================================================================
