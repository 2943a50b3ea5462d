------------------------------ MODULE TypedText ------------------------------
(***************************************************************************)
(* What an input method promises about the text one types, whatever        *)
(* happens between the addon and its server.                               *)
(*                                                                         *)
(* Keystrokes are numbered in the order they are typed.  comp is the text  *)
(* on the screen that the application does not have yet, app the text the  *)
(* application was given, shown the keystrokes that ever were on screen.   *)
(***************************************************************************)
EXTENDS Naturals, Sequences, SequencesExt

VARIABLES typed, shown, comp, app
vars == <<typed, shown, comp, app>>

Increasing(q) == \A i, j \in DOMAIN q : i < j => q[i] < q[j]

Init == typed = 0 /\ shown = {} /\ comp = <<>> /\ app = <<>>

\* One event: at most one more keystroke; the application gets more text and
\* what is on the screen changes.  Text is delivered once and in order,
\* before all text that is still on the screen; text that left the screen
\* neither comes back nor is delivered.
Step ==
    LET new == SubSeq(app', Len(app) + 1, Len(app'))
        visible == ToSet(new) \cup ToSet(comp')
    IN  /\ typed' \in {typed, typed + 1}
        /\ IsPrefix(app, app')
        /\ Increasing(app' \o comp')
        /\ visible \subseteq 1 .. typed'
        /\ visible \cap shown \subseteq ToSet(comp)
        /\ shown' \subseteq 1 .. typed'
        /\ shown \cup ToSet(comp') \subseteq shown'

Spec == Init /\ [][Step]_vars
==============================================================================
