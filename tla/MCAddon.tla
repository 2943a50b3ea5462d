------------------------------- MODULE MCAddon -------------------------------
(* Contexts for model checking AddonState *)
EXTENDS AddonState

Editor   == [program |-> "editor", frontend |-> "wayland", secure |-> FALSE]
Password == [Editor EXCEPT !.secure = TRUE]
Browser  == [Editor EXCEPT !.program = "browser"]
XEditor  == [Editor EXCEPT !.frontend = "x11"]
\* An input context without a program name differs from the empty context of
\* a new HazkeyState in its frontend only
Nameless == [Editor EXCEPT !.program = ""]

NamelessOnly == {Nameless}
EditorOnly == {Editor}
AllContexts == {Editor, XEditor, Password, Browser}
Frontends == {Editor, XEditor}
==============================================================================
