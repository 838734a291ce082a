---------------------------- MODULE MCCardOutput ----------------------------
(* Instances of CardOutput for TLC.                                        *)
EXTENDS CardOutput

Load(start, may, events) == [start |-> start, may |-> may, events |-> events]

\* everything, for short
Short == {Load(start, Happenings, 2) : start \in Starts}

\* what an edit's outputs prove, across sessions
Edit == {Load("captured", {"edit", "done", "cancel", "open", proof}, 4) : proof \in {"editor save", "upload"}}

\* an overflow or a timer meets an editor and its outputs
Retired == {Load("restored", {"open", "edit", "editor save", "save", "overflow", "close", "done", "cancel"}, 4)}

\* outputs of the card and the dialog against one another
Outputs == {Load("captured", {"copy", "save", "save as", "upload", "close", "dismiss", "overflow", "drop"}, 3)}

Loads == Short \union Edit \union Retired \union Outputs
=============================================================================
