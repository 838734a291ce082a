--------------------------- MODULE MCScrollCapture ---------------------------
(***************************************************************************)
(* Small instances of scrolling captures: a producer that does a lot while *)
(* nobody interferes, two captures in a row with requests at any moment,   *)
(* and Ctrl+C in a terminal.                                               *)
(***************************************************************************)
EXTENDS ScrollCapture

MCWorkloads == {
  [by |-> "hud", captures |-> 1, requests |-> 0, buffers |-> 3, notices |-> 2],
  [by |-> "hud", captures |-> 1, requests |-> 0, buffers |-> 1, notices |-> 3],
  [by |-> "hud", captures |-> 2, requests |-> 2, buffers |-> 2, notices |-> 1],
  [by |-> "terminal", captures |-> 0, requests |-> 3, buffers |-> 3, notices |-> 1]}
=============================================================================
