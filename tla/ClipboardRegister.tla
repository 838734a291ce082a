-------------------------- MODULE ClipboardRegister --------------------------
(***************************************************************************)
(* What the user may rely on of the clipboard: requests to write it are    *)
(* numbered in the order they are made, an older one never ends up on top  *)
(* of a newer one, and one is turned down only for a newer one.            *)
(***************************************************************************)
EXTENDS Naturals, Sequences

VARIABLES
  content,  \* number of the request whose content the clipboard holds; 0: none
  fate      \* of each request: "open", "written", "refused" or "dropped"

vars == <<content, fate>>

Init == content = 0 /\ fate = <<>>

Issue == fate' = Append(fate, "open") /\ UNCHANGED content

Write(n) ==
  /\ fate[n] = "open" /\ content < n
  /\ content' = n /\ fate' = [fate EXCEPT ![n] = "written"]

Refuse(n) ==
  /\ fate[n] = "open" /\ n < Len(fate)
  /\ fate' = [fate EXCEPT ![n] = "refused"] /\ UNCHANGED content

\* what was to be written never came to be, or could not be written
Drop(dropped) ==
  /\ \A n \in dropped : fate[n] = "open"
  /\ fate' = [n \in DOMAIN fate |-> IF n \in dropped THEN "dropped" ELSE fate[n]]
  /\ UNCHANGED content

Next ==
  \/ Issue
  \/ \E n \in DOMAIN fate : Write(n) \/ Refuse(n)
  \/ \E dropped \in SUBSET DOMAIN fate : Drop(dropped)

Spec == Init /\ [][Next]_vars
=============================================================================
