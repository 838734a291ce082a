--------------------------- MODULE InstanceEndpoint ---------------------------
(***************************************************************************)
(* Who owns the single-instance socket (apps/scrozz, gui/server.rs on      *)
(* Unix).  A launch connects to the path: an answer means another instance *)
(* runs; a refusal means the file is stale, and it is removed before the   *)
(* launch binds.  A quitting instance stops listening and then removes the *)
(* file at the path, whoever made it; a crashed one leaves its file.       *)
(* path names the instance whose bind made the file.                       *)
(***************************************************************************)
EXTENDS Naturals

CONSTANTS
  Apps,         \* launches of the menu-bar application, as processes
  None,
  Overlapping,  \* whether a launch may begin while another launch or a quit runs
  MaxCrashes    \* budget of the environment

ASSUME EndpointAssumption ==
  /\ None \notin Apps
  /\ Overlapping \in BOOLEAN
  /\ MaxCrashes \in Nat

VARIABLES path, pc, crashes

vars == <<path, pc, crashes>>

Settled == {"off", "up"}
Launching == {"clear", "remove", "bind", "listen"}

Init == path = None /\ pc = [a \in Apps |-> "off"] /\ crashes = 0

Goto(a, label) == pc' = [pc EXCEPT ![a] = label]

\* connect() is answered
Answers == path # None /\ pc[path] = "up"

Alone(a) == Overlapping \/ \A b \in Apps \ {a} : pc[b] \in Settled

Launch(a) ==
  /\ pc[a] = "off" /\ Alone(a) /\ Goto(a, "clear")
  /\ UNCHANGED <<path, crashes>>

\* Mutant: a file at the path is proof enough that an instance runs.
ClearIfAbsent(a) ==
  /\ pc[a] = "clear"
  /\ Goto(a, IF path = None THEN "bind" ELSE "off")
  /\ UNCHANGED <<path, crashes>>

\* Mutant: any file at the path is taken for a leftover.
ClearAlways(a) ==
  /\ pc[a] = "clear"
  /\ Goto(a, IF path = None THEN "bind" ELSE "remove")
  /\ UNCHANGED <<path, crashes>>

\* clear_stale: does the path exist, and does anything answer there?
Clear(a) ==
  /\ pc[a] = "clear"
  /\ \/ path = None /\ Goto(a, "bind")
     \/ Answers /\ Goto(a, "off")
     \/ path # None /\ ~Answers /\ Goto(a, "remove")
  /\ UNCHANGED <<path, crashes>>

\* the file that is at the path by now is removed
Remove(a) ==
  /\ pc[a] = "remove" /\ Goto(a, "bind")
  /\ path' = None /\ UNCHANGED crashes

\* UnixListener::bind makes the file and then listens; a file already at the
\* path is an error
Bind(a) ==
  /\ pc[a] = "bind"
  /\ \/ path = None /\ path' = a /\ Goto(a, "listen")
     \/ path # None /\ UNCHANGED path /\ Goto(a, "off")
  /\ UNCHANGED crashes

Listen(a) ==
  /\ pc[a] = "listen" /\ Goto(a, "up")
  /\ UNCHANGED <<path, crashes>>

\* Server::drop joins the worker, which closes the listener ...
Quit(a) ==
  /\ pc[a] = "up" /\ Alone(a) /\ Goto(a, "quitting")
  /\ UNCHANGED <<path, crashes>>

\* ... and then removes the file
Unlink(a) ==
  /\ pc[a] = "quitting" /\ Goto(a, "off")
  /\ path' = None /\ UNCHANGED crashes

Crash(a) ==
  /\ pc[a] # "off" /\ crashes < MaxCrashes
  /\ crashes' = crashes + 1
  /\ Goto(a, "off") /\ UNCHANGED path

Next == \E a \in Apps :
  Launch(a) \/ Clear(a) \/ Remove(a) \/ Bind(a) \/ Listen(a) \/ Quit(a) \/ Unlink(a) \/ Crash(a)

Spec == Init /\ [][Next]_vars

-----------------------------------------------------------------------------
TypeOK ==
  /\ path \in Apps \union {None}
  /\ pc \in [Apps -> Settled \union Launching \union {"quitting"}]
  /\ crashes \in Nat

\* At most one instance runs: "a second menu-bar item is exactly what
\* single-instance exists to prevent".
OneInstance == \A a, b \in Apps : pc[a] = "up" /\ pc[b] = "up" => a = b

\* A running instance is found at the path, so that no command runs beside it.
Reachable == \A a \in Apps : pc[a] = "up" => path = a

\* A launch gives up only for another instance that is running, starting or
\* quitting, never for a socket file that a crash left behind or that an
\* instance already gone had made.
RefusedOnlyByLive ==
  [][\A a \in Apps : pc[a] \in Launching /\ pc'[a] = "off" /\ crashes' = crashes
       => \E b \in Apps \ {a} : pc[b] # "off"]_vars

\* The inductive invariant: what the launch in progress relies on
IInv ==
  /\ TypeOK
  /\ \A a, b \in Apps : pc[a] \notin Settled /\ pc[b] \notin Settled => a = b
  /\ \A a \in Apps :
       /\ pc[a] \in {"up", "quitting", "listen"} => path = a
       /\ pc[a] = "bind" => path = None
       /\ pc[a] = "remove" => \A b \in Apps : pc[b] # "up"
=============================================================================
