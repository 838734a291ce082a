------------------------ MODULE InstanceEndpointProofs ------------------------
(***************************************************************************)
(* With one launch or quit at a time, for any number of processes and      *)
(* crashes, a running instance owns the socket at the path, and a launch   *)
(* is turned away by nothing but another instance.                         *)
(***************************************************************************)
EXTENDS InstanceEndpoint, TLAPS

LEMMA InitIInv == Init => IInv
  BY EndpointAssumption DEF Init, IInv, TypeOK, Settled, Launching

\* Each step of the one process that is between states keeps its claims.
LEMMA StepIInv ==
  ASSUME ~Overlapping, IInv, [Next]_vars PROVE IInv'
<1>1. CASE UNCHANGED vars
  BY <1>1 DEF IInv, TypeOK, vars, Settled, Launching
<1>2. ASSUME NEW a \in Apps, Launch(a) \/ Quit(a) PROVE IInv'
  BY <1>2, EndpointAssumption
  DEF IInv, TypeOK, Launch, Quit, Alone, Goto, Settled, Launching
<1>3. ASSUME NEW a \in Apps, Clear(a) PROVE IInv'
  BY <1>3, EndpointAssumption
  DEF IInv, TypeOK, Clear, Answers, Goto, Settled, Launching
<1>4. ASSUME NEW a \in Apps, Remove(a) PROVE IInv'
  BY <1>4, EndpointAssumption DEF IInv, TypeOK, Remove, Goto, Settled, Launching
<1>5. ASSUME NEW a \in Apps, Bind(a) \/ Listen(a) PROVE IInv'
  BY <1>5, EndpointAssumption
  DEF IInv, TypeOK, Bind, Listen, Goto, Settled, Launching
<1>6. ASSUME NEW a \in Apps, Unlink(a) PROVE IInv'
  BY <1>6, EndpointAssumption DEF IInv, TypeOK, Unlink, Goto, Settled, Launching
<1>7. ASSUME NEW a \in Apps, Crash(a) PROVE IInv'
  BY <1>7, EndpointAssumption DEF IInv, TypeOK, Crash, Goto, Settled, Launching
<1> QED
  BY <1>1, <1>2, <1>3, <1>4, <1>5, <1>6, <1>7 DEF Next

\* As long as launches and quits do not overlap, a running instance is the one
\* found at the path, whatever crashed before it (Clear, Remove and Bind).
THEOREM RunningIsReachable ==
  ASSUME ~Overlapping PROVE Spec => []Reachable
<1>1. IInv => Reachable
  BY DEF IInv, Reachable
<1>2. IInv /\ [Next]_vars => IInv'
  BY StepIInv
<1> QED
  BY <1>1, <1>2, InitIInv, PTL DEF Spec

\* As long as launches and quits do not overlap, a launch that clear_stale or
\* bind turns away is turned away by another instance that has not ended: what
\* a crash left at the path never refuses one.
THEOREM RefusalIsHonest ==
  ASSUME ~Overlapping PROVE Spec => RefusedOnlyByLive
<1> DEFINE Honest(a) ==
             pc[a] \in Launching /\ pc'[a] = "off" /\ crashes' = crashes
               => \E b \in Apps \ {a} : pc[b] # "off"
<1>1. ASSUME IInv, Next, NEW a \in Apps, pc[a] \in Launching, pc'[a] = "off",
             crashes' = crashes
      PROVE  \E b \in Apps \ {a} : pc[b] # "off"
  <2>1. PICK c \in Apps :
           \/ Launch(c) \/ Clear(c) \/ Remove(c) \/ Bind(c)
           \/ Listen(c) \/ Quit(c) \/ Unlink(c) \/ Crash(c)
    BY <1>1 DEF Next
  <2>2. ~ Crash(c)
    BY <1>1 DEF Crash, IInv, TypeOK
  <2>3. ~ (Launch(c) \/ Remove(c) \/ Listen(c) \/ Quit(c) \/ Unlink(c))
    BY <1>1 DEF IInv, TypeOK, Launch, Remove, Listen, Quit, Unlink, Goto, Launching
  <2>4. CASE Bind(c)
    BY <1>1, <2>4, EndpointAssumption DEF IInv, TypeOK, Bind, Goto, Launching
  <2>5. CASE Clear(c)
    <3>1. c = a /\ Answers
      BY <1>1, <2>5 DEF IInv, TypeOK, Clear, Goto, Launching
    <3>2. path \in Apps /\ path # a /\ pc[path] # "off"
      BY <1>1, <2>5, <3>1 DEF IInv, TypeOK, Clear, Answers
    <3> QED BY <3>2
  <2> QED BY <2>1, <2>2, <2>3, <2>4, <2>5
<1>2. IInv /\ [Next]_vars => [\A a \in Apps : Honest(a)]_vars
  BY <1>1
<1>3. IInv /\ [Next]_vars => IInv'
  BY StepIInv
<1> QED
  BY <1>2, <1>3, InitIInv, PTL DEF Spec, RefusedOnlyByLive
=============================================================================
