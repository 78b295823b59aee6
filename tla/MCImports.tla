------------------------------- MODULE MCImports -------------------------------
(* The component's one thread calls the wrappers of http_client.c one after   *)
(* the other: those that bring a result home and those that hand an argument  *)
(* over.                                                                      *)
EXTENDS ImportResults

MCInts == [w \in {1, 2, 4, 8} |-> {0, 200}]

VARIABLES setterPc, setter, arg, slots, heard, reply, rc
argumentVars == <<setterPc, setter, arg, slots, heard, reply, rc>>

Arguments == INSTANCE ImportArguments WITH pc <- setterPc, fn <- setter

MCInit == Init /\ Arguments!Init
MCNext ==
  \/ setterPc = "idle" /\ Next /\ UNCHANGED argumentVars
  \/ pc = "idle" /\ Arguments!Next /\ UNCHANGED vars
MCSpec == MCInit /\ [][MCNext]_<<vars, argumentVars>>

\* The host hears what the caller said, and the caller of a setter whether it
\* was taken (ImportArguments).
Understood == Arguments!Understood
==============================================================================
