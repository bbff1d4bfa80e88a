------------------------------ MODULE Interning ------------------------------
(***************************************************************************)
(* What a caller may rely on when it declares types and constants: asking  *)
(* for the same thing twice gives the same id, asking for different things *)
(* gives different ids, and an id handed out is never given to anything    *)
(* else.  Nothing is said here of words, streams or hashing.               *)
(***************************************************************************)
EXTENDS Naturals

CONSTANTS
  Requests  \* everything a caller may ask for

VARIABLES
  table,   \* the id of every request made so far
  bound,   \* the greatest id in use
  call,    \* the request of the last call
  result   \* the id that call returned, 0 before the first

vars == <<table, bound, call, result>>

Init == /\ table = [r \in {} |-> 0]
        /\ bound = 0
        /\ result = 0

\* The first time something is asked for it takes the next id.
Create ==
  /\ call' \in Requests \ DOMAIN table
  /\ bound' = bound + 1
  /\ table' = [r \in DOMAIN table \cup {call'} |->
                 IF r = call' THEN bound + 1 ELSE table[r]]
  /\ result' = bound + 1

\* A repeated request is answered from the table.
Find ==
  /\ call' \in DOMAIN table
  /\ result' = table[call']
  /\ UNCHANGED <<table, bound>>

\* Another part of the module takes the next id for something that is never
\* shared: an instruction, a label, a variable.
Allocate ==
  /\ bound' = bound + 1
  /\ result' = bound + 1
  /\ UNCHANGED <<table, call>>

Next == Create \/ Find \/ Allocate

Spec == Init /\ [][Next]_vars
==============================================================================
