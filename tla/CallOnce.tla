------------------------------ MODULE CallOnce ------------------------------
(***************************************************************************)
(* What a caller of an MCP server relies on: a call takes effect at most      *)
(* once, and only while it is open; it returns with its own answer, after its *)
(* effect, or with an error.                                                  *)
(***************************************************************************)
EXTENDS Naturals

CONSTANT MaxCalls            \* bound: the calls are numbered in their order

ASSUME MaxCallsAssumption == MaxCalls \in Nat

Requests == 1..MaxCalls

VARIABLES state,   \* state[n]: of call n
          got,     \* got[n]: the call whose answer n has returned with, 0 if none
          executed \* executed[n]: how often the server has executed n

CallInit == /\ state = [n \in Requests |-> "new"]
            /\ got = [n \in Requests |-> 0]
            /\ executed = [n \in Requests |-> 0]

Open(n) == /\ state[n] = "new"
           /\ \A m \in Requests : state[m] # "open"
           /\ state' = [state EXCEPT ![n] = "open"]
           /\ UNCHANGED <<got, executed>>

Perform(n) == /\ state[n] = "open" /\ executed[n] = 0
              /\ executed' = [executed EXCEPT ![n] = 1]
              /\ UNCHANGED <<state, got>>

Answer(n) == /\ state[n] = "open" /\ executed[n] = 1
             /\ state' = [state EXCEPT ![n] = "answered"]
             /\ got' = [got EXCEPT ![n] = n]
             /\ UNCHANGED executed

Fail(n) == /\ state[n] = "open"
           /\ state' = [state EXCEPT ![n] = "failed"]
           /\ UNCHANGED <<got, executed>>

CallNext == \E n \in Requests : Open(n) \/ Perform(n) \/ Answer(n) \/ Fail(n)

CallSpec == CallInit /\ [][CallNext]_<<state, got, executed>>
=============================================================================
