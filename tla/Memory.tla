------------------------------- MODULE Memory -------------------------------
(***************************************************************************)
(* What the CPU expects of the memory behind its bus: one request at a     *)
(* time, a read answered with the word that was written last, a write done *)
(* once.                                                                   *)
(***************************************************************************)
CONSTANTS MemAddress, MemWord, NoRequest

VARIABLES contents, request, answer

memVars == <<contents, request, answer>>

MemRequest == [we : BOOLEAN, a : MemAddress, d : MemWord]

Init ==
  /\ \E w \in MemWord : contents = [a \in MemAddress |-> w] /\ answer = w
  /\ request = NoRequest

Ask ==
  /\ request = NoRequest
  /\ request' \in MemRequest
  /\ UNCHANGED <<contents, answer>>

Read ==
  /\ request # NoRequest
  /\ ~request.we
  /\ answer' = contents[request.a]
  /\ request' = NoRequest
  /\ UNCHANGED contents

Write ==
  /\ request # NoRequest
  /\ request.we
  /\ contents' = [contents EXCEPT ![request.a] = request.d]
  /\ request' = NoRequest
  /\ UNCHANGED answer

Spec == Init /\ [][Ask \/ Read \/ Write]_memVars

=============================================================================
