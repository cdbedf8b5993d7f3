-------------------------------- MODULE Loops --------------------------------
(***************************************************************************)
(* A loop over the elements of a sequence.  Its step is a function of the  *)
(* pair of the state and the next element; its domain says what both of    *)
(* them may be.                                                            *)
(***************************************************************************)
EXTENDS Integers, Sequences

\* The states of the loop, by the number of elements it has taken.
LoopStates(step, start, input) ==
    LET state[n \in 0..Len(input)] ==
            IF n = 0 THEN start ELSE step[<<state[n - 1], input[n]>>]
    IN  state

\* The state it ends in.
Loop(step, start, input) == LoopStates(step, start, input)[Len(input)]

\* A loop over the places of a sequence.
Places(input) == [i \in DOMAIN input |-> i]
=============================================================================
