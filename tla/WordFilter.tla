------------------------------ MODULE WordFilter ------------------------------
(***************************************************************************)
(* What a program that looks words up promises of its lists: every word is *)
(* either answered or among those that failed, once, in the order of the   *)
(* input.                                                                  *)
(***************************************************************************)
EXTENDS Sequences

CONSTANT Inputs         \* the sequences of words it may be given
VARIABLES todo, answered, failed

Init == todo \in Inputs /\ answered = <<>> /\ failed = <<>>
Answer == /\ todo # <<>>
          /\ todo' = Tail(todo)
          /\ answered' = Append(answered, Head(todo))
          /\ UNCHANGED failed
Fail == /\ todo # <<>>
        /\ todo' = Tail(todo)
        /\ failed' = Append(failed, Head(todo))
        /\ UNCHANGED answered
Next == Answer \/ Fail
Spec == Init /\ [][Next]_<<todo, answered, failed>> /\ WF_<<todo, answered, failed>>(Next)
===============================================================================
