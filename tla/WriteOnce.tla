------------------------------- MODULE WriteOnce -------------------------------
(***************************************************************************)
(* What create_atomic promises a set of racing callers: one path, written  *)
(* at most once, and each caller told the truth about it in one step; only *)
(* a caller that created the file may take it away again.                  *)
(***************************************************************************)
CONSTANTS Procs, Data, None, Link

VARIABLES
    value,    \* what the path holds
    answer    \* what each caller was told

onceVars == <<value, answer>>

Answers == {"none", "created", "unchanged", "collision", "error"}

Init ==
    /\ value \in Data \cup {None, Link}
    /\ answer = [p \in Procs |-> "none"]

\* The path was free: this caller's bytes are there from now on.
Create(p, data) ==
    /\ answer[p] = "none"
    /\ value = None
    /\ value' = data
    /\ answer' = [answer EXCEPT ![p] = "created"]

\* The path held these very bytes already.
Match(p, data) ==
    /\ answer[p] = "none"
    /\ value = data
    /\ answer' = [answer EXCEPT ![p] = "unchanged"]
    /\ UNCHANGED value

\* The path holds something else, or held it and was emptied.
Collide(p, data) ==
    /\ answer[p] = "none"
    /\ value # data
    /\ answer' = [answer EXCEPT ![p] = "collision"]
    /\ UNCHANGED value

\* The call fails and changes nothing.
Raise(p) ==
    /\ answer[p] = "none"
    /\ answer' = [answer EXCEPT ![p] = "error"]
    /\ UNCHANGED value

\* A caller that was told it created the file takes its bytes back.
Withdraw(p, data) ==
    /\ answer[p] = "created"
    /\ value = data
    /\ value' = None
    /\ UNCHANGED answer

Next ==
    \E p \in Procs :
        \/ \E data \in Data : \/ Create(p, data) \/ Match(p, data)
                             \/ Collide(p, data) \/ Withdraw(p, data)
        \/ Raise(p)

Spec == Init /\ [][Next]_onceVars

=============================================================================
