------------------------------ MODULE MCConfig ------------------------------
(***************************************************************************)
(* Instances of Config for TLC.  A client that may be relied upon: it      *)
(* answers the last copy of a request it gets, with a result.              *)
(***************************************************************************)
EXTENDS Config, TLC

Symmetry == Permutations(Callers)

\* The copies before the last retry may fail; the last one is answered.
ReliableNext ==
    /\ Next
    /\ \A id \in Ids : attempt[id] = MaxAttempts => ~NoAnswer(id, MaxAttempts + 1)

\* The threads of the server run, its timers expire and the client answers.
LiveSpec ==
    /\ Init
    /\ [][ReliableNext]_vars
    /\ \A c \in Callers :
           WF_vars(LookUp(c) \/ LookUpAgain(c) \/ Join(c) \/ Request(c) \/ Wake(c) \/ Store(c))
    /\ \A id \in Ids : WF_vars(Retry(id))
    /\ \A id \in Ids, n \in Copies : WF_vars(Answer(id, n)) /\ WF_vars(Reply(id, n))
    /\ \A k \in Changes : WF_vars(Handler(k))

\* Every call of getConfig() returns, though copies of the request and replies
\* to it fail as long as a retry is left.
CallsReturn == \A c \in Callers : pc[c] # "idle" ~> pc[c] = "idle"
=============================================================================
