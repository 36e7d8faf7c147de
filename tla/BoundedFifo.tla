---------------------------- MODULE BoundedFifo ----------------------------
(***************************************************************************)
(* What the users of Queue<T,N> (src/server/queue.hpp) rely on, without    *)
(* threads, locks or condition variables: a FIFO channel of capacity N     *)
(* that can be closed for writing (stop) or for both ends (stopNow).  Once *)
(* an end is closed it stays closed, and values still inside when the      *)
(* reading end closes are never delivered.                                 *)
(***************************************************************************)
EXTENDS Naturals, Sequences

CONSTANTS N,        \* capacity of the channel
          Values    \* what travels through it

VARIABLES fifo,       \* the values inside, oldest first
          accepting,  \* the writing end is open
          delivering, \* the reading end is open
          log         \* every value ever delivered, in order of delivery

fvars == <<fifo, accepting, delivering, log>>

Init ==
    /\ fifo = << >>
    /\ accepting = TRUE
    /\ delivering = TRUE
    /\ log = << >>

Put(v) ==
    /\ accepting
    /\ Len(fifo) < N
    /\ fifo' = Append(fifo, v)
    /\ UNCHANGED <<accepting, delivering, log>>

Get ==
    /\ delivering
    /\ fifo # << >>
    /\ log' = Append(log, Head(fifo))
    /\ fifo' = Tail(fifo)
    /\ UNCHANGED <<accepting, delivering>>

CloseWriting ==
    /\ accepting
    /\ accepting' = FALSE
    /\ UNCHANGED <<fifo, delivering, log>>

\* The reading end only ever closes after the writing end has.
CloseReading ==
    /\ ~accepting
    /\ delivering
    /\ delivering' = FALSE
    /\ UNCHANGED <<fifo, accepting, log>>

Next ==
    \/ \E v \in Values : Put(v)
    \/ Get
    \/ CloseWriting
    \/ CloseReading

Spec == Init /\ [][Next]_fvars
=============================================================================
