---------------------------- MODULE MCDocuments ----------------------------
(***************************************************************************)
(* Documents for TLC: the specifications of the runs that are not about    *)
(* all of it.                                                              *)
(***************************************************************************)
EXTENDS Documents

\* Request threads and pool workers keep running; the client may stop at any
\* time.
FairSpec ==
    /\ Spec
    /\ \A n \in Notes : WF_vars(Handler(n)) /\ WF_vars(Validation(n)) /\ WF_vars(Highlight(n))

\* What test_document_manipulation.py relies on: when every notification has been
\* handled the document agrees, in whatever order the handlers took their steps.
AgreesInAnyOrder == (InFlight = {} /\ Opened(note)) => DocumentAgrees

Diagnosed(n) == n \in Elements(published.text)

\* A handler is about to validate an object that was closed since it looked it
\* up: validationsByUri goes by the URI, so it cancels the validation of whatever
\* document was opened there in the meantime.
ValidatesClosed == \E m \in Notes : hpc[m] = "validate" /\ hdoc[m] # current

\* Every edit that is in the document is eventually covered by published
\* diagnostics although validations keep canceling each other (the flags of
\* validationsByUri), unless from then on the compiler throws, the document is
\* closed, a closed one is validated or a handler begins out of turn.
EditsAreDiagnosed ==
    \A n \in Notes :
        hpc[n] = "lookup" ~>
            \/ Diagnosed(n)
            \/ ~inTurn
            \/ ValidatesClosed
            \/ \E m \in Notes : vpc[m] = "threw"
            \/ \E m \in n + 1 .. Len(note) : note[m] = "close"
=============================================================================
