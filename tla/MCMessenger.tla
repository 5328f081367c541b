---------------------------- MODULE MCMessenger -----------------------------
(* A small instance of the messenger of dz1, which shares a file. *)
EXTENDS FileMessengerProps

\* A process that runs goes on running; nobody has to start or to type.
FairSpec ==
    /\ Spec
    /\ \A u \in Users : WF_vars(WriteFile(u)) /\ WF_vars(Parent(u))
=============================================================================
