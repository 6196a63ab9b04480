--------------------------- MODULE MCWalletPanel ---------------------------
(* Instances of WalletPanel. *)
EXTENDS WalletPanel

\* One mode per question: a careful user on a good network, one on a slow and
\* lossy network, and an impatient one with the development build.
MCModes ==
  { [patient |-> TRUE, prompt |-> TRUE, reliable |-> TRUE, diagnostics |-> FALSE, imports |-> {"kit"}, clicks |-> 5],
    [patient |-> TRUE, prompt |-> FALSE, reliable |-> FALSE, diagnostics |-> FALSE, imports |-> {"kit"}, clicks |-> 3],
    [patient |-> FALSE, prompt |-> FALSE, reliable |-> FALSE, diagnostics |-> TRUE, imports |-> {"record"}, clicks |-> 3] }
=============================================================================
