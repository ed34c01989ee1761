---------------------------- MODULE MCThreadPool ----------------------------
EXTENDS ThreadPool

\* Clients are alike, and so are the threads that are not created yet.
Symmetric == Permutations(Client) \cup Permutations(Worker)

=============================================================================
