---------------------------- MODULE MCSupervisor ----------------------------
EXTENDS Supervisor, TLC

\* concurrent callers differ in nothing but their name
Interchangeable == Permutations(Calls)

=============================================================================
