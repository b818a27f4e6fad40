--------------------------- MODULE MCCallManager ---------------------------
(* Finite instances of CallManager. *)
EXTENDS CallManager, TLC

CONSTANTS io, local, remote, alice, bob, r1

\* The application: every method runs on the signaling I/O thread.
IoThread == {io}

\* The unit tests: a local and a remote end of the same call run at once.
TestThreads == {local, remote}
LocalThread == {local}

MCPeers == {alice, bob}
MCRemoteIds == {r1}
=============================================================================
