--------------------------- MODULE MCNIOHttpServer ---------------------------
(* Small instances of NIOHttpServer for TLC.                               *)
EXTENDS NIOHttpServerSessions, TLC

CONSTANTS c1, c2, a1, a2

\* Connections and addresses are interchangeable: no definition names one.
MCSymmetry == Permutations(Conn) \cup Permutations(Addr)

=============================================================================
