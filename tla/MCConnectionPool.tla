-------------------------- MODULE MCConnectionPool --------------------------
(***************************************************************************)
(* ConnectionPool with more threads than connections, for TLC.             *)
(***************************************************************************)
EXTENDS ConnectionPool

=============================================================================
