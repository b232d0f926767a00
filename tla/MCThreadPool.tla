---------------------------- MODULE MCThreadPool ----------------------------
(***************************************************************************)
(* A pool of three workers or none, with two clients and two concurrent    *)
(* calls of shutdown().                                                    *)
(***************************************************************************)
EXTENDS ThreadPool
=============================================================================
