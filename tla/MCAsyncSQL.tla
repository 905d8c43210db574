----------------------------- MODULE MCAsyncSQL -----------------------------
(* Instances of AsyncSQL.  The deadlocks left are those of the program: the  *)
(* thread has ended after Quit.                                              *)
EXTENDS AsyncSQL
=============================================================================
