---------------------------- MODULE MCUrlSession ----------------------------
(* URLSession tasks on small sets of tasks.                                *)
EXTENDS UrlSession

CONSTANTS t1, t2, a1
=============================================================================
