---------------------------- MODULE MCSVStream ----------------------------
(* SVStream with two application threads next to the worker thread and     *)
(* three replies: a write in flight, one queued behind it, and one sent    *)
(* while the worker is between Step's unlock and its UNREF.                *)
EXTENDS SVStream

===========================================================================
