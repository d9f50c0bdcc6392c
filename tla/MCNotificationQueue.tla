------------------------ MODULE MCNotificationQueue ------------------------
(* The instance of NotificationQueue for TLC: two pumps, a queue of two. *)
EXTENDS NotificationQueue
=============================================================================
