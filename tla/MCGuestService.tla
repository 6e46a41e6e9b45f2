--------------------------- MODULE MCGuestService ---------------------------
(* Two watched values, interchangeable but for liveness. *)
EXTENDS GuestService

MCWatches == {"users", "sshkeys"}
=============================================================================
