----------------------------- MODULE MCLifecycle -----------------------------
(* The sandbox in which everything happens, and one that is only reset.    *)
EXTENDS Lifecycle

MCReset == {"userPost", "botPost", "reset"}

=============================================================================
