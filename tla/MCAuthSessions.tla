--------------------------- MODULE MCAuthSessions ---------------------------
(* Requests are interchangeable goroutines: their permutations are a symmetry. *)
EXTENDS AuthSessions, TLC

RequestSymmetry == Permutations(Requests)
=============================================================================
