---------------------------- MODULE MCLibrarian ----------------------------
(* Two banks of two profiles, numbered by their slot's factory default, and *)
(* one profile of the user's; the zero profile is none of them.             *)
EXTENDS Librarian

MCProfiles == 0 .. 4
MCDefault == [g \in 0 .. 3 |-> g]
MCZeroProfile == 5
=============================================================================
