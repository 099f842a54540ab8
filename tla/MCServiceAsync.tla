--------------------------- MODULE MCServiceAsync ---------------------------
(* ServiceAsync for model checking: clients, and socket objects, are alike. *)
EXTENDS ServiceAsync, TLC

Symmetry == Permutations(Clients) \cup Permutations(Handles)

=============================================================================
