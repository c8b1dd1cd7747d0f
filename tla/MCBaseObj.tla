----------------------------- MODULE MCBaseObj -----------------------------
(* Small instances of BaseObj. *)
EXTENDS BaseObj, TLC

Perms == Permutations(Npus \ (FirstNpus \cup SkipNpus))
           \cup Permutations(FirstNpus \ SkipNpus)

=============================================================================
