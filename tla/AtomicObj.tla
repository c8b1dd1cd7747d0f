------------------------------ MODULE AtomicObj ------------------------------
(***************************************************************************)
(* What the commits of nas::base_obj_t promise to the application module   *)
(* (nas_base_obj.h): a commit takes effect on all NPUs at once when it     *)
(* returns, or throws and takes effect on none.                            *)
(*                                                                         *)
(* An NPU is lost, and nothing is promised of it from then on, when an     *)
(* undoing push fails there: during a commit that is itself a rollback, or *)
(* after a fault.  An ordinary commit that returns has lost no NPU, and a  *)
(* rolling-back commit does not fail.                                      *)
(***************************************************************************)
CONSTANTS Npus, SkipNpus, Attrs, Vals, NONE, ABSENT

VARIABLES object,  \* the object in NDI, NONE when there is none
          holds,   \* what each NPU that is not lost holds between commits
          commit   \* the commit in progress

atomicVars == <<object, holds, commit>>

Targets == [vals : [Attrs -> Vals], npus : SUBSET Npus]

Commit(op, target, rolling_back, failed) ==
  [op |-> op, target |-> target, rolling_back |-> rolling_back, failed |-> failed]

NoCommit == Commit("none", NONE, FALSE, FALSE)

\* what an NPU holds of an object
Holds(obj, n) == IF obj # NONE /\ n \in obj.npus \ SkipNpus THEN obj.vals ELSE ABSENT

AtomicInit ==
  /\ object = NONE
  /\ holds = [n \in Npus |-> ABSENT]
  /\ commit = NoCommit

\* a create makes an object, a modify replaces it; a delete may be asked
\* for again after one that succeeded
Begin ==
  /\ commit = NoCommit
  /\ \/ commit'.op = "create" /\ object = NONE /\ commit'.target \in Targets
     \/ commit'.op = "modify" /\ object # NONE /\ commit'.target \in Targets
     \/ commit'.op = "delete" /\ commit'.target = NONE
  /\ commit'.rolling_back \in BOOLEAN
  /\ commit' = Commit(commit'.op, commit'.target, commit'.rolling_back, FALSE)
  /\ UNCHANGED <<object, holds>>

Fault ==
  /\ commit.op # "none" /\ ~commit.rolling_back /\ ~commit.failed
  /\ commit' = Commit(commit.op, commit.target, FALSE, TRUE)
  /\ UNCHANGED <<object, holds>>

Lose(n) ==
  /\ commit.op # "none" /\ (commit.rolling_back \/ commit.failed)
  /\ holds' = [m \in DOMAIN holds \ {n} |-> holds[m]]
  /\ UNCHANGED <<object, commit>>

Succeed ==
  /\ commit.op # "none" /\ ~commit.failed
  /\ object' = commit.target
  /\ holds' = [n \in DOMAIN holds |-> Holds(commit.target, n)]
  /\ commit' = NoCommit

Fail ==
  /\ commit.failed
  /\ commit' = NoCommit
  /\ UNCHANGED <<object, holds>>

AtomicNext == Begin \/ Fault \/ Succeed \/ Fail \/ \E n \in Npus : Lose(n)

=============================================================================
