-------------------------- MODULE MCKbaseAtoms --------------------------
(* KbaseAtoms with two interchangeable threads.  The view forgets the      *)
(* history of atoms that are over: of the properties only the types read it. *)
EXTENDS KbaseAtoms, TLC

Symmetry == Permutations(Threads)

Remembered == Jobs \cap (Outstanding \cup {jobs[j].follows : j \in running}
                         \cup UNION {{mine[t], got[t], batch[t]} : t \in Threads})

View == <<batched, epoch, counter, Last, [j \in Remembered |-> jobs[j]], kernel, lock, pc, local>>

========================================================================
