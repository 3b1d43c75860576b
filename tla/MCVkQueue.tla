---------------------------- MODULE MCVkQueue ----------------------------
(* VkQueue with interchangeable threads, command buffers and addresses. *)
EXTENDS VkQueue, TLC

Symmetry == Permutations(Threads) \cup Permutations(Buffers) \cup Permutations(Cmds)

==========================================================================
