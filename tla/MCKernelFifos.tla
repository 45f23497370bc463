---------------------------- MODULE MCKernelFifos ----------------------------
EXTENDS KernelFifos

H(f, k, s) == [filters |-> f, kernels |-> k, size |-> s]

(* 3x3 and 1x1, all channels and some, an even number of kernels in a filter;
   24 kernels for three rounds.                                              *)
EvenHeads == {H(4, 2, 3), H(1, 8, 1), H(3, 2, 3), H(1, 4, 1), H(12, 2, 1), H(0, 2, 1)}

(* One kernel in each of eight filters (sim_1/behav/head.dat), 3x3 and then 1x1. *)
OddHeads == {H(8, 1, 3), H(8, 1, 1)}

(* The hypothesis of KernelsOfRound (FifoProofs) tells the two apart. *)
ASSUME HeadsAgree == CountsAgree(EvenHeads) /\ ~CountsAgree(OddHeads)
=============================================================================
