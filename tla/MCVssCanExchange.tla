-------------------------- MODULE MCVssCanExchange --------------------------
(***************************************************************************)
(* VssCanExchange for TLC.  The code tells two channels apart by nothing    *)
(* but their name, so the safety run takes them up to permutation.         *)
(***************************************************************************)
EXTENDS VssCanExchange, TLC

ChannelSymmetry == Permutations(Channels)
=============================================================================
