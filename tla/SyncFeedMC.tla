----------------------------- MODULE SyncFeedMC -----------------------------
(***************************************************************************)
(* Small instances of SyncFeed.                                            *)
(***************************************************************************)
EXTENDS SyncFeed, TLC

DeviceSymmetry == Permutations(Devices)
WriterSymmetry == Permutations(Writers)
=============================================================================
