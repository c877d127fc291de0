-------------------------- MODULE MCBridgeDownload --------------------------
(* BridgeDownload with model values for downloads. *)
EXTENDS BridgeDownload, TLC

CONSTANTS d1, d2, d3

DownloadSymmetry == Permutations({d1, d2, d3})
=============================================================================
