----------------------------- MODULE MCNftables -----------------------------
(***************************************************************************)
(* The firewall with one chain, a body nft takes and one it refuses.       *)
(***************************************************************************)
EXTENDS Nftables

MCHandlers == {"cmd"}
MCChains == {"helmly-global"}
MCBodies == {"", "rules", "refused"}
MCRejected == {"refused"}
=============================================================================
