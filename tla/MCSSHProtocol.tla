--------------------------- MODULE MCSSHProtocol ---------------------------
(* Three behaviours, one request, and an HTTP rack that is loaded twice.    *)
EXTENDS SSHProtocol

MCLoads == {"request", "other"}
MCReleases == {"refuse", "redirect", "answer"}
MCKinds == {"standard", "proxy", "http"}

(* What a standard protocol does without replies it also does with them.   *)
MCInit == SSHInit /\ (kind = "standard" => want)

MCSpec == MCInit /\ [][SSHNext]_sshVars /\ SSHFairness
=============================================================================
