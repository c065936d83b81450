---------------------------- MODULE MCPhoneInstall ----------------------------
(* Two installers race for one host. *)
EXTENDS PhoneInstall

(* The candidate may be bad; everything the rollback needs works. *)
BadCandidate == {"prepare", "install", "start", "verify"}

================================================================================
