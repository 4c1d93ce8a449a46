-------------------------- MODULE MCReleaseControl --------------------------
(* Instances of ReleaseControl for TLC: the cfg files give the values.     *)
EXTENDS ReleaseControl

\* All releases compete for one logical name.
OneName == [r \in Releases |-> "default"]

=============================================================================
