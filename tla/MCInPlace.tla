------------------------------ MODULE MCInPlace ------------------------------
(* Instances of InPlace for TLC.  An edit changes the version with the       *)
(* configuration, or the infrastructure template; the extensions registered  *)
(* absorb the version and the configuration, only the version, or nothing.   *)
EXTENDS InPlace

Upgrade == {{"machine", "config"}}
UpgradeOrTemplate == Upgrade \cup {{"infra"}}
Whole == {{"machine", "config"}}
WholeOrPart == Whole \cup {{"machine"}}
=============================================================================
