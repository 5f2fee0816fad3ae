--------------------------- MODULE MCDeployIngest ---------------------------
(***************************************************************************)
(* Two scripts that work and one that does not.                            *)
(***************************************************************************)
EXTENDS DeployIngest

SomeScripts == {"old", "new", "broken"}
Working == {"old", "new"}
=============================================================================
