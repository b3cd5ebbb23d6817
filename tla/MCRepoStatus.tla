---------------------------- MODULE MCRepoStatus ----------------------------
(* A small instance of RepoStatus for TLC: an image repository and a shim, *)
(* which register the types of repositories and image files.               *)
EXTENDS RepoStatus, TLC

CONSTANTS repo, shim, repos, files

TwoDaemons == {repo, shim}
TwoTypes   == {repos, files}

Registering == [d \in TwoDaemons |-> <<repos, files>>]
Reading2    == (repo :> <<repos, files>>) @@ (shim :> <<>>)

=============================================================================
