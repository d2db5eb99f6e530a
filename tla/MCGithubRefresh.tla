-------------------------- MODULE MCGithubRefresh --------------------------
(* GithubRefresh for TLC. *)
EXTENDS GithubRefresh
=============================================================================
