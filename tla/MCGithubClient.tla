--------------------------- MODULE MCGithubClient ---------------------------
EXTENDS GithubClient
=============================================================================
