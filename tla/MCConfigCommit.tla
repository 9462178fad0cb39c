--------------------------- MODULE MCConfigCommit ---------------------------
EXTENDS ConfigCommit, TLC

CONSTANTS p, a, b, i, j

MCPools == {p}
MCProfiles == {a, b}
MCImages == {i, j}

Has(auth, settings) == [auth |-> auth, pools |-> p :> settings]
Like(profile, image) == [replicas |-> 1, auth |-> profile, image |-> image]

\* Without the pool; with it; moved, and with another image.
MCDrafts ==
  {[auth |-> {a}, pools |-> <<>>], Has({a}, Like(a, i)), Has({a, b}, Like(b, j))}
=============================================================================
