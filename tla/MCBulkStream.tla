----------------------------- MODULE MCBulkStream -----------------------------
EXTENDS BulkStream
CONSTANTS p, q, r, x, y

\* The third product has no variant.
ParentOfVariant == x :> p @@ y :> q
=============================================================================
