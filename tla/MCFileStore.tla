---------------------------- MODULE MCFileStore ----------------------------
EXTENDS FileStore, TLC

CONSTANTS p1, p2, c1, c2, c3, k1, k2

MCProcOf == (c1 :> p1) @@ (c2 :> p1) @@ (c3 :> p2)
MCKeyOf == (c1 :> k1) @@ (c2 :> k2) @@ (c3 :> k1)
=============================================================================
