------------------------------ MODULE MCApiKeys ------------------------------
(* Four raw keys under three prefixes: a deleted key can find its prefix    *)
(* taken over by another, and a key can be rotated twice.                   *)
EXTENDS ApiKeys

CONSTANTS a, b, c, d, p, q, s

MCRaws == {a, b, c, d}
MCPrefixes == {p, q, s}
MCPrefixOf == [r \in MCRaws |-> CASE r = b -> q [] r = c -> s [] OTHER -> p]
=============================================================================
