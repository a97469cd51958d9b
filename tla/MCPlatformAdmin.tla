--------------------------- MODULE MCPlatformAdmin ---------------------------
(* Small instances of PlatformAdmin for TLC; the cfg gives the constants.     *)
EXTENDS PlatformAdmin, TLC

Symmetry == Permutations(Clients) \cup Permutations(Ids) \cup Permutations(Suppliers)
              \cup Permutations(Urls) \cup Permutations(Tokens)
===============================================================================
