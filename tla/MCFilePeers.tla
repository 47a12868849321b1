---------------------------- MODULE MCFilePeers ----------------------------
(* All packages of up to three files out of three paths, in every order.   *)
EXTENDS FilePeers
MCPaths == 1 .. 3
MCPackages == {s \in UNION {[1 .. n -> MCPaths] : n \in 0 .. 3} : IsInjective(s)}
MCSubstitutions == {[p \in MCPaths |-> p], [p \in MCPaths |-> (p % 3) + 1]}
MCGenerics == {[p \in MCPaths |-> IF p \in S THEN 1 ELSE NoFile] : S \in SUBSET MCPaths}
=============================================================================
