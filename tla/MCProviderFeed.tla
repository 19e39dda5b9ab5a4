--------------------------- MODULE MCProviderFeed ---------------------------
(* Instances of ProviderFeed for TLC: the folders 1, 1/2, 2 and 2/2. *)
EXTENDS ProviderFeed

MCFold(s) == s
MCPath == {<<1>>, <<1, 2>>, <<2>>, <<2, 2>>}
MCRemotePath == {<<2>>}
MCScopes == {Everything, Root, 11}
=============================================================================
