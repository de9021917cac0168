----------------------------- MODULE MCTcpProxy -----------------------------
(* Instances of TcpProxy for TLC: one link whose peers send several times, *)
(* one to which the application sends as well, with and without dialogs.   *)
EXTENDS TcpProxy

Load(links, peer, app) ==
    [links : {links}, peer : {peer}, app : {app}, modal : BOOLEAN]
MCLoads == Load(Links, 2, 0) \cup Load(Links, 1, 1)
=============================================================================
