---------------------------- MODULE MCServeConfig ----------------------------
(***************************************************************************)
(* An instance of ServeConfig for TLC: two ports, every protocol, and for  *)
(* each the handlers that differ in what the loops look at.                *)
(***************************************************************************)
EXTENDS ServeConfig

MCRoutes == {<<>>,
             <<[path |-> "", backend |-> "a"]>>,
             <<[path |-> "/", backend |-> "a"], [path |-> "", backend |-> "b"]>>,
             <<[path |-> "/x", backend |-> "a"], [path |-> "/x", backend |-> "b"]>>}

MCProxies == {NoProxy} \cup [backend : {"a"}, terminateTLS : BOOLEAN]

MCHandlers ==
    [port : {80, 443}, protocol : {"http", "https"}, routes : MCRoutes,
     proxy : {NoProxy}]
    \cup [port : {80, 443}, protocol : {"tcp", "tls-terminated-tcp"},
          routes : {<<>>}, proxy : MCProxies]
=============================================================================
