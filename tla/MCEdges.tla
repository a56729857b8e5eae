-------------------------------- MODULE MCEdges --------------------------------
(***************************************************************************)
(* An instance for TLC of the three modules at the edges of the control    *)
(* plane, which read or pass on what somebody else wrote: the backend's    *)
(* lists (Listing), a token's claims (Principals) and proxied requests     *)
(* with their answers (Proxying).  A behaviour is of one of them.          *)
(***************************************************************************)
EXTENDS Listing, Principals, Proxying

CONSTANTS s1, s2

VARIABLE edge  \* which one

Item(of) == [kind |-> "list", of |-> of]
SomeLists == {Absent, [kind |-> "other", of |-> <<>>], Item(<<>>), Item(<<s1, s2>>),
              Item(<<s2, NoId, s2>>)}

Entry(object, names) == <<[object |-> object, names |-> names]>>
SomeSayings == {<<>>, Entry(FALSE, <<"admin">>), Entry(FALSE, <<"agent", "admin">>),
                Entry(TRUE, <<"agent">>), Entry(TRUE, <<"agent", "admin">>),
                Entry(TRUE, <<"agent">>) \o Entry(TRUE, <<>>) \o Entry(FALSE, <<"agent">>)}

SomeNames == {"admin", "agent"}
SomeKeys == {"roles", "properties.osb_roles", "tag"}

\* What a connection header can name: only a request that has one names any.
Listed(names) == {{}, names}
SomeInbounds ==
  {h \in [has : SUBSET {"host", "authorization", "open-sandbox-api-key", "connection",
                        "upgrade", "x-forwarded-for", "accept"},
          lists : Listed({"accept"}) \cup Listed({"open-sandbox-api-key", "x-forwarded-for"}),
          websocket : BOOLEAN, known : BOOLEAN, plain : BOOLEAN] :
     /\ "connection" \notin h.has => h.lists = {}
     /\ h.websocket => "upgrade" \in h.has}
SomeAnswers ==
  {a \in [has : SUBSET {"connection", "te", "set-cookie"}, lists : Listed({"set-cookie"}),
          plain : BOOLEAN] :
     "connection" \notin a.has => a.lists = {}}

NoClaims == [subject |-> FALSE, forbidden |-> FALSE, status |-> "", state |-> "",
             says |-> [k \in KeySet |-> <<>>]]

EdgesInit ==
  /\ edge \in {"list", "token", "proxy"}
  /\ Init
  /\ IF edge = "token" THEN TokenInit ELSE claims = NoClaims /\ principal = NoPrincipal
  /\ ProxyInit

EdgesNext ==
  /\ edge' = edge
  /\ \/ edge = "list" /\ Next /\ UNCHANGED <<tokenVars, proxyVars>>
     \/ edge = "token" /\ TokenNext /\ UNCHANGED <<vars, proxyVars>>
     \/ edge = "proxy" /\ ProxyNext /\ UNCHANGED <<vars, tokenVars>>

EdgesSpec == EdgesInit /\ [][EdgesNext]_<<edge, vars, tokenVars, proxyVars>>
=============================================================================
