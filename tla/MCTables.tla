------------------------------- MODULE MCTables -------------------------------
(***************************************************************************)
(* Small tables: four websites, two of them application websites; or, in   *)
(* an application that has only begun, one page.  The code of a page       *)
(* changes none of the tables and no table's code changes its data, so     *)
(* each is explored by itself.                                             *)
(***************************************************************************)
EXTENDS Tables, Page

MCPorts == {":8080"}
MCProtocols == {"http://", "https://"}

MCFullUrls ==
  {[protocol |-> "http://", url |-> u] : u \in {<<"*", "/">>, <<"h", "/">>, <<"h", "/", "a">>}}
  \cup {[protocol |-> "https://", url |-> <<"*", ":8080">>]}

MCAppUrls == {[protocol |-> "", url |-> <<"h">>]}

MCIps == {"0.0.0.0"}

MCRequests ==
  {[protocol |-> p, url |-> u, ip |-> "0.0.0.0"] :
     p \in MCProtocols,
     u \in {<<"h", "/">>, <<"g", "/", "a">>, <<"h", "/", "a", "/">>, <<"h", "/", "a", "b">>,
            <<"h", ":8080", "/", "a">>, <<"h", "/", ":8080">>}}

MCDecoded == ("%26" :> <<"&">>) @@ ("%3D" :> <<"=">>) @@ ("%E9" :> <<"e9">>) @@ ("%00" :> <<>>)
MCCanonical == [s \in {"etag", "ETag", "Etag"} |-> "Etag"]

\* a=1&b=c=2, a%26b=%3D, &=a&, a=b% and the like, with and without cookies.  Names of
\* six bytes are too long: aaaaaa, and %26%26 that is decoded to two.
MCQueries ==
  {<<>>, <<"a", "=", "1", "&", "b", "=", "c", "=", "2">>, <<"a", "%26", "b", "=", "%3D">>,
   <<"&", "=", "a", "&">>, <<"a", "&", "%E9", "=", "a">>, <<"a", "=", "b", "%">>,
   <<"a", "%00", "=", "1", "&", "a", "a", "a", "a", "a", "a", "=", "1">>,
   <<"b", "&", "%26", "%26", "=", "1", "&", "a">>}
MCPageRequests ==
  {[query |-> q, body |-> <<"a", "=", "2">>, cookie |-> <<>>] : q \in MCQueries}
  \cup {[query |-> <<>>, body |-> <<>>, cookie |-> <<"a", "=", "0", "; ", "b", "=", "1">>]}

MCCookieNames == {<<"a">>, <<"b">>}
MCValues == {<<"1">>}
MCParamNames == {<<"a">>, <<"b">>}
MCHeaderNames == {"etag", "ETag", "Set-Cookie"}
MCPaths == {<<>>, <<"/">>}

MCInit == Init /\ PageInit
MCNext ==
  \/ page = NoPage /\ Next /\ UNCHANGED page
  \/ prog = "webapp" /\ websites = list_init /\ loaded_modules = list_init
     /\ PageNext /\ UNCHANGED vars
MCSpec == MCInit /\ [][MCNext]_<<vars, page>>
=============================================================================
