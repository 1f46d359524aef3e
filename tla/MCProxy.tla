------------------------------ MODULE MCProxy ------------------------------
(* Small instances of Proxy.                                               *)
EXTENDS Proxy

foo == "foo"
bar == "bar"

MCPrefixes == <<<<"/">>, <<foo>>, <<"/", foo>>, <<foo, "/">>, <<foo, "/", bar>>>>

\* Every program has a port of its own.
MCRelays == {[path |-> MCPrefixes[i], strip_path |-> strip, port |-> IF strip THEN i ELSE 5 + i] :
                i \in 1..5, strip \in BOOLEAN}

\* None (an application), one or two programs.
MCConfigs == {{}} \cup {{r, q} : r \in MCRelays, q \in MCRelays}

\* Programs a and b of tests/simple.yaml, which have the same path.
MCSimple == {{r \in MCRelays : r.path = <<"/", foo>>}}

MCPaths == {<<"/">>, <<"/", foo>>, <<"/", foo, "/">>, <<"/", foo, "/", bar>>, <<"/", bar>>,
            <<"/", foo, "/", "/", bar>>, <<"/", "/", foo>>, <<"/", foo, "/", bar, "/", foo>>}

MCApi == {<<"/", bar, "/", foo>>}

Named(name, blanks) == [name |-> name, blanks |-> blanks]

\* None, a BLAHAJ's own, and two names in the forms that the comment of from_info lists:
\* in one part alone, in one of several, and in several parts.
MCHeaders == {<<>>,
              <<<<>>, <<Named("a", 0)>>, <<>>, <<>>>>,
              <<<<Named("a", 0), Named("b", 1)>>>>,
              <<<<>>, <<Named("a", 0), Named("b", 1)>>, <<>>>>,
              <<<<Named("a", 0)>>, <<Named("b", 1)>>, <<>>>>}
=============================================================================
