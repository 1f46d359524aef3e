---------------------------- MODULE ProxyRouting ----------------------------
(***************************************************************************)
(* From the path of a request to an upstream and its path                  *)
(* (proxy/mod.rs).  A path is a sequence of slashes and names, and two     *)
(* names next to each other are one segment, as in "/foobar".              *)
(***************************************************************************)
EXTENDS Naturals, Sequences, SequencesExt

CONSTANTS
    Names,      \* what can stand between two slashes
    Ports       \* the ports of the programs

ASSUME PortAssumption == Ports \subseteq 1..65535

Path == Seq({"/"} \cup Names)

\* trim_start_matches('/') and trim_matches('/').
trim_start(s) ==
    LET n == Max({i \in 0..Len(s) : \A j \in 1..i : s[j] = "/"})
    IN  SubSeq(s, n + 1, Len(s))

trim(s) == Reverse(trim_start(Reverse(trim_start(s))))
-----------------------------------------------------------------------------
\* The HttpRelay of a program: where it is served, what its upstream gets and where
\* that is, always on this host.
HttpRelay == [path : Path, strip_path : BOOLEAN, port : Ports]

\* ProxyEntry::from.
ProxyEntry(relay) ==
    [port |-> relay.port, prefix_path |-> IF relay.strip_path THEN <<>> ELSE relay.path]

(***************************************************************************)
(* ProxyConfig::new: one entry per trimmed path.  Of two programs with the *)
(* same key one is lost: which, depends on the order of a HashMap.         *)
(***************************************************************************)
ProxyConfig(relays) ==
    {map \in [{trim(r.path) : r \in relays} -> {ProxyEntry(r) : r \in relays}] :
        \A key \in DOMAIN map :
            \E r \in relays : trim(r.path) = key /\ map[key] = ProxyEntry(r)}
-----------------------------------------------------------------------------
\* Mutant: the first segment alone is not tried.
ancestors_short(s) ==
    {s} \cup {SubSeq(s, 1, i - 1) : i \in {j \in 3..Len(s) : s[j] = "/"}}

\* The path, and what stands before each of its slashes.
ancestors(s) == {s} \cup {SubSeq(s, 1, i - 1) : i \in {j \in 1..Len(s) : s[j] = "/"}}

\* Mutant: the ancestors come shortest first.
longest_first(S) == CHOOSE s \in S : \A t \in S : Len(s) =< Len(t)

\* The ancestors come longest first.
longest(S) == CHOOSE s \in S : \A t \in S : Len(t) =< Len(s)

hits(map, path) == ancestors(trim_start(path)) \cap DOMAIN map

matched(map, path) == longest(hits(map, path))

entry(map, path) == map[matched(map, path)]

\* A request with two slashes in front is trimmed for the search, but not here.
Found(map, path) ==
    hits(map, path) # {} /\ IsPrefix(<<"/">> \o matched(map, path), path)

\* The path of the request to the upstream.
get(map, path) ==
    LET rest == SubSeq(path, Len(matched(map, path)) + 2, Len(path))
    IN  <<"/">> \o entry(map, path).prefix_path \o trim_start(rest)
=============================================================================
