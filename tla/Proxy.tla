------------------------------- MODULE Proxy -------------------------------
(***************************************************************************)
(* A request on its way through a chain of proxies, and its response back  *)
(* (proxy/handler.rs, and the routes of main.rs).  Every hop is a BLAHAJ   *)
(* with programs of its own, whose upstream is an application or the next  *)
(* BLAHAJ.  Requests share nothing but maps that never change, so one of   *)
(* them is enough.                                                         *)
(***************************************************************************)
EXTENDS ProxyRouting, ForwardedHeader

CONSTANTS
    Configs,    \* sets of HttpRelays a BLAHAJ may be configured with
    Paths,      \* the paths clients ask for
    Api,        \* api_scope/health and api_scope/status
    Headers,    \* the Forwarded headers clients send
    Peers,      \* addresses
    MaxHops     \* bound: BLAHAJs in the chain

ASSUME ProxyAssumption ==
    /\ "/" \notin Names
    /\ Configs \subseteq SUBSET HttpRelay
    /\ Paths \subseteq Path /\ Api \subseteq Path
    /\ Headers \subseteq Header(Peers)
    /\ MaxHops \in Nat

VARIABLES
    relays, map,        \* the programs of the BLAHAJ that has the request, and its map
    method, path,       \* of the request
    upstream,           \* the port on 127.0.0.1 that the last BLAHAJ sent it to
    forwarded, xff,     \* its headers Forwarded and X-Forwarded-For
    hops,               \* how many BLAHAJs it has passed, and its response has to pass
    response,           \* with status 0 while the request is on its way
    client, peers,      \* history: the client's Forwarded, and who the peers were
    source, at          \* history: the response as it was first made, and hops then

request == <<relays, map, method, path, upstream, forwarded, xff, client, peers>>
vars == <<request, hops, response, source, at>>

HeaderName == {"connection", "transfer-encoding", "set-cookie"}
Response == [status : {0, 200, 404, 500}, headers : [HeaderName -> Seq(1..2)]]

Bare(status) == [status |-> status, headers |-> [h \in HeaderName |-> <<>>]]

Pending == response.status = 0

\* Bound: an application sends a header not at all, or twice.
Served == [status : {200, 500}, headers : [HeaderName -> {<<>>, <<1, 2>>}]]

TypeOK ==
    /\ relays \in Configs /\ map \in ProxyConfig(relays)
    /\ method \in {"GET", "POST"} /\ path \in Path
    /\ upstream \in {0} \cup Ports
    /\ forwarded \in Header(Peers) /\ client \in Headers
    /\ xff \in Seq(Peers) /\ peers \in Seq(Peers)
    /\ hops \in 0..MaxHops /\ at \in 0..MaxHops
    /\ response \in Response /\ source \in Response

\* The client's X-Forwarded-For lists the same names as its Forwarded.
Init ==
    /\ relays \in Configs /\ map \in ProxyConfig(relays)
    /\ method \in {"GET", "POST"} /\ path \in Paths
    /\ upstream = 0
    /\ client \in Headers /\ forwarded = client
    /\ xff = NamesOf(for_(client)) /\ peers = <<>>
    /\ hops = 0
    /\ response = Bare(0) /\ source = Bare(0) /\ at = 0
-----------------------------------------------------------------------------
\* Whoever has the request answers it; n BLAHAJs are on the way back.
Answer(r, n) ==
    /\ response' = r /\ source' = r
    /\ hops' = n /\ at' = n
    /\ UNCHANGED request

\* The routes of api_scope come before the programs (see module Supervisor).
ToEndpoint == path \in Api /\ method = "GET"

Endpoint ==
    /\ Pending /\ ToEndpoint
    /\ \E status \in {200, 500} : Answer(Bare(status), hops)

NotFound ==
    /\ Pending /\ ~ToEndpoint /\ ~Found(map, path)
    /\ Answer(Bare(404), hops)

\* forward() sends the request on, with itself as the next hop's peer.
Forward ==
    /\ Pending /\ ~ToEndpoint /\ Found(map, path) /\ hops < MaxHops
    /\ path' = get(map, path) /\ upstream' = entry(map, path).port
    /\ \E peer \in Peers :
          /\ forwarded' = fmt(from_info(peer, forwarded))
          /\ xff' = Append(xff, peer)
          /\ peers' = Append(peers, peer)
    /\ hops' = hops + 1
    /\ relays' \in Configs /\ map' \in ProxyConfig(relays')
    /\ UNCHANGED <<method, response, client, source, at>>

\* The upstream is an application, which has no programs of its own.
Serve ==
    /\ Pending /\ hops > 0 /\ relays = {}
    /\ \E r \in Served : Answer(r, hops)

\* Mutant: the error is taken for one of the client's own connection.
Fail_client == Answer(Bare(500), hops - 1)

\* send_body() or body() fails: an HttpError, whatever the upstream has done.
Fail == hops > 0 /\ Answer(Bare(500), hops - 1)

\* Mutant: only the one hop-by-hop header is taken out.
outgoing_connection(headers) ==
    [h \in HeaderName |-> IF h = "connection" \/ headers[h] = <<>> THEN <<>>
                          ELSE <<headers[h][Len(headers[h])]>>]

\* The filter; and insert_header keeps the last of several values.
outgoing(headers) ==
    [h \in HeaderName |-> IF h \in {"connection", "transfer-encoding"} \/ headers[h] = <<>> THEN <<>>
                          ELSE <<headers[h][Len(headers[h])]>>]

\* The response goes back through a BLAHAJ.
Return ==
    /\ ~Pending /\ hops > 0
    /\ response' = [response EXCEPT !.headers = outgoing(@)]
    /\ hops' = hops - 1
    /\ UNCHANGED <<request, source, at>>

Next == Endpoint \/ NotFound \/ Forward \/ Serve \/ Fail \/ Return

Spec == Init /\ [][Next]_vars
-----------------------------------------------------------------------------
(* What the routing is compared with: segments instead of strings.         *)

\* No empty segments: slashes and names take turns.
Tidy(s) == \A i \in 1..Len(s) - 1 : (s[i] = "/") # (s[i + 1] = "/")

Plain(s) == s # <<>> /\ s[1] = "/" /\ Tidy(s)

\* The names of a tidy path: every other one of its parts.
Segments(s) ==
    LET first == IF s # <<>> /\ s[1] = "/" THEN 2 ELSE 1
    IN  [k \in 1..(Len(s) + 2 - first) \div 2 |-> s[2 * k - 2 + first]]

Serves(r) == IsPrefix(Segments(r.path), Segments(path))

\* "/" and the path, and anything after it, are a path again.
Joins(r) == r.path # <<>> /\ r.path[1] # "/" /\ r.path[Len(r.path)] = "/"

Beyond(r) == SubSeq(Segments(path), Len(Segments(r.path)) + 1, Len(Segments(path)))

\* What the comparison is made for: no path has an empty segment.
Comparable == Plain(path) /\ \A r \in relays : Tidy(r.path)

\* The upstream of r is asked for its prefix and the segments beyond the path of r.
AsksFor(r) ==
    LET prefix == <<"/">> \o (IF r.strip_path THEN <<>> ELSE r.path)
        rest == <<"/">> \o SubSeq(path', Len(prefix) + 1, Len(path'))
    IN  IsPrefix(prefix, path') /\ Plain(rest) /\ Segments(rest) = Beyond(r)

(***************************************************************************)
(* Property: the request is sent to the port of a program that serves its  *)
(* path and whose own path is the longest, segment by segment; and what is *)
(* asked for there is the prefix of that program (none with strip_path)    *)
(* and the rest of the segments.  With a prefix these are the segments of  *)
(* the request only if it is written as "foo/" (Joins): ProxyEntry keeps   *)
(* it as it is, and get() puts nothing in between.                         *)
(***************************************************************************)
RoutedToLongest ==
    [][hops' > hops /\ Comparable =>
          \E r \in relays :
              /\ r.port = upstream'
              /\ Serves(r)
              /\ \A q \in relays : Serves(q) => Len(Segments(q.path)) =< Len(Segments(r.path))
              /\ AsksFor(r)
              /\ ~r.strip_path /\ Joins(r) => Plain(path') /\ Segments(path') = Segments(path)]_vars

(***************************************************************************)
(* Property: NOT FOUND is only answered when no program serves the path;   *)
(* a program at the root serves the root alone.                            *)
(***************************************************************************)
NotFoundJust ==
    [][Pending /\ response'.status = 404 /\ Comparable =>
          \A r \in relays : Serves(r) => Segments(r.path) = <<>> /\ Segments(path) # <<>>]_vars

(***************************************************************************)
(* Property: whatever the number of hops, the Forwarded header lists the   *)
(* names the client sent, if all are in one part as in the forms the       *)
(* comment of from_info lists, and then the peers in their order; and it   *)
(* agrees with X-Forwarded-For, which is handled on its own.               *)
(***************************************************************************)
ForKept ==
    /\ \A i \in DOMAIN client :
          (\A j \in DOMAIN client : client[j] # <<>> <=> j = i)
             => NamesOf(for_(forwarded)) = NamesOf(client[i]) \o peers
    /\ (\A i \in DOMAIN client : client[i] = <<>>) => NamesOf(for_(forwarded)) = peers
    /\ xff = NamesOf(for_(forwarded))

(***************************************************************************)
(* Property: what comes back has the status that the BLAHAJ or application *)
(* gave it, and its headers until a BLAHAJ passes it on; from then on the  *)
(* headers of the one connection are gone, and of several values of a      *)
(* header the last is left (the loop of forward).                          *)
(***************************************************************************)
ResponseTrue ==
    ~Pending =>
        /\ response.status = source.status
        /\ IF hops = at
             THEN response.headers = source.headers
             ELSE \A h \in HeaderName :
                     LET sent == source.headers[h]
                     IN  response.headers[h] = IF h = "set-cookie" /\ sent # <<>>
                                                 THEN <<sent[Len(sent)]>> ELSE <<>>

(***************************************************************************)
(* Property (of the note on prefix_path, "this path must have its prefix   *)
(* and suffix slash trimmed"): no upstream gets a path that starts with    *)
(* two slashes.                                                            *)
(***************************************************************************)
PrefixTrimmed ==
    [][hops' > hops => ~IsPrefix(<<"/", "/">>, path')]_vars
=============================================================================
