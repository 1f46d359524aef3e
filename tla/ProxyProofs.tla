---------------------------- MODULE ProxyProofs ----------------------------
(***************************************************************************)
(* Proofs about module Proxy, for all configurations, paths, headers and   *)
(* lengths of the chain: the types, the Forwarded header and the response. *)
(***************************************************************************)
EXTENDS Proxy, SequenceTheorems, WellFoundedInduction, TLAPS

(***************************************************************************)
(* Least and greatest elements: what the CHOOSE of for_, longest and       *)
(* trim_start rests on.                                                    *)
(***************************************************************************)

\* A set of naturals with an element has a least one.
LEMMA LeastExists ==
    ASSUME NEW T, T \subseteq Nat, T # {}
    PROVE  \E x \in T : \A y \in T : x =< y
<1> DEFINE R == OpToRel(<, Nat)
<1>1. IsWellFoundedOn(R, Nat)
  BY NatLessThanWellFounded
<1> HIDE DEF R
<1>2. PICK x \in T : \A y \in T : ~(<<y, x>> \in R)
  BY <1>1, WFMin
<1>3. ASSUME NEW y \in T, y < x PROVE <<y, x>> \in R
  BY <1>3 DEF R, OpToRel
<1>4. ASSUME NEW y \in T PROVE x =< y
  <2>1. ~(y < x)
    BY <1>2, <1>3
  <2>2. x \in Nat /\ y \in Nat
    OBVIOUS
  <2> QED BY <2>1, <2>2
<1> QED BY <1>4

\* A bounded one has a greatest.
LEMMA GreatestExists ==
    ASSUME NEW k \in Nat, NEW T, T \subseteq 0..k, T # {}
    PROVE  \E x \in T : \A y \in T : y =< x
<1> DEFINE U == {k - y : y \in T}
<1>1. U \subseteq Nat /\ U # {}
  <2>1. ASSUME NEW y \in T PROVE k - y \in Nat
    OBVIOUS
  <2>2. PICK y \in T : TRUE
    OBVIOUS
  <2>3. k - y \in U
    OBVIOUS
  <2> QED BY <2>1, <2>3
<1>2. PICK u \in U : \A v \in U : u =< v
  BY <1>1, LeastExists
<1>3. PICK x \in T : u = k - x
  OBVIOUS
<1>4. ASSUME NEW y \in T PROVE y =< x
  <2>1. k - y \in U
    OBVIOUS
  <2>2. k - x =< k - y
    BY <1>2, <1>3, <2>1
  <2>3. x \in Nat /\ y \in Nat
    OBVIOUS
  <2> HIDE DEF U
  <2> QED BY <2>2, <2>3
<1> QED BY <1>4
-----------------------------------------------------------------------------
(* The Forwarded header.                                                   *)

\* What for_ finds is a list of elements of the header.
LEMMA ForType ==
    ASSUME NEW header \in Header(Peers)
    PROVE  for_(header) \in Seq(Element(Peers))
<1> DEFINE some == {i \in DOMAIN header : header[i] # <<>>}
<1>1. CASE some = {}
  BY <1>1 DEF for_
<1>2. CASE some # {}
  <2>1. some \subseteq Nat
    BY DEF Header
  <2>2. \E i \in some : \A j \in some : i =< j
    BY <1>2, <2>1, LeastExists
  <2> DEFINE first == CHOOSE i \in some : \A j \in some : i =< j
  <2>3. first \in some
    BY <2>2
  <2>4. for_(header) = header[first]
    BY <1>2 DEF for_
  <2> HIDE DEF first
  <2> QED BY <2>3, <2>4 DEF Header
<1> QED BY <1>1, <1>2

\* A header with one part that has a for= is read as that part.
LEMMA ForOnePart ==
    ASSUME NEW header \in Header(Peers), NEW i \in DOMAIN header,
           \A j \in DOMAIN header : header[j] # <<>> <=> j = i
    PROVE  for_(header) = header[i]
<1> DEFINE some == {j \in DOMAIN header : header[j] # <<>>}
<1>1. some = {i} /\ i \in Nat
  BY DEF Header
<1>2. (CHOOSE k \in some : \A j \in some : k =< j) = i
  BY <1>1
<1> QED BY <1>1, <1>2 DEF for_

\* What a BLAHAJ writes, and the next one reads: the names stay.
LEMMA FmtRead ==
    ASSUME NEW fors \in Seq(Element(Peers)), fors # <<>>
    PROVE  /\ fmt(fors) \in Header(Peers)
           /\ NamesOf(for_(fmt(fors))) = NamesOf(fors)
<1> DEFINE written == [i \in DOMAIN fors |->
                          [fors[i] EXCEPT !.blanks = IF i = 1 THEN @ ELSE @ + 1]]
<1>1. DOMAIN written = 1..Len(fors) /\ Len(fors) \in Nat
  OBVIOUS
<1>2. ASSUME NEW i \in 1..Len(fors)
      PROVE  written[i] \in Element(Peers) /\ written[i].name = fors[i].name
  <2>1. fors[i] \in Element(Peers)
    OBVIOUS
  <2> QED BY <2>1 DEF Element
<1>3. written \in Seq(Element(Peers)) /\ written # <<>>
  <2>1. written \in [1..Len(fors) -> Element(Peers)]
    BY <1>1, <1>2
  <2>2. Len(fors) # 0
    OBVIOUS
  <2> QED BY <1>1, <2>1, <2>2
<1>4. fmt(fors) = <<<<>>, written, <<>>, <<>>>>
  BY DEF fmt
<1>5. NamesOf(written) = NamesOf(fors)
  BY <1>1, <1>2 DEF NamesOf
<1> HIDE DEF written
<1>6. fmt(fors) \in Header(Peers)
  BY <1>3, <1>4 DEF Header
<1>7. DOMAIN fmt(fors) = 1..4 /\ fmt(fors)[2] = written
      /\ \A j \in 1..4 : fmt(fors)[j] # <<>> <=> j = 2
  BY <1>3, <1>4
<1>8. for_(fmt(fors)) = written
  BY <1>6, <1>7, ForOnePart
<1> QED BY <1>5, <1>6, <1>8

LEMMA NamesType ==
    ASSUME NEW fors \in Seq(Element(Peers))
    PROVE  /\ NamesOf(fors) \in Seq(Peers)
           /\ Len(NamesOf(fors)) = Len(fors)
           /\ \A i \in 1..Len(fors) : NamesOf(fors)[i] = fors[i].name
<1>1. Len(fors) \in Nat /\ DOMAIN fors = 1..Len(fors)
  OBVIOUS
<1>2. ASSUME NEW i \in 1..Len(fors) PROVE fors[i].name \in Peers
  <2>1. fors[i] \in Element(Peers)
    OBVIOUS
  <2> QED BY <2>1 DEF Element
<1>3. NamesOf(fors) \in [1..Len(fors) -> Peers]
  BY <1>1, <1>2 DEF NamesOf
<1>4. Len(NamesOf(fors)) = Len(fors) /\ NamesOf(fors) \in Seq(Peers)
  BY <1>1, <1>3
<1> QED BY <1>1, <1>4 DEF NamesOf

\* The peer is appended to the names.
LEMMA NamesAppend ==
    ASSUME NEW fors \in Seq(Element(Peers)), NEW peer \in Peers
    PROVE  /\ Append(fors, [name |-> peer, blanks |-> 0]) \in Seq(Element(Peers)) \ {<<>>}
           /\ NamesOf(fors) \in Seq(Peers)
           /\ NamesOf(Append(fors, [name |-> peer, blanks |-> 0])) = Append(NamesOf(fors), peer)
<1> DEFINE e == [name |-> peer, blanks |-> 0]
           longer == Append(fors, e)
<1>1. e \in Element(Peers) /\ e.name = peer
  BY DEF Element
<1> HIDE DEF e
<1>2. longer \in Seq(Element(Peers)) /\ Len(longer) = Len(fors) + 1 /\ Len(fors) \in Nat
  BY <1>1
<1>3. longer[Len(fors) + 1] = e /\ \A i \in 1..Len(fors) : longer[i] = fors[i]
  BY <1>1
<1> HIDE DEF longer
<1>4. NamesOf(longer) \in Seq(Peers)
  BY <1>2, NamesType
<1>5. NamesOf(fors) \in Seq(Peers)
  BY NamesType
<1>6. ASSUME NEW i \in 1..Len(fors) + 1
      PROVE  NamesOf(longer)[i] = Append(NamesOf(fors), peer)[i]
  <2>1. NamesOf(longer)[i] = longer[i].name
    BY <1>2, NamesType
  <2>2. CASE i \in 1..Len(fors)
    <3>1. NamesOf(fors)[i] = fors[i].name /\ Len(NamesOf(fors)) = Len(fors)
      BY <2>2, NamesType
    <3> QED BY <1>3, <1>5, <2>1, <2>2, <3>1
  <2>3. CASE i = Len(fors) + 1
    <3>1. Len(NamesOf(fors)) = Len(fors)
      BY NamesType
    <3> QED BY <1>1, <1>3, <1>5, <2>1, <2>3, <3>1
  <2>4. i \in 1..Len(fors) \/ i = Len(fors) + 1
    BY <1>2
  <2> QED BY <2>2, <2>3, <2>4
<1>7. NamesOf(longer) = Append(NamesOf(fors), peer)
  <2>1. Len(NamesOf(longer)) = Len(fors) + 1 /\ Len(NamesOf(fors)) = Len(fors)
    BY <1>2, NamesType
  <2>2. Append(NamesOf(fors), peer) \in Seq(Peers)
        /\ Len(Append(NamesOf(fors), peer)) = Len(fors) + 1
    BY <1>5, <2>1
  <2> QED BY <1>4, <1>6, <2>1, <2>2, SeqEqual
<1>8. longer # <<>>
  BY <1>2
<1>9. longer \in Seq(Element(Peers)) \ {<<>>}
  BY <1>2, <1>8
<1>10. longer = Append(fors, [name |-> peer, blanks |-> 0])
  BY DEF longer, e
<1> QED BY <1>5, <1>7, <1>9, <1>10, Zenon
-----------------------------------------------------------------------------
(* The invariant about the headers.                                        *)

HeaderInv ==
    /\ client \in Header(Peers) /\ peers \in Seq(Peers)
    /\ forwarded \in Header(Peers)
    /\ NamesOf(for_(forwarded)) = NamesOf(for_(client)) \o peers
    /\ xff = NamesOf(for_(forwarded))

LEMMA HeaderInit == Init => HeaderInv
<1> SUFFICES ASSUME Init PROVE HeaderInv
  OBVIOUS
<1>1. client \in Header(Peers) /\ forwarded = client /\ peers = <<>>
      /\ xff = NamesOf(for_(client))
  BY ProxyAssumption DEF Init
<1>2. NamesOf(for_(client)) \in Seq(Peers)
  BY <1>1, ForType, NamesType
<1>3. NamesOf(for_(client)) \o <<>> = NamesOf(for_(client))
  BY <1>2
<1> QED BY <1>1, <1>3 DEF HeaderInv

LEMMA HeaderStep == HeaderInv /\ [Next]_vars => HeaderInv'
<1> SUFFICES ASSUME HeaderInv, [Next]_vars PROVE HeaderInv'
  OBVIOUS
<1>1. CASE UNCHANGED request
  BY <1>1 DEF HeaderInv, request
<1>2. CASE Forward
  <2>1. PICK peer \in Peers :
            /\ forwarded' = fmt(from_info(peer, forwarded))
            /\ xff' = Append(xff, peer)
            /\ peers' = Append(peers, peer)
    BY <1>2 DEF Forward
  <2> DEFINE fors == for_(forwarded)
             longer == Append(fors, [name |-> peer, blanks |-> 0])
             names == NamesOf(for_(client))
  <2>2. client' = client
    BY <1>2 DEF Forward
  <2>3. fors \in Seq(Element(Peers)) /\ names \in Seq(Peers)
    BY ForType, NamesType DEF HeaderInv
  <2>4. longer \in Seq(Element(Peers)) /\ longer # <<>>
        /\ NamesOf(longer) = Append(NamesOf(fors), peer)
    BY <2>3, NamesAppend
  <2>5. forwarded' = fmt(longer)
    BY <2>1 DEF from_info
  <2> HIDE DEF longer
  <2>6. forwarded' \in Header(Peers) /\ NamesOf(for_(forwarded')) = NamesOf(longer)
    BY <2>4, <2>5, FmtRead
  <2>7. NamesOf(fors) = names \o peers /\ peers \in Seq(Peers) /\ xff = NamesOf(fors)
    BY DEF HeaderInv
  <2> HIDE DEF fors, names
  <2>8. Append(names \o peers, peer) = names \o Append(peers, peer)
    <3>1. <<peer>> \in Seq(Peers) /\ names \o peers \in Seq(Peers)
      BY <2>3, <2>7
    <3>2. (names \o peers) \o <<peer>> = names \o (peers \o <<peer>>)
      BY <2>3, <2>7, <3>1, ConcatAssociative
    <3> QED BY <2>7, <3>1, <3>2, AppendIsConcat
  <2>9. peers' \in Seq(Peers) /\ NamesOf(for_(forwarded')) = names \o peers'
    BY <2>1, <2>4, <2>6, <2>7, <2>8
  <2>10. xff' = NamesOf(for_(forwarded'))
    BY <2>1, <2>4, <2>6, <2>7
  <2>11. names = NamesOf(for_(client')) /\ client' \in Header(Peers)
    BY <2>2 DEF names, HeaderInv
  <2> QED BY <2>6, <2>9, <2>10, <2>11 DEF HeaderInv
<1>3. CASE Endpoint \/ NotFound \/ Serve \/ Fail \/ Return
  BY <1>1, <1>3 DEF Endpoint, NotFound, Serve, Fail, Return, Answer
<1> QED BY <1>1, <1>2, <1>3 DEF Next, vars

\* The header lists the client's names and then the peers, and agrees with
\* X-Forwarded-For (from_info, forward): for every number of hops.
THEOREM ForwardedIsKept == Spec => []ForKept
<1>1. HeaderInv => ForKept
  <2> SUFFICES ASSUME HeaderInv PROVE ForKept
    OBVIOUS
  <2>1. ASSUME NEW i \in DOMAIN client,
               \A j \in DOMAIN client : client[j] # <<>> <=> j = i
        PROVE  NamesOf(for_(forwarded)) = NamesOf(client[i]) \o peers
    <3>1. for_(client) = client[i]
      BY <2>1, ForOnePart DEF HeaderInv
    <3> QED BY <3>1 DEF HeaderInv
  <2>2. ASSUME \A i \in DOMAIN client : client[i] = <<>>
        PROVE  NamesOf(for_(forwarded)) = peers
    <3>1. for_(client) = <<>>
      BY <2>2 DEF for_
    <3>2. NamesOf(<<>>) = <<>>
      BY DEF NamesOf
    <3>3. <<>> \o peers = peers
      BY DEF HeaderInv
    <3> QED BY <3>1, <3>2, <3>3 DEF HeaderInv
  <2> QED BY <2>1, <2>2 DEF ForKept, HeaderInv
<1> QED BY <1>1, HeaderInit, HeaderStep, PTL DEF Spec
-----------------------------------------------------------------------------
(* The response.                                                           *)

ResponseInv ==
    /\ response \in Response /\ source \in Response
    /\ hops \in Int /\ at \in Int
    /\ ~Pending => hops =< at
    /\ ResponseTrue

LEMMA AnswerFits ==
    /\ Served \subseteq Response
    /\ \A status \in {0, 200, 404, 500} : Bare(status) \in Response
<1>1. [h \in HeaderName |-> <<>>] \in [HeaderName -> Seq(1..2)]
  OBVIOUS
<1>2. ASSUME NEW r \in Served PROVE r \in Response
  <2>1. r.status \in {200, 500} /\ r = [status |-> r.status, headers |-> r.headers]
        /\ r.headers \in [HeaderName -> {<<>>, <<1, 2>>}]
    BY DEF Served
  <2>2. r.headers \in [HeaderName -> Seq(1..2)]
    <3>1. <<>> \in Seq(1..2) /\ <<1, 2>> \in Seq(1..2)
      OBVIOUS
    <3>2. ASSUME NEW h \in HeaderName PROVE r.headers[h] \in Seq(1..2)
      <4>1. r.headers[h] = <<>> \/ r.headers[h] = <<1, 2>>
        BY <2>1
      <4> QED BY <3>1, <4>1, Zenon
    <3> QED BY <2>1, <3>2
  <2> QED BY <2>1, <2>2 DEF Response
<1>3. ASSUME NEW status \in {0, 200, 404, 500} PROVE Bare(status) \in Response
  BY <1>1 DEF Bare, Response
<1> QED BY <1>2, <1>3

LEMMA ResponseInit == Init => ResponseInv
BY AnswerFits DEF Init, ResponseInv, ResponseTrue, Pending, Bare

LEMMA ResponseStep == ResponseInv /\ [Next]_vars => ResponseInv'
<1> SUFFICES ASSUME ResponseInv, [Next]_vars PROVE ResponseInv'
  OBVIOUS
<1>1. ASSUME NEW r \in Response, NEW n \in Int, Answer(r, n) PROVE ResponseInv'
  BY <1>1 DEF Answer, ResponseInv, ResponseTrue
<1>2. CASE Endpoint \/ NotFound \/ Fail
  BY <1>1, <1>2, AnswerFits DEF Endpoint, NotFound, Fail, ResponseInv
<1>3. CASE Serve
  BY <1>1, <1>3, AnswerFits DEF Serve, ResponseInv
<1>4. CASE Forward
  BY <1>4 DEF Forward, ResponseInv, ResponseTrue, Pending
<1>5. CASE Return
  <2> DEFINE f == response.headers
             g == source.headers
  <2>1. f \in [HeaderName -> Seq(1..2)] /\ g \in [HeaderName -> Seq(1..2)]
        /\ response.status \in {0, 200, 404, 500}
    BY DEF ResponseInv, Response
  <2>2. response' = [response EXCEPT !.headers = outgoing(f)] /\ source' = source
        /\ hops' = hops - 1 /\ at' = at /\ hops \in Int /\ at \in Int /\ hops =< at
    BY <1>5 DEF Return, request, ResponseInv
  <2>3. response.status = source.status
        /\ IF hops = at
             THEN f = g
             ELSE \A h \in HeaderName :
                     f[h] = IF h = "set-cookie" /\ g[h] # <<>> THEN <<g[h][Len(g[h])]>> ELSE <<>>
    BY <1>5 DEF Return, ResponseInv, ResponseTrue
  <2> HIDE DEF f, g
  <2>4. ASSUME NEW h \in HeaderName
        PROVE  /\ outgoing(f)[h] \in Seq(1..2)
               /\ outgoing(f)[h] = IF h = "set-cookie" /\ g[h] # <<>>
                                     THEN <<g[h][Len(g[h])]>> ELSE <<>>
    <3>1. f[h] \in Seq(1..2) /\ g[h] \in Seq(1..2)
      BY <2>1
    <3>2. CASE h # "set-cookie"
      BY <3>2 DEF outgoing, HeaderName
    <3>3. CASE h = "set-cookie" /\ g[h] = <<>>
      <4>1. f[h] = <<>>
        BY <2>3, <3>3
      <4> QED BY <3>3, <4>1 DEF outgoing
    <3>4. CASE h = "set-cookie" /\ g[h] # <<>>
      <4>1. f[h] # <<>> /\ f[h][Len(f[h])] = g[h][Len(g[h])]
        <5>1. CASE f = g
          BY <3>4, <5>1
        <5>2. CASE f[h] = <<g[h][Len(g[h])]>>
          <6>1. Len(f[h]) = 1 /\ f[h][1] = g[h][Len(g[h])]
            BY <5>2
          <6> QED BY <6>1
        <5> QED BY <2>3, <3>4, <5>1, <5>2
      <4>2. outgoing(f)[h] = <<f[h][Len(f[h])]>>
        BY <3>4, <4>1 DEF outgoing
      <4>3. g[h][Len(g[h])] \in 1..2
        BY <3>1, <3>4
      <4> QED BY <3>4, <4>1, <4>2, <4>3
    <3> QED BY <3>2, <3>3, <3>4
  <2>5. outgoing(f) \in [HeaderName -> Seq(1..2)]
    BY <2>4 DEF outgoing
  <2>6. response' \in Response /\ response'.headers = outgoing(f)
        /\ response'.status = response.status
    BY <2>2, <2>5 DEF Response, ResponseInv
  <2>7. ResponseTrue'
    <3>1. hops' # at'
      BY <2>2
    <3> QED BY <2>2, <2>3, <2>4, <2>6, <3>1 DEF ResponseTrue, g
  <2> QED BY <2>2, <2>6, <2>7 DEF ResponseInv
<1>6. CASE UNCHANGED vars
  BY <1>6 DEF vars, ResponseInv, ResponseTrue, Pending
<1> QED BY <1>2, <1>3, <1>4, <1>5, <1>6 DEF Next

\* Whatever the number of hops on the way back, the client gets the status of whoever
\* answered and, once a BLAHAJ has passed the response on, the last value of each of its
\* headers but for those of the one connection, of which none is left (forward).
THEOREM ResponseIsTrue == Spec => []ResponseTrue
<1>1. ResponseInv => ResponseTrue
  BY DEF ResponseInv
<1> QED BY <1>1, ResponseInit, ResponseStep, PTL DEF Spec
-----------------------------------------------------------------------------
(* The types, of which only that of the path takes an argument.            *)

LEMMA SubSeqAt ==
    ASSUME NEW s \in Path, NEW a \in Nat \ {0}, NEW b \in 0..Len(s), a =< b + 1
    PROVE  /\ SubSeq(s, a, b) \in Path
           /\ Len(SubSeq(s, a, b)) = b + 1 - a
           /\ \A i \in 1..b + 1 - a : SubSeq(s, a, b)[i] = s[a + i - 1]
<1>1. Len(s) \in Nat /\ \A i \in a..b : s[i] \in {"/"} \cup Names
  BY DEF Path
<1> QED BY <1>1, SubSeqProperties DEF Path

\* What trim_start() takes away, and where it stops.
LEMMA TrimStartAt ==
    ASSUME NEW s \in Path
    PROVE  \E n \in 0..Len(s) :
              /\ trim_start(s) = SubSeq(s, n + 1, Len(s))
              /\ \A j \in 1..n : s[j] = "/"
              /\ n < Len(s) => s[n + 1] # "/"
<1> DEFINE front == {i \in 0..Len(s) : \A j \in 1..i : s[j] = "/"}
           n == Max(front)
<1>1. Len(s) \in Nat
  BY DEF Path
<1>2. front \subseteq 0..Len(s) /\ 0 \in front
  BY <1>1
<1>3. \E x \in front : \A y \in front : x >= y
  <2>1. front # {}
    BY <1>2
  <2> HIDE DEF front
  <2>2. \E x \in front : \A y \in front : y =< x
    BY <1>1, <1>2, <2>1, GreatestExists
  <2> QED BY <1>1, <1>2, <2>2
<1>4. n \in front /\ \A y \in front : n >= y
  <2> HIDE DEF front
  <2> QED BY <1>3 DEF Max
<1>5. n \in 0..Len(s) /\ \A j \in 1..n : s[j] = "/"
  BY <1>4
<1>6. trim_start(s) = SubSeq(s, n + 1, Len(s))
  BY DEF trim_start
<1> HIDE DEF n
<1>7. ASSUME n < Len(s), s[n + 1] = "/" PROVE FALSE
  <2>1. n + 1 \in front
    BY <1>1, <1>5, <1>7
  <2> QED BY <1>4, <1>5, <2>1
<1> QED BY <1>5, <1>6, <1>7

LEMMA TrimStartType ==
    ASSUME NEW s \in Path
    PROVE  trim_start(s) \in Path
<1>1. PICK n \in 0..Len(s) : trim_start(s) = SubSeq(s, n + 1, Len(s))
  BY TrimStartAt
<1>2. n + 1 \in Nat \ {0} /\ Len(s) \in 0..Len(s) /\ n + 1 =< Len(s) + 1
  BY DEF Path
<1> QED BY <1>1, <1>2, SubSeqAt

\* The path that matches is the key of a program, and the longest of them.
LEMMA MatchedType ==
    ASSUME NEW rs, NEW m \in ProxyConfig(rs), NEW s \in Path, hits(m, s) # {}
    PROVE  /\ matched(m, s) \in DOMAIN m /\ matched(m, s) \in Path
           /\ matched(m, s) \in hits(m, s)
           /\ \A x \in hits(m, s) : Len(x) =< Len(matched(m, s))
<1> DEFINE t == trim_start(s)
           S == hits(m, s)
           lengths == {Len(x) : x \in S}
<1>1. t \in Path /\ Len(t) \in Nat
  BY TrimStartType DEF Path
<1> HIDE DEF t
<1>2. ASSUME NEW x \in ancestors(t) PROVE x \in Path /\ Len(x) \in 0..Len(t)
  <2>1. CASE x = t
    BY <1>1, <2>1
  <2>2. CASE x # t
    <3>1. PICK i \in 1..Len(t) : x = SubSeq(t, 1, i - 1)
      BY <1>2, <2>2 DEF ancestors
    <3>2. i - 1 \in 0..Len(t)
      BY <1>1
    <3> QED BY <1>1, <3>1, <3>2 DEF Path
  <2> QED BY <2>1, <2>2
<1>3. S \subseteq ancestors(t) /\ S \subseteq DOMAIN m
  BY DEF hits, t
<1> HIDE DEF S
<1>4. lengths \subseteq 0..Len(t) /\ lengths # {}
  <2>1. S # {}
    BY DEF S
  <2> QED BY <1>2, <1>3, <2>1
<1>5. PICK l \in lengths : \A k \in lengths : k =< l
  BY <1>1, <1>4, GreatestExists
<1>6. \E x \in S : \A y \in S : Len(y) =< Len(x)
  BY <1>5
<1>7. longest(S) \in S /\ \A x \in S : Len(x) =< Len(longest(S))
  BY <1>6 DEF longest
<1>8. matched(m, s) = longest(S)
  BY DEF matched, S
<1>9. \A x \in S : Len(x) =< Len(matched(m, s))
  BY <1>7, <1>8
<1> QED BY <1>2, <1>3, <1>7, <1>8, <1>9 DEF S

\* What get() makes of a path is one.
LEMMA GetType ==
    ASSUME NEW rs \in Configs, NEW m \in ProxyConfig(rs), NEW s \in Path, Found(m, s)
    PROVE  get(m, s) \in Path /\ entry(m, s).port \in Ports
<1> DEFINE key == matched(m, s)
           rest == SubSeq(s, Len(key) + 2, Len(s))
<1>1. key \in DOMAIN m /\ key \in Path
  BY MatchedType DEF Found
<1>2. m[key].prefix_path \in Path /\ m[key].port \in Ports
  <2>1. m[key] \in {ProxyEntry(r) : r \in rs}
    BY <1>1 DEF ProxyConfig
  <2>2. PICK r \in rs : m[key] = ProxyEntry(r)
    BY <2>1
  <2>3. r \in HttpRelay
    BY ProxyAssumption
  <2> QED BY <2>2, <2>3 DEF ProxyEntry, HttpRelay, Path
<1> HIDE DEF key
<1>3. rest \in Path
  <2>1. Len(key) \in Nat /\ Len(s) \in Nat
    BY <1>1 DEF Path
  <2> QED BY <2>1 DEF Path
<1> HIDE DEF rest
<1>4. trim_start(rest) \in Path
  BY <1>3, TrimStartType
<1>5. <<"/">> \in Path
  BY DEF Path
<1>6. <<"/">> \o m[key].prefix_path \o trim_start(rest) \in Path
  BY <1>2, <1>4, <1>5 DEF Path
<1> QED BY <1>2, <1>6 DEF get, entry, key, rest

\* Where the request is, and on what path.
PlaceInv ==
    /\ relays \in Configs /\ map \in ProxyConfig(relays)
    /\ method \in {"GET", "POST"} /\ path \in Path /\ upstream \in {0} \cup Ports
    /\ client \in Headers
    /\ hops \in 0..MaxHops /\ at \in 0..MaxHops

LEMMA PlaceInit == Init => PlaceInv
BY ProxyAssumption DEF Init, PlaceInv

LEMMA PlaceStep == PlaceInv /\ [Next]_vars => PlaceInv'
<1> SUFFICES ASSUME PlaceInv, [Next]_vars PROVE PlaceInv'
  OBVIOUS
<1>1. CASE Forward
  <2>1. path' \in Path /\ upstream' \in Ports
    BY <1>1, GetType DEF Forward, PlaceInv
  <2>2. hops' \in 0..MaxHops
    BY <1>1, ProxyAssumption DEF Forward, PlaceInv
  <2> QED BY <1>1, <2>1, <2>2 DEF Forward, PlaceInv
<1>2. CASE Serve \/ Fail \/ Return \/ Endpoint \/ NotFound
  <2>1. UNCHANGED request
    BY <1>2 DEF Serve, Fail, Return, Endpoint, NotFound, Answer
  <2>2. hops' \in 0..MaxHops /\ at' \in 0..MaxHops
    BY <1>2, ProxyAssumption DEF Serve, Fail, Return, Endpoint, NotFound, Answer, PlaceInv
  <2> QED BY <2>1, <2>2 DEF PlaceInv, request
<1> QED BY <1>1, <1>2 DEF Next, PlaceInv, vars, request

\* Types, for all configurations: get() makes a path of what it is given, the
\* peers stay a list, and a response has passed no more hops than the request.
THEOREM TypeCorrect == Spec => []TypeOK
<1>1. PlaceInv /\ HeaderInv /\ ResponseInv => TypeOK
  <2> SUFFICES ASSUME PlaceInv, HeaderInv, ResponseInv PROVE TypeOK
    OBVIOUS
  <2>1. NamesOf(for_(forwarded)) \in Seq(Peers)
    BY ForType, NamesType DEF HeaderInv
  <2> QED BY <2>1 DEF PlaceInv, HeaderInv, ResponseInv, TypeOK
<1> QED BY <1>1, PlaceInit, PlaceStep, HeaderInit, HeaderStep, ResponseInit, ResponseStep, PTL DEF Spec
-----------------------------------------------------------------------------
(* Tidy paths: names and slashes take turns, and trim() leaves the names   *)
(* with one slash between any two.                                         *)

Positive == Nat \ {0}

LEMMA Halves ==
    ASSUME NEW n \in Nat
    PROVE  n \div 2 \in Nat /\ 2 * (n \div 2) =< n /\ n =< 2 * (n \div 2) + 1
OBVIOUS

LEMMA Parity ==
    ASSUME NEW n \in Positive
    PROVE  \E k \in Positive : n = 2 * k \/ n = 2 * k - 1
<1> DEFINE k == (n + 1) \div 2
<1>1. k \in Nat /\ 2 * k =< n + 1 /\ n + 1 =< 2 * k + 1
  BY Halves DEF Positive
<1> HIDE DEF k
<1>2. k \in Positive /\ (n = 2 * k \/ n = 2 * k - 1)
  BY <1>1 DEF Positive
<1> QED BY <1>2

LEMMA ReverseAt ==
    ASSUME NEW s \in Path
    PROVE  /\ Reverse(s) \in Path
           /\ Len(Reverse(s)) = Len(s)
           /\ \A i \in 1..Len(s) : Reverse(s)[i] = s[Len(s) + 1 - i]
<1>1. Len(s) \in Nat /\ \A i \in 1..Len(s) : s[i] \in {"/"} \cup Names
  BY DEF Path
<1>2. Reverse(s) \in [1..Len(s) -> {"/"} \cup Names]
  BY <1>1 DEF Reverse
<1>3. Reverse(s) \in Path /\ Len(Reverse(s)) = Len(s)
  BY <1>1, <1>2 DEF Path
<1> QED BY <1>1, <1>3 DEF Reverse

\* Where the first name of a tidy path stands.
first(s) == IF s # <<>> /\ s[1] = "/" THEN 2 ELSE 1

LEMMA TidyTurns ==
    ASSUME NEW s \in Path, Tidy(s), NEW k \in Positive
    PROVE  /\ 2 * k - 2 + first(s) \in 1..Len(s) => s[2 * k - 2 + first(s)] # "/"
           /\ 2 * k - 3 + first(s) \in 1..Len(s) => s[2 * k - 3 + first(s)] = "/"
<1> DEFINE f == first(s)
           A(i) == 2 * i - 2 + f \in 1..Len(s) => s[2 * i - 2 + f] # "/"
           B(i) == 2 * i - 3 + f \in 1..Len(s) => s[2 * i - 3 + f] = "/"
           bad == {i \in Positive : ~(A(i) /\ B(i))}
<1>1. f \in {1, 2} /\ Len(s) \in Nat
      /\ (Len(s) > 0 => (s[1] = "/" <=> f = 2))
  BY DEF first, Path
<1>2. \A i \in 1..Len(s) - 1 : (s[i] = "/") # (s[i + 1] = "/")
  BY DEF Tidy
<1> HIDE DEF f
<1>3. ASSUME bad # {} PROVE FALSE
  <2>1. bad \subseteq Nat
    BY DEF Positive
  <2>2. PICK i \in bad : \A j \in bad : i =< j
    <3> HIDE DEF bad
    <3> QED BY <1>3, <2>1, LeastExists
  <2>3. i \in Positive /\ ~(A(i) /\ B(i))
    OBVIOUS
  <2>4. CASE i = 1
    BY <1>1, <1>2, <2>3, <2>4
  <2>5. CASE i # 1
    <3>1. i - 1 \in Positive /\ i - 1 < i
      BY <2>3, <2>5 DEF Positive
    <3>2. A(i - 1)
      <4>1. i \in Nat /\ ~(i =< i - 1)
        BY <2>3 DEF Positive
      <4>2. i - 1 \notin bad
        <5> HIDE DEF bad
        <5> QED BY <2>2, <4>1
      <4> QED BY <3>1, <4>2
    <3>3. B(i)
      <4> SUFFICES ASSUME 2 * i - 3 + f \in 1..Len(s) PROVE s[2 * i - 3 + f] = "/"
        OBVIOUS
      <4>1. 2 * i - 4 + f \in 1..Len(s) - 1 /\ 2 * (i - 1) - 2 + f = 2 * i - 4 + f
            /\ (2 * i - 4 + f) + 1 = 2 * i - 3 + f
        BY <1>1, <3>1 DEF Positive
      <4>2. s[2 * i - 4 + f] # "/"
        BY <1>1, <3>2, <4>1
      <4> QED BY <1>2, <4>1, <4>2
    <3>4. A(i)
      <4> SUFFICES ASSUME 2 * i - 2 + f \in 1..Len(s) PROVE s[2 * i - 2 + f] # "/"
        OBVIOUS
      <4>1. 2 * i - 3 + f \in 1..Len(s) - 1 /\ (2 * i - 3 + f) + 1 = 2 * i - 2 + f
        BY <1>1, <3>1 DEF Positive
      <4>2. s[2 * i - 3 + f] = "/"
        BY <1>1, <3>3, <4>1
      <4> QED BY <1>2, <4>1, <4>2
    <3> QED BY <2>3, <3>3, <3>4
  <2> QED BY <2>4, <2>5
<1>4. A(k) /\ B(k)
  BY <1>3
<1> QED BY <1>4 DEF f

LEMMA SegmentsAt ==
    ASSUME NEW s \in Path
    PROVE  LET m == Len(Segments(s))
           IN  /\ m \in Nat /\ Segments(s) \in Path
               /\ 2 * m =< Len(s) + 2 - first(s) /\ Len(s) + 2 - first(s) =< 2 * m + 1
               /\ \A k \in 1..m : /\ 2 * k - 2 + first(s) \in 1..Len(s)
                                  /\ Segments(s)[k] = s[2 * k - 2 + first(s)]
<1> DEFINE f == first(s)
           n == (Len(s) + 2 - f) \div 2
<1>1. f \in {1, 2} /\ Len(s) \in Nat /\ Len(s) + 2 - f \in Nat
  BY DEF first, Path
<1>2. Segments(s) = [k \in 1..n |-> s[2 * k - 2 + f]]
  BY DEF Segments, first
<1>3. n \in Nat /\ 2 * n =< Len(s) + 2 - f /\ Len(s) + 2 - f =< 2 * n + 1
  BY <1>1, Halves
<1> HIDE DEF n, f
<1>4. ASSUME NEW k \in 1..n PROVE 2 * k - 2 + f \in 1..Len(s)
  BY <1>1, <1>3
<1>5. ASSUME NEW i \in 1..Len(s) PROVE s[i] \in {"/"} \cup Names
  BY DEF Path
<1>6. Segments(s) \in [1..n -> {"/"} \cup Names]
  BY <1>2, <1>4, <1>5
<1>7. Len(Segments(s)) = n /\ Segments(s) \in Path
  BY <1>3, <1>6 DEF Path
<1>8. \A k \in 1..n : Segments(s)[k] = s[2 * k - 2 + f]
  BY <1>2
<1> QED BY <1>3, <1>4, <1>7, <1>8 DEF f

\* trim_start() of a tidy path takes one slash at most.
LEMMA TrimStartTidy ==
    ASSUME NEW s \in Path, Tidy(s)
    PROVE  trim_start(s) = SubSeq(s, first(s), Len(s)) /\ first(s) - 1 \in 0..Len(s)
<1>1. PICK n \in 0..Len(s) : /\ trim_start(s) = SubSeq(s, n + 1, Len(s))
                             /\ \A j \in 1..n : s[j] = "/"
                             /\ n < Len(s) => s[n + 1] # "/"
  BY TrimStartAt
<1>2. Len(s) \in Nat /\ (s # <<>> <=> Len(s) > 0)
  BY DEF Path
<1>3. CASE first(s) = 1
  <2>1. Len(s) > 0 => s[1] # "/"
    BY <1>2, <1>3 DEF first
  <2>2. n = 0
    BY <1>1, <1>2, <2>1
  <2> QED BY <1>1, <1>2, <1>3, <2>2
<1>4. CASE first(s) = 2
  <2>1. Len(s) > 0 /\ s[1] = "/"
    BY <1>2, <1>4 DEF first
  <2>2. Len(s) > 1 => s[2] # "/"
    BY <1>2, <2>1 DEF Tidy
  <2>3. n = 1
    BY <1>1, <1>2, <2>1, <2>2
  <2> QED BY <1>1, <1>2, <1>4, <2>1, <2>3
<1> QED BY <1>3, <1>4 DEF first

\* trim() leaves the segments, with a slash between any two.
LEMMA TrimTidy ==
    ASSUME NEW s \in Path, Tidy(s)
    PROVE  LET m == Len(Segments(s))
               t == trim(s)
           IN  /\ t \in Path
               /\ Len(t) = IF m = 0 THEN 0 ELSE 2 * m - 1
               /\ \A k \in 1..m : t[2 * k - 1] = Segments(s)[k]
               /\ \A k \in 1..m - 1 : t[2 * k] = "/"
<1> DEFINE f == first(s)
           m == Len(Segments(s))
           u == trim_start(s)
           v == Reverse(u)
           w == trim_start(v)
           t == trim(s)
<1>1. f \in {1, 2} /\ Len(s) \in Nat /\ f - 1 \in 0..Len(s) /\ u = SubSeq(s, f, Len(s))
  BY TrimStartTidy DEF first, Path
<1>2. m \in Nat /\ 2 * m =< Len(s) + 2 - f /\ Len(s) + 2 - f =< 2 * m + 1
      /\ \A k \in 1..m : Segments(s)[k] = s[2 * k - 2 + f]
  BY SegmentsAt
<1>3. u \in Path /\ Len(u) = Len(s) + 1 - f /\ \A i \in 1..Len(u) : u[i] = s[f + i - 1]
  <2>1. f \in Nat \ {0} /\ Len(s) \in 0..Len(s) /\ f =< Len(s) + 1
    BY <1>1
  <2> HIDE DEF u, f
  <2> QED BY <1>1, <2>1, SubSeqAt
<1>4. t = Reverse(w)
  BY DEF trim
<1> HIDE DEF f, m, u, t
<1>5. Len(u) \in {2 * m - 1, 2 * m} /\ Len(u) >= 0
  <2>1. f \in {1, 2} /\ Len(s) \in Nat /\ f - 1 \in 0..Len(s)
    BY <1>1
  <2>2. m \in Nat /\ 2 * m =< Len(s) + 2 - f /\ Len(s) + 2 - f =< 2 * m + 1
    BY <1>2
  <2>3. Len(u) = Len(s) + 1 - f
    BY <1>3
  <2> QED BY <2>1, <2>2, <2>3
<1>6. ASSUME NEW k \in Positive
      PROVE  /\ 2 * k - 1 \in 1..Len(u) => u[2 * k - 1] # "/"
             /\ 2 * k \in 1..Len(u) => u[2 * k] = "/"
  <2>1. 2 * k - 2 + f \in 1..Len(s) => s[2 * k - 2 + f] # "/"
    BY TidyTurns DEF f
  <2>2. k + 1 \in Positive /\ 2 * (k + 1) - 3 + f = 2 * k - 1 + f
    BY <1>1 DEF Positive
  <2>3. 2 * (k + 1) - 3 + f \in 1..Len(s) => s[2 * (k + 1) - 3 + f] = "/"
    BY <2>2, TidyTurns DEF f
  <2>4. 2 * k - 1 + f \in 1..Len(s) => s[2 * k - 1 + f] = "/"
    BY <2>2, <2>3
  <2>5. 2 * k - 1 \in 1..Len(u) => u[2 * k - 1] = s[2 * k - 2 + f] /\ 2 * k - 2 + f \in 1..Len(s)
    BY <1>1, <1>3 DEF Positive
  <2>6. 2 * k \in 1..Len(u) => u[2 * k] = s[2 * k - 1 + f] /\ 2 * k - 1 + f \in 1..Len(s)
    BY <1>1, <1>3 DEF Positive
  <2> QED BY <2>1, <2>4, <2>5, <2>6
<1>7. v \in Path /\ Len(v) = Len(u) /\ \A i \in 1..Len(u) : v[i] = u[Len(u) + 1 - i]
  BY <1>3, ReverseAt
<1> HIDE DEF v
<1>8. PICK n \in 0..Len(v) : /\ w = SubSeq(v, n + 1, Len(v))
                             /\ \A j \in 1..n : v[j] = "/"
                             /\ n < Len(v) => v[n + 1] # "/"
  BY <1>7, TrimStartAt
<1>9. n = IF m = 0 THEN 0 ELSE Len(u) - (2 * m - 1)
  <2>1. CASE m = 0
    BY <1>5, <1>7, <1>8, <2>1
  <2>2. CASE m # 0
    <3>1. m \in Positive /\ 2 * m - 1 \in 1..Len(u)
      BY <1>2, <1>5, <2>2 DEF Positive
    <3>2. u[2 * m - 1] # "/" /\ (Len(u) = 2 * m => u[2 * m] = "/")
      BY <1>6, <3>1 DEF Positive
    <3>3. v[Len(u) - (2 * m - 1) + 1] # "/"
      BY <1>5, <1>7, <3>1, <3>2
    <3>4. Len(u) = 2 * m => v[1] = "/"
      BY <1>5, <1>7, <3>1, <3>2
    <3>5. CASE Len(u) = 2 * m - 1
      BY <1>2, <1>7, <1>8, <2>2, <3>1, <3>3, <3>5
    <3>6. CASE Len(u) = 2 * m
      BY <1>2, <1>7, <1>8, <2>2, <3>1, <3>3, <3>4, <3>6
    <3> QED BY <1>5, <3>5, <3>6
  <2> QED BY <2>1, <2>2
<1>10. w \in Path /\ Len(w) = Len(u) - n /\ \A i \in 1..Len(w) : w[i] = v[n + i]
  <2>1. n + 1 \in Nat \ {0} /\ Len(v) \in 0..Len(v) /\ n + 1 =< Len(v) + 1 /\ Len(v) \in Nat
    BY <1>7 DEF Path
  <2>2. w \in Path /\ Len(w) = Len(v) + 1 - (n + 1)
        /\ \A i \in 1..Len(v) + 1 - (n + 1) : w[i] = v[(n + 1) + i - 1]
    BY <1>7, <1>8, <2>1, SubSeqAt
  <2> QED BY <1>7, <2>1, <2>2
<1> HIDE DEF w
<1>11. t \in Path /\ Len(t) = Len(w) /\ \A i \in 1..Len(w) : t[i] = w[Len(w) + 1 - i]
  BY <1>4, <1>10, ReverseAt
<1>12. Len(t) = IF m = 0 THEN 0 ELSE 2 * m - 1
  BY <1>2, <1>5, <1>9, <1>10, <1>11
<1>13. ASSUME NEW i \in 1..Len(t) PROVE t[i] = u[i] /\ i \in 1..Len(u)
  <2>1. Len(w) + 1 - i \in 1..Len(w) /\ Len(w) = Len(u) - n /\ Len(u) \in Nat /\ n \in 0..Len(u)
    BY <1>3, <1>7, <1>8, <1>10, <1>11 DEF Path
  <2>2. t[i] = v[n + (Len(w) + 1 - i)]
    BY <1>10, <1>11, <2>1
  <2>3. n + (Len(w) + 1 - i) = Len(u) + 1 - i /\ Len(u) + 1 - i \in 1..Len(u)
    BY <2>1
  <2>4. v[Len(u) + 1 - i] = u[Len(u) + 1 - (Len(u) + 1 - i)]
    BY <1>7, <2>3
  <2>5. Len(u) + 1 - (Len(u) + 1 - i) = i /\ i \in 1..Len(u)
    BY <2>1, <2>3
  <2> QED BY <2>2, <2>3, <2>4, <2>5
<1>14. ASSUME NEW k \in 1..m PROVE t[2 * k - 1] = Segments(s)[k]
  <2>1. 2 * k - 1 \in 1..Len(t)
    BY <1>2, <1>12
  <2>2. t[2 * k - 1] = u[2 * k - 1] /\ 2 * k - 1 \in 1..Len(u)
    BY <1>13, <2>1
  <2>3. u[2 * k - 1] = s[f + (2 * k - 1) - 1]
    BY <1>3, <2>2
  <2>4. f + (2 * k - 1) - 1 = 2 * k - 2 + f
    BY <1>1, <1>2
  <2> QED BY <1>2, <2>2, <2>3, <2>4
<1>15. ASSUME NEW k \in 1..m - 1 PROVE t[2 * k] = "/"
  <2>1. 2 * k \in 1..Len(t) /\ k \in Positive
    BY <1>2, <1>12 DEF Positive
  <2> QED BY <1>6, <1>13, <2>1
<1> QED BY <1>11, <1>12, <1>14, <1>15 DEF m, t
-----------------------------------------------------------------------------
(* The routing, compared with segments.                                    *)

LEMMA PrefixAt ==
    ASSUME NEW s \in Path, NEW t \in Path
    PROVE  IsPrefix(s, t) <=> Len(s) =< Len(t) /\ \A i \in 1..Len(s) : s[i] = t[i]
<1> SUFFICES ASSUME Len(s) =< Len(t)
             PROVE  SubSeq(s, 1, Len(s)) = SubSeq(t, 1, Len(s)) <=> \A i \in 1..Len(s) : s[i] = t[i]
  BY DEF IsPrefix
<1> DEFINE a == SubSeq(s, 1, Len(s))
           b == SubSeq(t, 1, Len(s))
<1>1. Len(s) \in 0..Len(s) /\ Len(s) \in 0..Len(t) /\ 1 =< Len(s) + 1 /\ Len(s) + 1 - 1 = Len(s)
  BY DEF Path
<1>2. a \in Path /\ Len(a) = Len(s) /\ \A i \in 1..Len(s) : a[i] = s[1 + i - 1]
  BY <1>1, SubSeqAt
<1>3. b \in Path /\ Len(b) = Len(s) /\ \A i \in 1..Len(s) : b[i] = t[1 + i - 1]
  BY <1>1, SubSeqAt
<1> HIDE DEF a, b
<1>4. \A i \in 1..Len(s) : a[i] = s[i] /\ b[i] = t[i]
  BY <1>1, <1>2, <1>3
<1>5. (\A i \in 1..Len(s) : a[i] = b[i]) => a = b
  BY <1>2, <1>3, SeqEqual DEF Path
<1> QED BY <1>4, <1>5 DEF a, b

\* The path of a request, without its first slash.
LEMMA PlainAt ==
    ASSUME NEW s \in Path, Plain(s)
    PROVE  LET m == Len(Segments(s))
               t == trim_start(s)
           IN  /\ m \in Nat /\ 2 * m =< Len(s) /\ Len(s) =< 2 * m + 1 /\ Len(s) > 0
               /\ t \in Path /\ Len(t) = Len(s) - 1
               /\ \A i \in 1..Len(t) : t[i] = s[i + 1]
               /\ \A k \in 1..m : Segments(s)[k] = s[2 * k] /\ Segments(s)[k] = t[2 * k - 1]
               /\ \A k \in Positive : /\ 2 * k \in 1..Len(s) => s[2 * k] # "/"
                                      /\ 2 * k - 1 \in 1..Len(s) => s[2 * k - 1] = "/"
<1> DEFINE m == Len(Segments(s))
           t == trim_start(s)
<1>1. first(s) = 2 /\ Tidy(s) /\ Len(s) \in Nat /\ Len(s) > 0
  BY DEF Plain, first, Path
<1>2. m \in Nat /\ 2 * m =< Len(s) /\ Len(s) =< 2 * m + 1
      /\ \A k \in 1..m : 2 * k \in 1..Len(s) /\ Segments(s)[k] = s[2 * k]
  <2>1. \A k \in 1..m : 2 * k - 2 + 2 \in 1..Len(s) /\ Segments(s)[k] = s[2 * k - 2 + 2]
    BY <1>1, SegmentsAt
  <2>2. m \in Nat /\ 2 * m =< Len(s) + 2 - 2 /\ Len(s) + 2 - 2 =< 2 * m + 1
    BY <1>1, SegmentsAt
  <2>3. \A k \in 1..m : 2 * k - 2 + 2 = 2 * k
    BY <2>2
  <2> HIDE DEF m
  <2> QED BY <1>1, <2>1, <2>2, <2>3
<1>3. t = SubSeq(s, 2, Len(s))
  BY <1>1, TrimStartTidy
<1> HIDE DEF m, t
<1>4. t \in Path /\ Len(t) = Len(s) - 1 /\ \A i \in 1..Len(t) : t[i] = s[i + 1]
  <2>1. 2 \in Nat \ {0} /\ Len(s) \in 0..Len(s) /\ 2 =< Len(s) + 1
    BY <1>1
  <2>2. t \in Path /\ Len(t) = Len(s) + 1 - 2 /\ \A i \in 1..Len(s) + 1 - 2 : t[i] = s[2 + i - 1]
    BY <1>3, <2>1, SubSeqAt
  <2> QED BY <1>1, <2>2
<1>5. ASSUME NEW k \in 1..m PROVE Segments(s)[k] = t[2 * k - 1]
  <2>1. 2 * k - 1 \in 1..Len(t) /\ (2 * k - 1) + 1 = 2 * k
    BY <1>1, <1>2, <1>4
  <2> QED BY <1>2, <1>4, <2>1
<1>6. ASSUME NEW k \in Positive
      PROVE  /\ 2 * k \in 1..Len(s) => s[2 * k] # "/"
             /\ 2 * k - 1 \in 1..Len(s) => s[2 * k - 1] = "/"
  <2>1. 2 * k - 2 + 2 = 2 * k /\ 2 * k - 3 + 2 = 2 * k - 1
    BY DEF Positive
  <2>2. /\ 2 * k - 2 + 2 \in 1..Len(s) => s[2 * k - 2 + 2] # "/"
        /\ 2 * k - 3 + 2 \in 1..Len(s) => s[2 * k - 3 + 2] = "/"
    BY <1>1, TidyTurns
  <2> QED BY <2>1, <2>2
<1>7. m \in Nat /\ 2 * m =< Len(s) /\ Len(s) =< 2 * m + 1 /\ Len(s) > 0
  BY <1>1, <1>2
<1>8. \A k \in 1..m : Segments(s)[k] = s[2 * k] /\ Segments(s)[k] = t[2 * k - 1]
  BY <1>2, <1>5
<1> QED BY <1>4, <1>6, <1>7, <1>8, Zenon DEF m, t

\* ancestors() and trim() find what is a prefix segment by segment, but for the
\* root, which is found for the root alone.
LEMMA ServedByAncestor ==
    ASSUME NEW p \in Path, Tidy(p), NEW s \in Path, Plain(s)
    PROVE  trim(p) \in ancestors(trim_start(s))
             <=> /\ IsPrefix(Segments(p), Segments(s))
                 /\ Len(Segments(p)) = 0 => Len(Segments(s)) = 0
<1> DEFINE x == trim(p)
           t == trim_start(s)
           m == Len(Segments(p))
           n == Len(Segments(s))
<1>1. /\ n \in Nat /\ 2 * n =< Len(s) /\ Len(s) =< 2 * n + 1 /\ Len(s) > 0
      /\ t \in Path /\ Len(t) = Len(s) - 1
      /\ \A i \in 1..Len(t) : t[i] = s[i + 1]
      /\ \A k \in 1..n : Segments(s)[k] = t[2 * k - 1]
      /\ \A k \in Positive : /\ 2 * k \in 1..Len(s) => s[2 * k] # "/"
                             /\ 2 * k - 1 \in 1..Len(s) => s[2 * k - 1] = "/"
  BY PlainAt
<1>2. /\ x \in Path /\ Len(x) = IF m = 0 THEN 0 ELSE 2 * m - 1
      /\ \A k \in 1..m : x[2 * k - 1] = Segments(p)[k]
      /\ \A k \in 1..m - 1 : x[2 * k] = "/"
  BY TrimTidy
<1>3. m \in Nat /\ Segments(p) \in Path /\ Segments(s) \in Path
  BY SegmentsAt
<1>4. IsPrefix(Segments(p), Segments(s)) <=> m =< n /\ \A k \in 1..m : Segments(p)[k] = Segments(s)[k]
  BY <1>3, PrefixAt
<1>5. x \in ancestors(t) <=> x = t \/ \E i \in 1..Len(t) : t[i] = "/" /\ x = SubSeq(t, 1, i - 1)
  BY DEF ancestors
<1> HIDE DEF x, t, m, n
<1>6. ASSUME NEW k \in Positive, 2 * k \in 1..Len(t) PROVE t[2 * k] = "/"
  <2>1. k + 1 \in Positive /\ 2 * (k + 1) - 1 = 2 * k + 1 /\ 2 * k + 1 \in 1..Len(s)
    BY <1>1, <1>6 DEF Positive
  <2>2. s[2 * k + 1] = "/"
    BY <1>1, <2>1
  <2> QED BY <1>1, <1>6, <2>2
<1>7. ASSUME x \in ancestors(t)
      PROVE  IsPrefix(Segments(p), Segments(s)) /\ (m = 0 => n = 0)
  <2>1. Len(x) =< Len(t) /\ \A i \in 1..Len(x) : x[i] = t[i]
    <3>1. CASE x = t
      BY <1>1, <3>1
    <3>2. CASE x # t
      <4>1. PICK i \in 1..Len(t) : t[i] = "/" /\ x = SubSeq(t, 1, i - 1)
        BY <1>5, <1>7, <3>2
      <4>2. 1 \in Nat \ {0} /\ i - 1 \in 0..Len(t) /\ 1 =< (i - 1) + 1 /\ Len(t) \in Nat
            /\ (i - 1) + 1 - 1 = i - 1
        BY <1>1
      <4>3. Len(x) = i - 1 /\ \A j \in 1..i - 1 : x[j] = t[1 + j - 1]
        BY <1>1, <4>1, <4>2, SubSeqAt
      <4> QED BY <4>2, <4>3
    <3> QED BY <3>1, <3>2
  <2>2. CASE m = 0
    <3>1. Len(x) = 0 /\ Len(t) \in Nat
      BY <1>1, <1>2, <2>2
    <3>2. CASE x = t
      <4>1. Len(t) = 0
        BY <3>1, <3>2
      <4>2. n = 0
        <5>1. Len(s) \in Nat /\ n \in Nat /\ 2 * n =< Len(s) /\ Len(t) = Len(s) - 1
          BY <1>1 DEF Path
        <5>2. Len(s) = 1
          BY <4>1, <5>1
        <5>3. n \in Nat /\ 2 * n =< 1
          BY <5>1, <5>2
        <5> QED BY <5>3
      <4>3. m =< n /\ \A k \in 1..m : Segments(p)[k] = Segments(s)[k]
        BY <2>2, <4>2
      <4> QED BY <1>4, <4>2, <4>3
    <3>3. CASE x # t
      <4>1. PICK i \in 1..Len(t) : t[i] = "/" /\ x = SubSeq(t, 1, i - 1)
        BY <1>5, <1>7, <3>3
      <4>2. 1 \in Nat \ {0} /\ i - 1 \in 0..Len(t) /\ 1 =< (i - 1) + 1
        BY <3>1
      <4>3. Len(x) = (i - 1) + 1 - 1
        BY <1>1, <4>1, <4>2, SubSeqAt
      <4>4. i = 1
        BY <3>1, <4>2, <4>3
      <4>5. 1 \in Positive /\ 2 * 1 = 2 /\ 2 \in 1..Len(s) /\ t[1] = s[2]
        BY <1>1, <4>4 DEF Positive
      <4>6. s[2] # "/"
        BY <1>1, <4>5
      <4> QED BY <4>1, <4>4, <4>5, <4>6
    <3> QED BY <3>2, <3>3
  <2>3. CASE m # 0
    <3>1. Len(x) = 2 * m - 1 /\ m =< n
      BY <1>1, <1>2, <1>3, <2>1, <2>3
    <3>2. ASSUME NEW k \in 1..m PROVE Segments(p)[k] = Segments(s)[k]
      <4>1. 2 * k - 1 \in 1..Len(x) /\ k \in 1..n
        BY <1>1, <1>3, <3>1
      <4> QED BY <1>1, <1>2, <2>1, <4>1
    <3> QED BY <1>4, <2>3, <3>1, <3>2
  <2> QED BY <2>2, <2>3
<1>8. ASSUME IsPrefix(Segments(p), Segments(s)), m = 0 => n = 0
      PROVE  x \in ancestors(t)
  <2>1. CASE m = 0
    <3>1. Len(x) = 0 /\ Len(t) = 0
      BY <1>1, <1>2, <1>8, <2>1
    <3>2. x = t
      BY <1>1, <1>2, <3>1, SeqEqual DEF Path
    <3> QED BY <1>5, <3>2
  <2>2. CASE m # 0
    <3> DEFINE y == SubSeq(t, 1, 2 * m - 1)
    <3>1. m =< n /\ Len(x) = 2 * m - 1 /\ 2 * m - 1 \in 1..Len(t)
          /\ \A k \in 1..m : Segments(p)[k] = Segments(s)[k]
      BY <1>1, <1>2, <1>3, <1>4, <1>8, <2>2
    <3>2. ASSUME NEW i \in 1..Len(x) PROVE x[i] = t[i]
      <4>1. i \in Positive
        BY <3>1 DEF Positive
      <4>2. PICK k \in Positive : i = 2 * k \/ i = 2 * k - 1
        BY <4>1, Parity
      <4>3. CASE i = 2 * k - 1
        <5>1. k \in 1..m /\ k \in 1..n
          BY <1>1, <1>3, <3>1, <4>2, <4>3 DEF Positive
        <5> QED BY <1>1, <1>2, <3>1, <4>3, <5>1
      <4>4. CASE i = 2 * k
        <5>1. k \in 1..m - 1 /\ 2 * k \in 1..Len(t)
          BY <1>1, <1>3, <3>1, <4>2, <4>4 DEF Positive
        <5> QED BY <1>2, <1>6, <4>4, <5>1
      <4> QED BY <4>2, <4>3, <4>4
    <3>3. y \in Path /\ Len(y) = 2 * m - 1 /\ \A i \in 1..2 * m - 1 : y[i] = t[i]
      <4>1. 1 \in Nat \ {0} /\ 2 * m - 1 \in 0..Len(t) /\ 1 =< (2 * m - 1) + 1
            /\ (2 * m - 1) + 1 - 1 = 2 * m - 1
        BY <1>1, <1>3, <3>1
      <4>2. y \in Path /\ Len(y) = 2 * m - 1 /\ \A i \in 1..2 * m - 1 : y[i] = t[1 + i - 1]
        BY <1>1, <4>1, SubSeqAt
      <4> HIDE DEF y
      <4> QED BY <1>3, <4>2
    <3> HIDE DEF y
    <3>4. x = y
      BY <1>2, <3>1, <3>2, <3>3, SeqEqual DEF Path
    <3>5. CASE Len(t) = 2 * m - 1
      <4>1. x = t
        BY <1>1, <1>2, <3>1, <3>2, <3>5, SeqEqual DEF Path
      <4> QED BY <1>5, <4>1
    <3>6. CASE Len(t) # 2 * m - 1
      <4>1. 2 * m \in 1..Len(t) /\ m \in Positive /\ 2 * m - 1 = (2 * m) - 1
        BY <1>1, <1>3, <3>1, <3>6 DEF Positive
      <4>2. t[2 * m] = "/"
        BY <1>6, <4>1
      <4> QED BY <1>5, <3>4, <4>1, <4>2 DEF y
    <3> QED BY <3>5, <3>6
  <2> QED BY <2>1, <2>2
<1> QED BY <1>7, <1>8 DEF x, t, m, n
-----------------------------------------------------------------------------
(* What the upstream is asked for.                                         *)

\* The length of what is left of s behind j segments: at least `least'.
LengthOf(z, s, j, least) ==
    /\ Len(s) =< 2 * j + 1 => Len(z) = least
    /\ Len(s) > 2 * j + 1 => Len(z) = Len(s) - 2 * j - 1 + least

\* The part of the path behind its first j segments, as get() takes it.
LEMMA RestAt ==
    ASSUME NEW s \in Path, Plain(s), NEW j \in 0..Len(Segments(s)),
           j = 0 => Len(Segments(s)) = 0
    PROVE  LET z == trim_start(SubSeq(s, (IF j = 0 THEN 0 ELSE 2 * j - 1) + 2, Len(s)))
           IN  /\ z \in Path
               /\ LengthOf(z, s, j, 0)
               /\ \A i \in 1..Len(z) : z[i] = s[2 * j + 1 + i]
<1> DEFINE m == Len(Segments(s))
           a == (IF j = 0 THEN 0 ELSE 2 * j - 1) + 2
           rest == SubSeq(s, a, Len(s))
           z == trim_start(rest)
<1>1. m \in Nat /\ 2 * m =< Len(s) /\ Len(s) =< 2 * m + 1 /\ Len(s) > 0
      /\ \A k \in Positive : /\ 2 * k \in 1..Len(s) => s[2 * k] # "/"
                             /\ 2 * k - 1 \in 1..Len(s) => s[2 * k - 1] = "/"
  BY PlainAt
<1>2. j \in 0..m /\ (j = 0 => m = 0)
  OBVIOUS
<1> HIDE DEF m
<1>3. a \in Nat \ {0} /\ Len(s) \in 0..Len(s) /\ a =< Len(s) + 1
  BY <1>1, <1>2
<1>4. rest \in Path /\ Len(rest) = Len(s) + 1 - a
      /\ \A i \in 1..Len(s) + 1 - a : rest[i] = s[a + i - 1]
  <2> HIDE DEF a
  <2> QED BY <1>3, SubSeqAt
<1> HIDE DEF rest
<1>5. ASSUME j = 0
      PROVE  z \in Path /\ Len(z) = 0 /\ Len(s) = 1
  <2>1. Len(rest) = 0 /\ Len(s) = 1
    BY <1>1, <1>2, <1>4, <1>5
  <2>2. PICK n \in 0..Len(rest) : z = SubSeq(rest, n + 1, Len(rest))
    BY <1>4, TrimStartAt
  <2>3. n = 0 /\ 1 \in Nat \ {0} /\ Len(rest) \in 0..Len(rest) /\ 1 =< Len(rest) + 1
    BY <2>1, <2>2
  <2>4. z = SubSeq(rest, 1, Len(rest))
    BY <2>2, <2>3
  <2> HIDE DEF z
  <2>5. z \in Path /\ Len(z) = Len(rest) + 1 - 1
    BY <1>4, <2>3, <2>4, SubSeqAt
  <2> QED BY <2>1, <2>5
<1>6. ASSUME j # 0
      PROVE  /\ z \in Path
             /\ LengthOf(z, s, j, 0)
             /\ \A i \in 1..Len(z) : z[i] = s[2 * j + 1 + i]
  <2>1. a = 2 * j + 1 /\ Len(rest) = Len(s) - 2 * j /\ Len(rest) \in Nat
    BY <1>1, <1>2, <1>4, <1>6
  <2>2. \A i \in 1..Len(rest) : rest[i] = s[2 * j + i]
    BY <1>1, <1>2, <1>4, <2>1
  <2>3. Tidy(rest)
    <3> SUFFICES ASSUME NEW i \in 1..Len(rest) - 1
                 PROVE  (rest[i] = "/") # (rest[i + 1] = "/")
      BY DEF Tidy
    <3>1. 2 * j + i \in 1..Len(s) - 1 /\ (2 * j + i) + 1 = 2 * j + (i + 1)
          /\ i \in 1..Len(rest) /\ i + 1 \in 1..Len(rest)
      BY <1>1, <1>2, <2>1
    <3>2. (s[2 * j + i] = "/") # (s[(2 * j + i) + 1] = "/")
      BY <3>1 DEF Plain, Tidy
    <3> QED BY <2>2, <3>1, <3>2
  <2>4. z = SubSeq(rest, first(rest), Len(rest)) /\ first(rest) - 1 \in 0..Len(rest)
    BY <1>4, <2>3, TrimStartTidy
  <2>5. first(rest) = IF Len(rest) = 0 THEN 1 ELSE 2
    <3>1. CASE Len(rest) = 0
      BY <1>4, <3>1 DEF first, Path
    <3>2. CASE Len(rest) # 0
      <4>1. j + 1 \in Positive /\ 2 * (j + 1) - 1 = 2 * j + 1 /\ 2 * j + 1 \in 1..Len(s)
            /\ 1 \in 1..Len(rest)
        BY <1>1, <1>2, <2>1, <3>2 DEF Positive
      <4>2. rest[1] = "/" /\ rest # <<>>
        BY <1>1, <2>1, <2>2, <3>2, <4>1
      <4> QED BY <3>2, <4>2 DEF first
    <3> QED BY <3>1, <3>2
  <2>6. first(rest) \in Nat \ {0} /\ Len(rest) \in 0..Len(rest) /\ first(rest) =< Len(rest) + 1
    BY <2>1, <2>5
  <2>7. z \in Path /\ Len(z) = Len(rest) + 1 - first(rest)
        /\ \A i \in 1..Len(rest) + 1 - first(rest) : z[i] = rest[first(rest) + i - 1]
    <3> HIDE DEF z
    <3> QED BY <1>4, <2>4, <2>6, SubSeqAt
  <2> HIDE DEF z
  <2>8. LengthOf(z, s, j, 0)
    <3>1. j \in Nat /\ Len(s) \in Nat /\ Len(rest) = Len(s) - 2 * j /\ Len(rest) \in Nat
      BY <1>1, <1>2, <2>1
    <3>2. Len(z) = Len(rest) + 1 - first(rest)
      BY <2>7
    <3>3. Len(rest) = 0 => Len(z) = 0
      BY <2>5, <3>2
    <3>4. Len(rest) # 0 => Len(z) = Len(rest) - 1
      BY <2>5, <3>1, <3>2
    <3> QED BY <3>1, <3>3, <3>4 DEF LengthOf
  <2>9. ASSUME NEW i \in 1..Len(z) PROVE z[i] = s[2 * j + 1 + i]
    <3>1. first(rest) = 2 /\ i + 1 \in 1..Len(rest) /\ 2 + i - 1 = i + 1
          /\ 2 * j + (i + 1) = 2 * j + 1 + i
      BY <1>2, <2>1, <2>5, <2>7, <2>9
    <3>2. z[i] = rest[2 + i - 1]
      BY <2>7, <2>9, <3>1
    <3> QED BY <2>2, <3>1, <3>2
  <2> QED BY <2>7, <2>8, <2>9
<1> HIDE DEF z
<1>7. z \in Path
  BY <1>5, <1>6
<1>8. LengthOf(z, s, j, 0)
  <2>1. j = 0 => LengthOf(z, s, j, 0)
    BY <1>5 DEF LengthOf
  <2> QED BY <1>6, <2>1
<1>9. \A i \in 1..Len(z) : z[i] = s[2 * j + 1 + i]
  BY <1>5, <1>6
<1> QED BY <1>7, <1>8, <1>9 DEF z, rest

\* A path given part by part is plain, and has the segments it should have.
LEMMA PlainFrom ==
    ASSUME NEW s \in Path, Plain(s), NEW j \in 0..Len(Segments(s)), NEW y \in Path,
           LengthOf(y, s, j, 1),
           \A i \in 1..Len(y) : 2 * j + i =< Len(s) => y[i] = s[2 * j + i],
           y[1] = "/"
    PROVE  Plain(y) /\ Segments(y) = SubSeq(Segments(s), j + 1, Len(Segments(s)))
<1> DEFINE m == Len(Segments(s))
           e == SubSeq(Segments(s), j + 1, m)
<1>1. m \in Nat /\ 2 * m =< Len(s) /\ Len(s) =< 2 * m + 1 /\ Len(s) > 0
      /\ \A k \in 1..m : Segments(s)[k] = s[2 * k]
  BY PlainAt
<1>2. Segments(s) \in Path
  BY SegmentsAt
<1>3. j \in 0..m
  OBVIOUS
<1>4. e \in Path /\ Len(e) = m - j /\ \A k \in 1..m - j : e[k] = Segments(s)[j + k]
  <2>1. j + 1 \in Nat \ {0} /\ m \in 0..m /\ j + 1 =< m + 1
    BY <1>1, <1>3
  <2>2. e \in Path /\ Len(e) = m + 1 - (j + 1)
        /\ \A k \in 1..m + 1 - (j + 1) : e[k] = Segments(s)[(j + 1) + k - 1]
    BY <1>2, <2>1, SubSeqAt
  <2> HIDE DEF m, e
  <2>3. m + 1 - (j + 1) = m - j /\ \A k \in Nat : (j + 1) + k - 1 = j + k
    BY <1>1, <1>3
  <2>4. \A k \in 1..m - j : k \in Nat
    BY <1>1, <1>3
  <2> QED BY <2>2, <2>3, <2>4
<1> HIDE DEF m, e
<1>5. Len(y) > 0 /\ y # <<>>
  BY <1>1, <1>3 DEF Path, LengthOf
<1>6. Plain(y)
  <2>1. ASSUME NEW i \in 1..Len(y) - 1 PROVE (y[i] = "/") # (y[i + 1] = "/")
    <3>1. 2 * j + i \in 1..Len(s) - 1 /\ (2 * j + i) + 1 = 2 * j + (i + 1)
          /\ i \in 1..Len(y) /\ i + 1 \in 1..Len(y)
      <4>1. j \in Nat /\ Len(s) \in Nat /\ Len(y) \in Nat /\ Len(y) > 1
        BY <1>1, <1>3, <1>5
      <4>2. Len(s) > 2 * j + 1 => Len(y) = Len(s) - 2 * j - 1 + 1
        BY DEF LengthOf
      <4>3. Len(s) > 2 * j + 1
        <5>1. Len(s) =< 2 * j + 1 => Len(y) = 1
          BY DEF LengthOf
        <5>2. ~(Len(s) =< 2 * j + 1)
          <6>1. Len(y) # 1
            BY <4>1
          <6> QED BY <5>1, <6>1
        <5>3. j \in Nat /\ Len(s) \in Nat
          BY <4>1
        <5> QED BY <5>2, <5>3
      <4> QED BY <4>1, <4>2, <4>3
    <3>2. y[i] = s[2 * j + i] /\ y[i + 1] = s[2 * j + (i + 1)]
      BY <1>1, <1>3, <3>1
    <3>3. (s[2 * j + i] = "/") # (s[(2 * j + i) + 1] = "/")
      BY <3>1 DEF Plain, Tidy
    <3> QED BY <3>1, <3>2, <3>3
  <2> QED BY <1>5, <2>1 DEF Plain, Tidy
<1>7. /\ Len(Segments(y)) \in Nat /\ 2 * Len(Segments(y)) =< Len(y) /\ Len(y) =< 2 * Len(Segments(y)) + 1
      /\ \A k \in 1..Len(Segments(y)) : Segments(y)[k] = y[2 * k]
  BY <1>6, PlainAt
<1>8. Len(Segments(y)) = m - j
  <2>1. CASE Len(s) =< 2 * j + 1
    <3>1. m \in Nat /\ j \in 0..m /\ 2 * m =< Len(s) /\ Len(s) =< 2 * m + 1
      BY <1>1, <1>3
    <3>2. Len(y) = 1
      BY <2>1 DEF LengthOf
    <3>3. Len(Segments(y)) = 0
      BY <1>7, <3>2
    <3>4. m = j
      BY <2>1, <3>1
    <3> QED BY <3>1, <3>3, <3>4
  <2>2. CASE Len(s) > 2 * j + 1
    <3>1. m \in Nat /\ j \in 0..m /\ 2 * m =< Len(s) /\ Len(s) =< 2 * m + 1
      BY <1>1, <1>3
    <3>2. Len(Segments(y)) \in Nat
          /\ 2 * Len(Segments(y)) =< Len(y) /\ Len(y) =< 2 * Len(Segments(y)) + 1
      BY <1>7
    <3>3. Len(y) = Len(s) - 2 * j
      BY <2>2, <3>1 DEF LengthOf
    <3> QED BY <3>1, <3>2, <3>3
  <2> QED BY <1>1, <1>3, <2>1, <2>2
<1>9. ASSUME NEW k \in 1..m - j PROVE Segments(y)[k] = e[k]
  <2>1. 2 * k \in 1..Len(y) /\ 2 * j + 2 * k =< Len(s) /\ 2 * j + 2 * k = 2 * (j + k)
        /\ j + k \in 1..m
    BY <1>1, <1>3, <1>7, <1>8
  <2>2. y[2 * k] = s[2 * (j + k)]
    BY <2>1
  <2> QED BY <1>1, <1>4, <1>7, <1>8, <2>1, <2>2
<1>10. Segments(y) \in Path
  BY SegmentsAt
<1>11. Segments(y) = e
  BY <1>4, <1>8, <1>9, <1>10, SeqEqual DEF Path
<1> QED BY <1>6, <1>11 DEF e, m

LEMMA ConcatAt ==
    ASSUME NEW s \in Path, NEW t \in Path
    PROVE  /\ s \o t \in Path /\ Len(s \o t) = Len(s) + Len(t)
           /\ \A i \in 1..Len(s) : (s \o t)[i] = s[i]
           /\ \A i \in 1..Len(t) : (s \o t)[Len(s) + i] = t[i]
BY DEF Path

\* With strip_path the upstream gets the rest of the segments.
LEMMA Stripped ==
    ASSUME NEW s \in Path, Plain(s), NEW j \in 0..Len(Segments(s)),
           j = 0 => Len(Segments(s)) = 0
    PROVE  LET a == (IF j = 0 THEN 0 ELSE 2 * j - 1) + 2
               y == <<"/">> \o <<>> \o trim_start(SubSeq(s, a, Len(s)))
           IN  Plain(y) /\ Segments(y) = SubSeq(Segments(s), j + 1, Len(Segments(s)))
<1> DEFINE z == trim_start(SubSeq(s, (IF j = 0 THEN 0 ELSE 2 * j - 1) + 2, Len(s)))
           y == <<"/">> \o <<>> \o z
<1>1. /\ z \in Path
      /\ LengthOf(z, s, j, 0)
      /\ \A i \in 1..Len(z) : z[i] = s[2 * j + 1 + i]
  BY RestAt
<1>2. Len(Segments(s)) \in Nat /\ Len(s) \in Nat
      /\ \A k \in Positive : 2 * k - 1 \in 1..Len(s) => s[2 * k - 1] = "/"
  BY PlainAt
<1> HIDE DEF z
<1>3. <<"/">> \o <<>> \in Path /\ Len(<<"/">> \o <<>>) = 1 /\ (<<"/">> \o <<>>)[1] = "/"
  BY DEF Path
<1>4. y \in Path /\ Len(y) = 1 + Len(z) /\ y[1] = "/" /\ \A i \in 1..Len(z) : y[1 + i] = z[i]
  <2> DEFINE x == <<"/">> \o <<>>
  <2>1. x \in Path /\ Len(x) = 1 /\ x[1] = "/" /\ y = x \o z /\ 1 \in 1..1
    BY <1>3
  <2> HIDE DEF x, y
  <2>2. /\ x \o z \in Path /\ Len(x \o z) = Len(x) + Len(z)
        /\ \A i \in 1..Len(x) : (x \o z)[i] = x[i]
        /\ \A i \in 1..Len(z) : (x \o z)[Len(x) + i] = z[i]
    BY <1>1, <2>1, ConcatAt
  <2> QED BY <2>1, <2>2
<1> HIDE DEF y
<1>5. LengthOf(y, s, j, 1)
  BY <1>1, <1>2, <1>4 DEF LengthOf
<1>6. ASSUME NEW i \in 1..Len(y), 2 * j + i =< Len(s) PROVE y[i] = s[2 * j + i]
  <2>1. CASE i = 1
    <3>1. j + 1 \in Positive /\ 2 * (j + 1) - 1 = 2 * j + i /\ 2 * (j + 1) - 1 \in 1..Len(s)
      BY <1>2, <1>6, <2>1 DEF Positive
    <3>2. s[2 * (j + 1) - 1] = "/"
      BY <1>2, <3>1
    <3> QED BY <1>4, <2>1, <3>1, <3>2
  <2>2. CASE i # 1
    <3>1. i - 1 \in 1..Len(z) /\ 1 + (i - 1) = i /\ 2 * j + 1 + (i - 1) = 2 * j + i
      BY <1>1, <1>2, <1>4, <2>2
    <3> QED BY <1>1, <1>4, <3>1
  <2> QED BY <2>1, <2>2
<1>7. Plain(y) /\ Segments(y) = SubSeq(Segments(s), j + 1, Len(Segments(s)))
  BY <1>4, <1>5, <1>6, PlainFrom
<1> QED BY <1>7 DEF y, z

\* Without it, a path "foo/" in front of the rest makes the whole path again.
LEMMA NotStripped ==
    ASSUME NEW s \in Path, Plain(s),
           NEW p \in Path, Tidy(p), p # <<>>, p[1] # "/", p[Len(p)] = "/",
           IsPrefix(Segments(p), Segments(s))
    PROVE  LET j == Len(Segments(p))
               y == <<"/">> \o p \o trim_start(SubSeq(s, (2 * j - 1) + 2, Len(s)))
           IN  j # 0 /\ Plain(y) /\ Segments(y) = Segments(s)
<1> DEFINE j == Len(Segments(p))
           m == Len(Segments(s))
           z == trim_start(SubSeq(s, (2 * j - 1) + 2, Len(s)))
           y == <<"/">> \o p \o z
<1>1. first(p) = 1 /\ Len(p) \in Nat /\ Len(p) > 0
  BY DEF first, Path
<1>2. j \in Nat /\ Segments(p) \in Path /\ 2 * j =< Len(p) + 1 /\ Len(p) + 1 =< 2 * j + 1
      /\ \A k \in 1..j : Segments(p)[k] = p[2 * k - 1]
  <2>1. j \in Nat /\ Segments(p) \in Path /\ 2 * j =< Len(p) + 2 - 1
        /\ Len(p) + 2 - 1 =< 2 * j + 1
        /\ \A k \in 1..j : Segments(p)[k] = p[2 * k - 2 + 1]
    BY <1>1, SegmentsAt
  <2> HIDE DEF j
  <2>2. \A k \in 1..j : 2 * k - 2 + 1 = 2 * k - 1
    BY <2>1
  <2> QED BY <1>1, <2>1, <2>2
<1>3. ASSUME NEW k \in Positive
      PROVE  /\ 2 * k - 1 \in 1..Len(p) => p[2 * k - 1] # "/"
             /\ 2 * k \in 1..Len(p) => p[2 * k] = "/"
  <2>1. k + 1 \in Positive /\ 2 * (k + 1) - 3 + 1 = 2 * k /\ 2 * k - 2 + 1 = 2 * k - 1
    BY DEF Positive
  <2>2. 2 * k - 2 + 1 \in 1..Len(p) => p[2 * k - 2 + 1] # "/"
    BY <1>1, TidyTurns
  <2>3. 2 * (k + 1) - 3 + 1 \in 1..Len(p) => p[2 * (k + 1) - 3 + 1] = "/"
    BY <1>1, <2>1, TidyTurns
  <2> QED BY <2>1, <2>2, <2>3
<1>4. /\ m \in Nat /\ Segments(s) \in Path /\ 2 * m =< Len(s) /\ Len(s) =< 2 * m + 1
      /\ \A k \in 1..m : Segments(s)[k] = s[2 * k]
      /\ \A k \in Positive : 2 * k - 1 \in 1..Len(s) => s[2 * k - 1] = "/"
  BY PlainAt, SegmentsAt
<1>5. j =< m /\ \A k \in 1..j : Segments(p)[k] = Segments(s)[k]
  BY <1>2, <1>4, PrefixAt
<1>6. j # 0
  <2> HIDE DEF j
  <2> QED BY <1>1, <1>2
<1>7. j \in 0..m /\ (IF j = 0 THEN 0 ELSE 2 * j - 1) = 2 * j - 1
  <2> HIDE DEF j, m
  <2> QED BY <1>2, <1>4, <1>5, <1>6
<1>8. /\ z \in Path
      /\ LengthOf(z, s, j, 0)
      /\ \A i \in 1..Len(z) : z[i] = s[2 * j + 1 + i]
  BY <1>6, <1>7, RestAt
<1> HIDE DEF z, j, m
<1>9. Len(p) = 2 * j
  <2>1. Len(p) \in {2 * j - 1, 2 * j}
    BY <1>1, <1>2
  <2>2. Len(p) # 2 * j - 1
    <3>1. j \in Positive
      BY <1>2, <1>6 DEF Positive
    <3> QED BY <1>1, <1>3, <3>1
  <2> QED BY <2>1, <2>2
<1>10. /\ y \in Path /\ Len(y) = 1 + 2 * j + Len(z) /\ y[1] = "/"
       /\ \A i \in 1..2 * j : y[1 + i] = p[i]
       /\ \A i \in 1..Len(z) : y[1 + 2 * j + i] = z[i]
  <2> DEFINE x == <<"/">> \o p
  <2>1. <<"/">> \in Path /\ Len(<<"/">>) = 1
    BY DEF Path
  <2>2. x \in Path /\ Len(x) = 1 + 2 * j /\ x[1] = "/" /\ \A i \in 1..2 * j : x[1 + i] = p[i]
    BY <1>9, <2>1, ConcatAt
  <2> HIDE DEF x, y
  <2>3. /\ x \o z \in Path /\ Len(x \o z) = 1 + 2 * j + Len(z)
        /\ \A i \in 1..1 + 2 * j : (x \o z)[i] = x[i]
        /\ \A i \in 1..Len(z) : (x \o z)[1 + 2 * j + i] = z[i]
    <3>1. /\ x \o z \in Path /\ Len(x \o z) = Len(x) + Len(z)
          /\ \A i \in 1..Len(x) : (x \o z)[i] = x[i]
          /\ \A i \in 1..Len(z) : (x \o z)[Len(x) + i] = z[i]
      BY <1>8, <2>2, ConcatAt
    <3> QED BY <2>2, <3>1
  <2>4. y = x \o z
    BY DEF x, y
  <2>5. \A i \in 1..2 * j : 1 + i \in 1..1 + 2 * j
    BY <1>2
  <2>6. 1 \in 1..1 + 2 * j
    BY <1>2
  <2> QED BY <2>2, <2>3, <2>4, <2>5, <2>6
<1> HIDE DEF y
<1>11. ASSUME NEW i \in 1..Len(y), i =< Len(s) PROVE y[i] = s[i]
  <2>1. i \in Positive /\ Len(y) \in Nat /\ Len(s) \in Nat /\ Len(z) \in Nat
    BY <1>8, <1>10 DEF Positive, Path
  <2>2. PICK k \in Positive : i = 2 * k \/ i = 2 * k - 1
    BY <2>1, Parity
  <2>3. CASE i > 2 * j + 1
    <3>1. i - 1 - 2 * j \in 1..Len(z) /\ 1 + 2 * j + (i - 1 - 2 * j) = i
          /\ 2 * j + 1 + (i - 1 - 2 * j) = i
      BY <1>2, <1>10, <2>1, <2>3
    <3> QED BY <1>8, <1>10, <3>1
  <2>4. CASE i =< 2 * j + 1 /\ i = 2 * k
    <3>1. 2 * k - 1 \in 1..2 * j /\ 1 + (2 * k - 1) = i /\ k \in 1..j /\ k \in 1..m
      BY <1>2, <1>4, <1>5, <2>4 DEF Positive
    <3>2. y[i] = p[2 * k - 1]
      BY <1>10, <3>1
    <3> QED BY <1>2, <1>4, <1>5, <2>4, <3>1, <3>2
  <2>5. CASE i =< 2 * j + 1 /\ i = 2 * k - 1
    <3>1. s[i] = "/"
      BY <1>4, <1>11, <2>1, <2>5
    <3>2. CASE k = 1
      BY <1>10, <2>5, <3>1, <3>2
    <3>3. CASE k # 1
      <4>1. k - 1 \in Positive /\ 2 * (k - 1) \in 1..2 * j /\ 1 + 2 * (k - 1) = i
        BY <1>2, <2>5, <3>3 DEF Positive
      <4>2. p[2 * (k - 1)] = "/"
        BY <1>3, <1>9, <4>1
      <4>3. y[i] = p[2 * (k - 1)]
        BY <1>10, <4>1
      <4> QED BY <3>1, <4>2, <4>3
    <3> QED BY <3>2, <3>3
  <2> QED BY <1>2, <2>1, <2>2, <2>3, <2>4, <2>5
<1>12. CASE Len(s) > 2 * j
  <2>1. Len(y) = Len(s)
    <3>1. j \in Nat /\ Len(s) \in Nat /\ Len(y) = 1 + 2 * j + Len(z)
      BY <1>2, <1>4, <1>10
    <3>2. LengthOf(z, s, j, 0)
      BY <1>8
    <3> QED BY <1>12, <3>1, <3>2 DEF LengthOf
  <2>2. y = s
    BY <1>10, <1>11, <2>1, SeqEqual DEF Path
  <2> QED BY <1>6, <2>2 DEF y, z, j
<1>13. CASE Len(s) = 2 * j
  <2>1. Len(y) = 2 * j + 1 /\ m = j
    <3>1. j \in Nat /\ m \in Nat /\ j =< m /\ 2 * m =< Len(s) /\ Len(s) =< 2 * m + 1
      BY <1>2, <1>4, <1>5
    <3>2. Len(z) = 0 /\ Len(y) = 1 + 2 * j + Len(z)
      BY <1>8, <1>10, <1>13, <3>1 DEF LengthOf
    <3> QED BY <1>13, <3>1, <3>2
  <2>2. y[2 * j + 1] = "/" /\ s[2 * j] # "/" /\ 2 * j \in 1..Len(s)
    <3>1. j \in Positive /\ 2 * j \in 1..2 * j /\ 1 + 2 * j = 2 * j + 1
      BY <1>2, <1>6 DEF Positive
    <3>2. y[1 + 2 * j] = p[2 * j] /\ p[2 * j] = "/"
      BY <1>3, <1>9, <1>10, <3>1
    <3>3. 2 * j \in 1..Len(s) => s[2 * j] # "/"
      BY <3>1, PlainAt
    <3> QED BY <1>13, <3>1, <3>2, <3>3
  <2>3. ASSUME NEW i \in 1..Len(y) - 1 PROVE (y[i] = "/") # (y[i + 1] = "/")
    <3>1. CASE i < 2 * j
      <4>1. i \in 1..Len(s) - 1 /\ i \in 1..Len(y) /\ i + 1 \in 1..Len(y) /\ i =< Len(s)
            /\ i + 1 =< Len(s)
        BY <1>2, <1>13, <2>1, <3>1
      <4>2. y[i] = s[i] /\ y[i + 1] = s[i + 1]
        BY <1>11, <4>1
      <4> QED BY <4>1, <4>2 DEF Plain, Tidy
    <3>2. CASE i = 2 * j
      <4>1. y[i] = s[2 * j]
        BY <1>11, <1>13, <2>1, <2>2, <3>2
      <4> QED BY <2>2, <3>2, <4>1
    <3> QED BY <1>2, <2>1, <3>1, <3>2
  <2>4. y # <<>>
    BY <1>2, <1>10, <2>1
  <2>5. Plain(y)
    BY <1>10, <2>3, <2>4 DEF Plain, Tidy
  <2>6. /\ Len(Segments(y)) \in Nat /\ 2 * Len(Segments(y)) =< Len(y) /\ Len(y) =< 2 * Len(Segments(y)) + 1
        /\ \A k \in 1..Len(Segments(y)) : Segments(y)[k] = y[2 * k]
    BY <1>10, <2>5, PlainAt
  <2>7. Len(Segments(y)) = m /\ Segments(y) \in Path
    <3>1. Segments(y) \in Path
      BY <1>10, SegmentsAt
    <3>2. j \in Nat /\ Len(Segments(y)) \in Nat
          /\ 2 * Len(Segments(y)) =< Len(y) /\ Len(y) =< 2 * Len(Segments(y)) + 1
      BY <1>2, <2>6
    <3> QED BY <2>1, <3>1, <3>2
  <2>8. ASSUME NEW k \in 1..m PROVE Segments(y)[k] = Segments(s)[k]
    <3>1. 2 * k \in 1..Len(y) /\ 2 * k =< Len(s)
      BY <1>2, <1>13, <2>1
    <3> QED BY <1>4, <1>11, <2>6, <2>7, <3>1
  <2>9. Segments(y) = Segments(s)
    BY <1>4, <2>7, <2>8, SeqEqual DEF Path, m
  <2> QED BY <1>6, <2>5, <2>9 DEF y, z, j
<1> QED BY <1>2, <1>4, <1>5, <1>12, <1>13
-----------------------------------------------------------------------------
(* The properties of the routing.                                          *)

LEMMA ServedKey ==
    ASSUME PlaceInv, Comparable, NEW r \in relays
    PROVE  /\ r \in HttpRelay /\ Tidy(r.path)
           /\ trim(r.path) \in hits(map, path)
                <=> Serves(r) /\ (Len(Segments(r.path)) = 0 => Len(Segments(path)) = 0)
<1>1. r \in HttpRelay /\ Tidy(r.path) /\ Plain(path) /\ path \in Path
  BY ProxyAssumption DEF PlaceInv, Comparable
<1>2. r.path \in Path
  BY <1>1 DEF HttpRelay
<1>3. trim(r.path) \in DOMAIN map
  BY DEF PlaceInv, ProxyConfig
<1>4. trim(r.path) \in hits(map, path) <=> trim(r.path) \in ancestors(trim_start(path))
  BY <1>3 DEF hits
<1> QED BY <1>1, <1>2, <1>4, ServedByAncestor DEF Serves

\* The program that is found.
LEMMA FoundRelay ==
    ASSUME PlaceInv, Found(map, path)
    PROVE  \E r \in relays : /\ r \in HttpRelay
                             /\ matched(map, path) = trim(r.path)
                             /\ trim(r.path) \in hits(map, path)
                             /\ \A x \in hits(map, path) : Len(x) =< Len(trim(r.path))
                             /\ map[matched(map, path)] = ProxyEntry(r)
<1> DEFINE k == matched(map, path)
<1>1. k \in DOMAIN map /\ k \in hits(map, path)
      /\ \A x \in hits(map, path) : Len(x) =< Len(k)
  BY MatchedType DEF PlaceInv, Found
<1> HIDE DEF k
<1>2. PICK r \in relays : trim(r.path) = k /\ map[k] = ProxyEntry(r)
  BY <1>1 DEF PlaceInv, ProxyConfig
<1>3. r \in HttpRelay
  BY ProxyAssumption DEF PlaceInv
<1> QED BY <1>1, <1>2, <1>3 DEF k

\* AsksFor, of a path that is given.
Asked(r, s) ==
    LET prefix == <<"/">> \o (IF r.strip_path THEN <<>> ELSE r.path)
        rest == <<"/">> \o SubSeq(s, Len(prefix) + 1, Len(s))
    IN  IsPrefix(prefix, s) /\ Plain(rest) /\ Segments(rest) = Beyond(r)

LEMMA RoutedStep ==
    ASSUME PlaceInv, Comparable, Found(map, path)
    PROVE  \E r \in relays :
              /\ r.port = entry(map, path).port
              /\ Serves(r)
              /\ \A q \in relays : Serves(q) => Len(Segments(q.path)) =< Len(Segments(r.path))
              /\ Asked(r, get(map, path))
              /\ ~r.strip_path /\ Joins(r) => /\ Plain(get(map, path))
                                              /\ Segments(get(map, path)) = Segments(path)
<1>1. PICK r \in relays : /\ r \in HttpRelay
                          /\ matched(map, path) = trim(r.path)
                          /\ trim(r.path) \in hits(map, path)
                          /\ \A x \in hits(map, path) : Len(x) =< Len(trim(r.path))
                          /\ map[matched(map, path)] = ProxyEntry(r)
  BY FoundRelay
<1> DEFINE j == Len(Segments(r.path))
           m == Len(Segments(path))
<1>2. Plain(path) /\ path \in Path /\ r.path \in Path /\ Tidy(r.path)
  BY <1>1 DEF PlaceInv, Comparable, HttpRelay
<1>3. Serves(r) /\ (j = 0 => m = 0)
  BY <1>1, ServedKey
<1>4. j \in Nat /\ m \in Nat /\ j =< m
  BY <1>2, <1>3, SegmentsAt, PrefixAt DEF Serves
<1>5. ASSUME NEW q \in relays, Serves(q) PROVE Len(Segments(q.path)) =< j
  <2>1. q.path \in Path /\ Tidy(q.path)
    BY ServedKey DEF HttpRelay
  <2>2. Len(Segments(q.path)) \in Nat
    BY <2>1, SegmentsAt
  <2>3. CASE Len(Segments(q.path)) = 0
    BY <1>4, <2>3
  <2>4. CASE Len(Segments(q.path)) # 0
    <3>1. trim(q.path) \in hits(map, path)
      BY <1>5, <2>4, ServedKey
    <3>2. Len(trim(q.path)) =< Len(trim(r.path))
      BY <1>1, <3>1
    <3>3. Len(trim(q.path)) = 2 * Len(Segments(q.path)) - 1
      BY <2>1, <2>4, TrimTidy
    <3>4. Len(trim(r.path)) = IF j = 0 THEN 0 ELSE 2 * j - 1
      BY <1>2, TrimTidy
    <3> HIDE DEF j
    <3> QED BY <1>4, <2>2, <2>4, <3>2, <3>3, <3>4
  <2> QED BY <2>3, <2>4
<1>6. Len(matched(map, path)) = IF j = 0 THEN 0 ELSE 2 * j - 1
  BY <1>1, <1>2, TrimTidy
<1>7. Asked(r, get(map, path))
  <2> DEFINE start == (IF j = 0 THEN 0 ELSE 2 * j - 1) + 2
             z == trim_start(SubSeq(path, start, Len(path)))
             kept == IF r.strip_path THEN <<>> ELSE r.path
             prefix == <<"/">> \o kept
             s == prefix \o z
  <2>1. entry(map, path).prefix_path = kept
    BY <1>1 DEF entry, ProxyEntry
  <2>2. get(map, path) = s
    BY <1>6, <2>1 DEF get
  <2>3. j \in 0..m
    BY <1>4
  <2>4. Plain(<<"/">> \o <<>> \o z) /\ Segments(<<"/">> \o <<>> \o z) = Beyond(r)
    BY <1>2, <1>3, <2>3, Stripped DEF Beyond
  <2>5. z \in Path
    <3>1. SubSeq(path, start, Len(path)) \in Path
      BY <1>2, <1>4 DEF Path
    <3> HIDE DEF start
    <3> QED BY <3>1, TrimStartType
  <2>6. kept \in Path /\ <<"/">> \in Path
    BY <1>2 DEF Path
  <2> HIDE DEF z, kept
  <2>7. prefix \in Path
    BY <2>6 DEF Path
  <2>8. <<"/">> \o <<>> \o z = <<"/">> \o z
    BY <2>5, <2>6 DEF Path
  <2> HIDE DEF prefix
  <2>9. /\ s \in Path /\ Len(s) = Len(prefix) + Len(z)
        /\ \A i \in 1..Len(prefix) : s[i] = prefix[i]
        /\ \A i \in 1..Len(z) : s[Len(prefix) + i] = z[i]
    BY <2>5, <2>7, ConcatAt
  <2> HIDE DEF s
  <2>10. Len(prefix) \in Nat /\ Len(z) \in Nat
    BY <2>5, <2>7 DEF Path
  <2>11. IsPrefix(prefix, s)
    <3>1. Len(prefix) =< Len(s)
      BY <2>9, <2>10
    <3> QED BY <2>7, <2>9, <3>1, PrefixAt
  <2>12. SubSeq(s, Len(prefix) + 1, Len(s)) = z
    <3> DEFINE a == Len(prefix) + 1
               y == SubSeq(s, a, Len(s))
    <3>1. a \in Nat \ {0} /\ Len(s) \in 0..Len(s) /\ a =< Len(s) + 1 /\ Len(s) + 1 - a = Len(z)
      BY <2>9, <2>10
    <3>2. y \in Path /\ Len(y) = Len(z) /\ \A i \in 1..Len(z) : y[i] = s[a + i - 1]
      <4> HIDE DEF a
      <4>1. y \in Path /\ Len(y) = Len(s) + 1 - a /\ \A i \in 1..Len(s) + 1 - a : y[i] = s[a + i - 1]
        BY <2>9, <3>1, SubSeqAt
      <4> QED BY <3>1, <4>1
    <3>3. ASSUME NEW i \in 1..Len(z) PROVE y[i] = z[i]
      <4>1. a + i - 1 = Len(prefix) + i
        BY <2>10
      <4> QED BY <2>9, <3>2, <4>1
    <3> HIDE DEF y
    <3>4. y = z
      BY <2>5, <3>2, <3>3, SeqEqual DEF Path
    <3> QED BY <3>4 DEF y, a
  <2> QED BY <2>2, <2>4, <2>8, <2>11, <2>12 DEF Asked, prefix, kept
<1>8. ASSUME ~r.strip_path, Joins(r)
      PROVE  Plain(get(map, path)) /\ Segments(get(map, path)) = Segments(path)
  <2>1. entry(map, path).prefix_path = r.path
    BY <1>1, <1>8 DEF entry, ProxyEntry
  <2>2. r.path # <<>> /\ r.path[1] # "/" /\ r.path[Len(r.path)] = "/"
        /\ IsPrefix(Segments(r.path), Segments(path))
    BY <1>3, <1>8 DEF Joins, Serves
  <2> DEFINE y == <<"/">> \o r.path \o trim_start(SubSeq(path, (2 * j - 1) + 2, Len(path)))
  <2>3. j # 0 /\ Plain(y) /\ Segments(y) = Segments(path)
    BY <1>2, <2>2, NotStripped
  <2>4. get(map, path) = y
    BY <1>6, <2>1, <2>3 DEF get
  <2> QED BY <2>3, <2>4
<1>9. r.port = entry(map, path).port
  BY <1>1 DEF entry, ProxyEntry
<1> QED BY <1>3, <1>5, <1>7, <1>8, <1>9

\* Only forward() takes a request on.
LEMMA OnlyForward ==
    ASSUME PlaceInv, [Next]_vars, hops' > hops
    PROVE  Found(map, path) /\ path' = get(map, path) /\ upstream' = entry(map, path).port
<1>1. hops \in Int
  BY ProxyAssumption DEF PlaceInv
<1>2. CASE Forward
  BY <1>2 DEF Forward
<1>3. CASE Endpoint \/ NotFound \/ Serve \/ Fail \/ Return \/ UNCHANGED vars
  BY <1>1, <1>3 DEF Endpoint, NotFound, Serve, Fail, Return, Answer, vars
<1> QED BY <1>2, <1>3 DEF Next

\* The port a request is sent to is that of a program that serves its path with the
\* longest path of all, and its upstream is asked for its prefix and the remaining
\* segments (ancestors, get, ProxyEntry): for all sets of programs and all paths without
\* empty segments.
THEOREM RoutedToTheLongest == Spec => RoutedToLongest
<1> DEFINE Routed ==
        hops' > hops /\ Comparable =>
          \E r \in relays :
              /\ r.port = upstream'
              /\ Serves(r)
              /\ \A q \in relays : Serves(q) => Len(Segments(q.path)) =< Len(Segments(r.path))
              /\ AsksFor(r)
              /\ ~r.strip_path /\ Joins(r) => Plain(path') /\ Segments(path') = Segments(path)
<1>1. PlaceInv /\ [Next]_vars => Routed
  <2> SUFFICES ASSUME PlaceInv, [Next]_vars, hops' > hops, Comparable
               PROVE  \E r \in relays :
                  /\ r.port = upstream'
                  /\ Serves(r)
                  /\ \A q \in relays : Serves(q) => Len(Segments(q.path)) =< Len(Segments(r.path))
                  /\ AsksFor(r)
                  /\ ~r.strip_path /\ Joins(r) => Plain(path') /\ Segments(path') = Segments(path)
    OBVIOUS
  <2>1. Found(map, path) /\ path' = get(map, path) /\ upstream' = entry(map, path).port
    BY OnlyForward
  <2>2. \A r : AsksFor(r) <=> Asked(r, get(map, path))
    BY <2>1 DEF AsksFor, Asked
  <2> QED BY <2>1, <2>2, RoutedStep
<1> QED BY <1>1, PlaceInit, PlaceStep, PTL DEF Spec, RoutedToLongest

\* NOT FOUND is answered only if no program serves the path, but for one at the
\* root, which serves the root alone (ancestors).
THEOREM NotFoundIsJust == Spec => NotFoundJust
<1> DEFINE Just ==
        Pending /\ response'.status = 404 /\ Comparable =>
            \A r \in relays : Serves(r) => Segments(r.path) = <<>> /\ Segments(path) # <<>>
<1>1. PlaceInv /\ [Next]_vars => Just
  <2> SUFFICES ASSUME PlaceInv, [Next]_vars, Pending, response'.status = 404, Comparable,
                      NEW r \in relays, Serves(r)
               PROVE  Segments(r.path) = <<>> /\ Segments(path) # <<>>
    OBVIOUS
  <2>1. NotFound
    <3>1. CASE Endpoint \/ Serve \/ Fail
      <4>1. PICK a : a.status \in {200, 500} /\ response' = a
        BY <3>1 DEF Endpoint, Serve, Fail, Answer, Served, Bare
      <4> QED BY <4>1
    <3>2. CASE Forward \/ UNCHANGED vars
      BY <3>2 DEF Forward, vars, Pending
    <3>3. CASE Return
      BY <3>3 DEF Return
    <3> QED BY <3>1, <3>2, <3>3 DEF Next
  <2>2. path \in Path /\ Plain(path) /\ r.path \in Path
    BY ServedKey DEF PlaceInv, Comparable, HttpRelay
  <2>3. hits(map, path) = {}
    <3> SUFFICES ASSUME hits(map, path) # {} PROVE FALSE
      OBVIOUS
    <3> DEFINE k == matched(map, path)
               t == trim_start(path)
    <3>1. k \in Path /\ k \in ancestors(t)
      BY <2>2, MatchedType DEF PlaceInv, hits
    <3>2. t \in Path /\ Len(t) = Len(path) - 1 /\ Len(path) > 0
          /\ \A i \in 1..Len(t) : t[i] = path[i + 1]
      BY <2>2, PlainAt
    <3> HIDE DEF k, t
    <3>3. Len(k) =< Len(t) /\ \A i \in 1..Len(k) : k[i] = t[i]
      <4>1. CASE k = t
        BY <3>2, <4>1
      <4>2. CASE k # t
        <5>1. PICK i \in 1..Len(t) : k = SubSeq(t, 1, i - 1)
          BY <3>1, <4>2 DEF ancestors
        <5>2. 1 \in Nat \ {0} /\ i - 1 \in 0..Len(t) /\ 1 =< (i - 1) + 1 /\ Len(t) \in Nat
              /\ (i - 1) + 1 - 1 = i - 1
          BY <3>2 DEF Path
        <5>3. Len(k) = i - 1 /\ \A l \in 1..i - 1 : k[l] = t[1 + l - 1]
          BY <3>2, <5>1, <5>2, SubSeqAt
        <5> QED BY <5>2, <5>3
      <4> QED BY <4>1, <4>2
    <3>4. IsPrefix(<<"/">> \o k, path)
      <4>1. <<"/">> \in Path /\ Len(<<"/">>) = 1 /\ Len(k) \in Nat /\ path[1] = "/"
        BY <2>2, <3>1 DEF Path, Plain
      <4>2. <<"/">> \o k \in Path /\ Len(<<"/">> \o k) = 1 + Len(k)
            /\ (<<"/">> \o k)[1] = "/" /\ \A i \in 1..Len(k) : (<<"/">> \o k)[1 + i] = k[i]
        BY <3>1, <4>1, ConcatAt
      <4>3. ASSUME NEW i \in 1..1 + Len(k) PROVE (<<"/">> \o k)[i] = path[i]
        <5>1. CASE i = 1
          BY <4>1, <4>2, <5>1
        <5>2. CASE i # 1
          <6>1. i - 1 \in 1..Len(k) /\ i - 1 \in 1..Len(t) /\ 1 + (i - 1) = i /\ (i - 1) + 1 = i
            BY <3>2, <3>3, <4>1, <5>2
          <6>2. (<<"/">> \o k)[1 + (i - 1)] = k[i - 1]
            BY <4>2, <6>1
          <6> QED BY <3>2, <3>3, <6>1, <6>2
        <5> QED BY <5>1, <5>2
      <4>4. 1 + Len(k) =< Len(path)
        BY <2>2, <3>2, <3>3, <4>1 DEF Path
      <4> DEFINE x == <<"/">> \o k
      <4>5. x \in Path /\ Len(x) =< Len(path) /\ \A i \in 1..Len(x) : x[i] = path[i]
        BY <4>2, <4>3, <4>4
      <4> HIDE DEF x
      <4>6. IsPrefix(x, path)
        BY <2>2, <4>5, PrefixAt
      <4> QED BY <4>6 DEF x
    <3> QED BY <2>1, <3>4 DEF NotFound, Found, k
  <2>4. Len(Segments(r.path)) = 0 /\ Len(Segments(path)) # 0
    BY <2>3, ServedKey
  <2> QED BY <2>2, <2>4, SegmentsAt DEF Path
<1> QED BY <1>1, PlaceInit, PlaceStep, PTL DEF Spec, NotFoundJust

\* When the note on prefix_path is true: no upstream is asked for a path with two
\* slashes in front, if no path that is kept (strip_path off) begins with one.
THEOREM TrimmedIfWrittenSo ==
    ASSUME \A c \in Configs : \A r \in c : r.strip_path \/ r.path = <<>> \/ r.path[1] # "/"
    PROVE  Spec => PrefixTrimmed
<1> DEFINE Trimmed == hops' > hops => ~IsPrefix(<<"/", "/">>, path')
<1>1. PlaceInv /\ [Next]_vars => Trimmed
  <2> SUFFICES ASSUME PlaceInv, [Next]_vars, hops' > hops, IsPrefix(<<"/", "/">>, path')
               PROVE  FALSE
    OBVIOUS
  <2>1. Found(map, path) /\ path' = get(map, path) /\ path \in Path /\ path' \in Path
    BY OnlyForward, GetType DEF PlaceInv
  <2> DEFINE k == matched(map, path)
             rest == SubSeq(path, Len(k) + 2, Len(path))
             z == trim_start(rest)
             pre == entry(map, path).prefix_path
             x == <<"/">> \o pre
  <2>2. PICK r \in relays : r \in HttpRelay /\ map[k] = ProxyEntry(r)
    BY <2>1, FoundRelay
  <2>3. pre \in Path /\ (pre = <<>> \/ pre[1] # "/")
    <3>1. r.strip_path \/ r.path = <<>> \/ r.path[1] # "/"
      BY DEF PlaceInv
    <3> QED BY <2>2, <3>1 DEF entry, ProxyEntry, HttpRelay, Path
  <2>4. rest \in Path
    <3>1. k \in Path
      BY <2>1, MatchedType DEF PlaceInv, Found
    <3> HIDE DEF k
    <3>2. Len(k) \in Nat /\ Len(path) \in Nat
      BY <2>1, <3>1 DEF Path
    <3> QED BY <2>1, <3>2 DEF Path
  <2> HIDE DEF rest
  <2>5. z \in Path /\ (Len(z) > 0 => z[1] # "/")
    <3>1. PICK n \in 0..Len(rest) : /\ z = SubSeq(rest, n + 1, Len(rest))
                                    /\ n < Len(rest) => rest[n + 1] # "/"
      BY <2>4, TrimStartAt
    <3> HIDE DEF z
    <3>2. n + 1 \in Nat \ {0} /\ Len(rest) \in 0..Len(rest) /\ n + 1 =< Len(rest) + 1
          /\ Len(rest) \in Nat
      BY <2>4 DEF Path
    <3>3. z \in Path /\ Len(z) = Len(rest) + 1 - (n + 1)
          /\ \A i \in 1..Len(rest) + 1 - (n + 1) : z[i] = rest[(n + 1) + i - 1]
      BY <2>4, <3>1, <3>2, SubSeqAt
    <3>4. ASSUME Len(z) > 0 PROVE z[1] # "/"
      <4>1. 1 \in 1..Len(rest) + 1 - (n + 1) /\ n < Len(rest) /\ (n + 1) + 1 - 1 = n + 1
        BY <3>2, <3>3, <3>4
      <4> QED BY <3>1, <3>3, <4>1
    <3> QED BY <3>3, <3>4
  <2>6. path' = x \o z
    BY <2>1 DEF get, rest
  <2> HIDE DEF pre, z
  <2>7. <<"/">> \in Path /\ Len(<<"/">>) = 1
    BY DEF Path
  <2>8. x \in Path /\ Len(x) = 1 + Len(pre) /\ \A i \in 1..Len(pre) : x[1 + i] = pre[i]
    BY <2>3, <2>7, ConcatAt
  <2> HIDE DEF x
  <2>9. /\ Len(path') = Len(x) + Len(z)
        /\ \A i \in 1..Len(x) : path'[i] = x[i]
        /\ \A i \in 1..Len(z) : path'[Len(x) + i] = z[i]
    BY <2>5, <2>6, <2>8, ConcatAt
  <2>10. Len(path') >= 2 /\ path'[2] = "/"
    <3> DEFINE two == <<"/", "/">>
    <3>1. two \in Path /\ Len(two) = 2 /\ two[2] = "/"
      BY DEF Path
    <3> HIDE DEF two
    <3>2. Len(two) =< Len(path') /\ \A i \in 1..Len(two) : two[i] = path'[i]
      BY <2>1, <3>1, PrefixAt DEF two
    <3> QED BY <3>1, <3>2
  <2>11. Len(pre) \in Nat /\ Len(z) \in Nat /\ (pre = <<>> <=> Len(pre) = 0)
    BY <2>3, <2>5 DEF Path
  <2>12. CASE Len(pre) = 0
    <3>1. 1 \in 1..Len(z) /\ Len(x) + 1 = 2
      BY <2>8, <2>9, <2>10, <2>11, <2>12
    <3> QED BY <2>5, <2>9, <2>10, <3>1
  <2>13. CASE Len(pre) # 0
    <3>1. 1 \in 1..Len(pre) /\ 2 \in 1..Len(x) /\ 1 + 1 = 2
      BY <2>8, <2>11, <2>13
    <3>2. path'[2] = x[2] /\ x[1 + 1] = pre[1]
      BY <2>8, <2>9, <3>1
    <3> QED BY <2>3, <2>10, <2>11, <2>13, <3>1, <3>2
  <2> QED BY <2>12, <2>13
<1> QED BY <1>1, PlaceInit, PlaceStep, PTL DEF Spec, PrefixTrimmed
=============================================================================
