-------------------------------- MODULE RealIP --------------------------------
(***************************************************************************)
(* ratelimit/realip.go: whose request it is that came through proxies.  A  *)
(* request travels from node to node before RealIP reads it.  Nodes stand  *)
(* for their addresses.  The proxies of the service either append the node *)
(* they got the request from to X-Forwarded-For, or put it in X-Real-IP    *)
(* unless it is one that the service trusts, and leave the other header    *)
(* alone.  Other nodes write what they like into both.                     *)
(***************************************************************************)
EXTENDS Naturals, Sequences

CONSTANTS
    Proxies, Others,   \* nodes
    Network,           \* a text that names the network of the proxies
    Invalid,           \* a text that is no address
    MaxEntries,        \* bound on X-Forwarded-For
    None

VARIABLES
    trusted,   \* the trusted argument, as the set of nodes in its networks
    style,     \* the header that the proxies maintain
    peer,      \* RemoteAddr
    client,    \* history: the node that the service does not trust that it last came from
    xff,       \* the entries of all X-Forwarded-For headers, in order
    xRealIP    \* X-Real-IP, or None

vars == <<trusted, style, peer, client, xff, xRealIP>>

Nodes == Proxies \union Others

\* What a node may write into X-Forwarded-For.
Written == UNION {[1 .. n -> Nodes \union {Invalid}] : n \in 0 .. MaxEntries - 2}

\* The nodes of the network that a text describes: none if it cannot be parsed.
ParseCIDRorIP(s) == IF s = Network THEN Proxies ELSE {s} \ {Invalid}

ParseTrustedProxies(cidrs) == UNION {ParseCIDRorIP(s) : s \in cidrs}

\* KeyFuncWithTrustedProxies is given some of the proxies, one by one or all at once, or
\* nothing that can be parsed.
Configure == \E cidrs \in SUBSET (Proxies \union {Network, Invalid}) : trusted = ParseTrustedProxies(cidrs)

\* A request starts at some node.
Init ==
    /\ Configure
    /\ style \in {"X-Forwarded-For", "X-Real-IP"}
    /\ peer \in Nodes
    /\ client = peer
    /\ xff \in IF peer \in Others THEN Written ELSE {<<>>}
    /\ xRealIP \in IF peer \in Others THEN Nodes \union {None, Invalid} ELSE {None}

IsTrusted(ip) == ip \in trusted

\* Mutant of ParseXFF: the entries are read from left to right.
ParseXFF_LeftToRight ==
    LET valid == SelectSeq(xff, LAMBDA e : e # Invalid)
        untrusted == SelectSeq(valid, LAMBDA e : ~IsTrusted(e))
    IN  IF untrusted # <<>> THEN Head(untrusted)
        ELSE IF valid # <<>> THEN Head(valid) ELSE None

\* parseXFF: the last untrusted address, or else the first address of all.
ParseXFF ==
    LET valid == SelectSeq(xff, LAMBDA e : e # Invalid)
        untrusted == SelectSeq(valid, LAMBDA e : ~IsTrusted(e))
    IN  IF untrusted # <<>> THEN untrusted[Len(untrusted)]
        ELSE IF valid # <<>> THEN Head(valid) ELSE None

\* RealIP.  Nothing of the headers is read unless the peer is a trusted proxy, and
\* X-Real-IP only if there is no address in X-Forwarded-For.
ClientIP ==
    IF trusted = {} \/ ~IsTrusted(peer) THEN peer
    ELSE IF ParseXFF # None THEN ParseXFF
    ELSE IF xRealIP \notin {None, Invalid} THEN xRealIP ELSE peer

\* The request reaches p.
Arrive(p) ==
    /\ p # peer
    /\ peer' = p
    /\ client' = IF IsTrusted(p) THEN client ELSE p
    /\ UNCHANGED <<trusted, style>>

\* A proxy of the service receives the request from peer and passes it on.
ProxyForwards(p) ==
    /\ Arrive(p)
    /\ IF style = "X-Forwarded-For"
       THEN Len(xff) < MaxEntries /\ xff' = Append(xff, peer) /\ UNCHANGED xRealIP
       ELSE xRealIP' = (IF xRealIP # None /\ IsTrusted(peer) THEN xRealIP ELSE peer) /\ UNCHANGED xff

\* A node outside the service receives it and passes it on.
OtherForwards(p) ==
    /\ Arrive(p)
    /\ xff' \in Written
    /\ xRealIP' \in Nodes \union {None, Invalid}

Next == (\E p \in Proxies : ProxyForwards(p)) \/ (\E p \in Others : OtherForwards(p))

-----------------------------------------------------------------------------

\* A request is taken for that of the last node on its way that the service was not told
\* to trust, however many trusted ones it passed since and whatever the header that they
\* maintain held before (realip.go:46-99).  The premise is about the other header:
\* X-Forwarded-For is read first (realip.go:61), so a proxy that maintains X-Real-IP must
\* not pass on an X-Forwarded-For with an address.
ClientFound ==
    style = "X-Forwarded-For" \/ peer \notin trusted \/ (\A i \in DOMAIN xff : xff[i] = Invalid)
        => ClientIP = client
===============================================================================
