----------------------------- MODULE HttpRouting -----------------------------
(***************************************************************************)
(* Where a request for the HTTP proxy goes: the URL and the "Host" header  *)
(* (http.cpp), the filters (filter.cpp, filtermgr.cpp), the ports that     *)
(* CONNECT may use, the map of the hosts (hostmapper.cpp), and the name of *)
(* the page in the cache (mod_http.cpp).                                   *)
(*                                                                         *)
(* A pattern is found where its letters are.  A cookie, which is part of a *)
(* page's name, is left out.                                               *)
(***************************************************************************)
EXTENDS Naturals, Sequences, FiniteSets, SequencesExt

CONSTANTS Settings,    \* [hosts, filters, ports]: what the configuration says
          Asks,        \* [method, url, header, origin]: requests
          Digits,      \* see Url
          Size, ComputeHash,  \* see StrHash
          MaxReloads,  \* bounds the times the settings are loaded
          MaxPending,  \* bounds the requests under way
          MaxPages     \* bounds the pages in the cache

\* "hosts" is none if there is no such key; no ports are all of them; an origin is where a
\* connection that was redirected to the proxy would have gone.
HttpRoutingAssumption ==
    /\ \A s \in Settings :
         /\ Len(s.hosts) <= 1 /\ Len(s.ports) <= 1
         /\ \A i \in 1..Len(s.hosts) : \A k \in 1..Len(s.hosts[i]) :
              s.hosts[i][k].name \in DOMAIN ComputeHash
         /\ \A f \in ToSet(s.filters) : f.action \in {"nocache", "forbid", "redirect"}
    /\ \A a \in Asks : a.method \in {"GET", "CONNECT"} /\ Len(a.header) <= 1 /\ Len(a.origin) <= 1
    /\ {MaxReloads, MaxPending, MaxPages} \subseteq Nat

VARIABLE rt

U    == INSTANCE Url
Hash == INSTANCE StrHash

-----------------------------------------------------------------------------
\* Settings.

\* HostMapper::ReloadCfg() opens each of the keys by its name, and has the first that
\* begins with it.
Opened(hosts, name) == hosts[SelectInSeq(hosts, LAMBDA h : IsPrefix(name, h.name))]

HostMap(hash, hosts) ==
    FoldLeft(LAMBDA m, h : Hash!Add(m, h.name, Opened(hosts, h.name)), Hash!Clear(hash), hosts)

RECURSIVE Erase(_, _)

\* Filter::PrepareURLs(): from each return on, as much as what is before it goes, and one more.
Erase(text, pos) ==
    LET n == SelectLastInSubSeq(text, 1, pos, LAMBDA t : t = "cr")
    IN IF n = 0 THEN text
       ELSE Erase(SubSeq(text, 1, n - 1) \o SubSeq(text, 2 * n, Len(text)),
                  IF n <= Len(text) - n THEN n ELSE n - 1)

\* StringList::Explode()
Lines(text) ==
    FoldLeft(LAMBDA lines, t : IF t = "nl" THEN Append(lines, <<>>)
                               ELSE [lines EXCEPT ![Len(lines)] = Append(@, t)],
             <<<<>>>>, text)

PrepareURLs(text) == Lines(Erase(text, Len(text)))

\* FilterMgr::Load()
LoadFilters(s) ==
    [i \in 1..Len(s.filters) |-> [urls |-> PrepareURLs(s.filters[i].text),
                                  action |-> s.filters[i].action]]

\* HTTPProxy::ReloadCfg()
ReloadCfg(v, s) ==
    [v EXCEPT !.filters = LoadFilters(s), !.ports = s.ports, !.set = s, !.loads = @ + 1,
              !.map = IF s.hosts = <<>> THEN @ ELSE HostMap(@, s.hosts[1]),
              !.hosts = IF s.hosts = <<>> THEN @ ELSE s.hosts[1],
              !.last = <<>>]

Init == \E s \in Settings :
    rt = ReloadCfg([filters |-> <<>>, ports |-> <<>>, set |-> s, loads |-> 0, map |-> Hash!NoItems,
                    hosts |-> <<>>, last |-> <<>>, pending |-> <<>>, cache |-> {},
                    cleared |-> 0, crash |-> FALSE], s)

\* HostMapper::Clear(): what is behind the hash is deleted as if it were a host.
Reload ==
    /\ rt.loads < MaxReloads
    /\ \E s \in Settings :
         LET v == [ReloadCfg(rt, s) EXCEPT !.cleared = @ + IF s.hosts = <<>> THEN 0 ELSE 1]
         IN \/ rt' = v
            \/ s.hosts # <<>> /\ Hash!Overruns(rt.map) /\ rt' = [v EXCEPT !.crash = TRUE]

-----------------------------------------------------------------------------
\* Requests.

Found(pattern, text) ==
    \E i \in 0..(Len(text) - Len(pattern)) : SubSeq(text, i + 1, i + Len(pattern)) = pattern

\* FilterMgr::Match(): the action of the first filter that a URL of it is found in; "noop" if none.
Match(filters, url) ==
    LET text == U!Encode(url)
        f    == SelectInSeq(filters, LAMBDA g : \E p \in ToSet(g.urls) : Found(p, text))
    IN IF f = 0 THEN "noop" ELSE filters[f].action

\* HTTP::ParseMethod() and ParseHeader(): the host of the header, and its port if it has one.
GetURL(a) ==
    LET url == U!Decode(a.url)
    IN IF a.header = <<>> THEN url
       ELSE LET host  == a.header[1]
                named == [url EXCEPT !.host = host.name,
                                     !.port = IF host.port = <<>> THEN @ ELSE U!Number(host.port)]
            IN IF a.method # "CONNECT" /\ url.scheme = <<>>
               THEN [named EXCEPT !.scheme = <<"http">>] ELSE named

\* What a request came to.
Over(a, how, where, page) ==
    <<[ask |-> a, how |-> how, where |-> where, page |-> page, set |-> rt.set, hosts |-> rt.hosts]>>

End(a, how) == rt' = [rt EXCEPT !.last = Over(a, how, <<>>, <<>>)]

\* HostMapper::Map()
Mapped(v, url) ==
    LET h == Hash!Find(v.map, url.host)
    IN IF h = <<>> THEN url ELSE [url EXCEPT !.host = h[1].target, !.port = h[1].port]

Goes(a, url, where) ==
    rt' = [rt EXCEPT !.last = Over(a, "server", where, <<>>),
                     !.pending = Append(@, [ask |-> a, url |-> url, where |-> where, loads |-> rt.loads])]

\* ConnectToServer()
ConnectToServer(a, url) ==
    IF url.host = <<>>
    THEN IF a.origin = <<>> THEN End(a, "forbidden")
         ELSE Goes(a, [url EXCEPT !.port = a.origin[1].port], <<a.origin[1].name, a.origin[1].port>>)
    ELSE IF a.method # "CONNECT" /\ url.scheme # <<"http">> THEN End(a, "not implemented")
    ELSE LET to == Mapped(rt, url) IN Goes(a, to, <<to.host, to.port>>)

\* Handle_CONNECT()
HandleCONNECT(a, url) ==
    IF rt.ports = <<>> \/ url.port \in ToSet(rt.ports[1])
    THEN ConnectToServer(a, url) ELSE End(a, "forbidden")

\* Handle_GET_HEAD()
HandleGET(a, url) ==
    \/ \E page \in rt.cache :
         page.id = U!Encode(url) /\ rt' = [rt EXCEPT !.last = Over(a, "cache", <<>>, <<page>>)]
    \/ ConnectToServer(a, url)

\* HandleRequest()
HandleRequest ==
    /\ Len(rt.pending) < MaxPending
    /\ \E a \in Asks : \E url \in {GetURL(a)} :
         LET filter == Match(rt.filters, url)
         IN CASE filter = "redirect" -> End(a, "redirected")
              [] filter = "forbid"   -> End(a, "forbidden")
              [] OTHER               -> IF a.method = "CONNECT" THEN HandleCONNECT(a, url)
                                        ELSE HandleGET(a, url)

\* DownloadAndCache(), and IsCacheable(): the URL is that of the server by now.
DownloadAndCache ==
    \E i \in 1..Len(rt.pending) :
        LET p    == rt.pending[i]
            id   == U!Encode(p.url)
            page == [id |-> id, where |-> p.where, rest |-> p.url.rest, ask |-> p.ask, loads |-> p.loads,
                     set |-> rt.set]
        IN rt' = [rt EXCEPT !.pending = RemoveAt(@, i), !.last = <<>>,
                            !.cache = IF p.ask.method = "CONNECT" \/ Match(rt.filters, p.url) = "nocache"
                                         \/ (\E q \in @ : q.id = id) \/ Cardinality(@) >= MaxPages
                                      THEN @ ELSE @ \cup {page}]

Next == ~rt.crash /\ (Reload \/ HandleRequest \/ DownloadAndCache)

-----------------------------------------------------------------------------
\* What the user asked for, from the parts that the text of the request was made of.
Host(a) == IF a.header # <<>> THEN a.header[1].name ELSE a.parts.host
Port(a) == IF a.header # <<>> /\ a.header[1].port # <<>> THEN a.header[1].port
           ELSE IF a.parts.port # <<>> THEN a.parts.port ELSE <<"80">>
Named(a) == U!Encode([a.parts EXCEPT !.host = Host(a), !.port = Port(a),
                                     !.scheme = IF @ = <<>> /\ a.header # <<>> /\ a.method # "CONNECT"
                                                THEN <<"http">> ELSE @])

\* The URLs that a filter has, in lines that end as those of a file, or of a browser, do.
Listed(text) == {l \in ToSet(Lines(SelectSeq(text, LAMBDA t : t # "cr"))) : l # <<>>}
Filter(a, s) ==
    LET text == Named(a)
        f    == SelectInSeq(s.filters, LAMBDA g : \E p \in Listed(g.text) : Found(p, text))
    IN IF f = 0 THEN "noop" ELSE s.filters[f].action

Server(a, hosts) ==
    LET h == SelectInSeq(hosts, LAMBDA x : x.name = Host(a))
    IN IF Host(a) = <<>> THEN <<a.origin[1].name, a.origin[1].port>>
       ELSE IF h > 0 THEN <<hosts[h].target, hosts[h].port>> ELSE <<Host(a), Port(a)>>

Expected(a, s) ==
    LET filter == Filter(a, s)
    IN IF filter = "redirect" THEN "redirected"
       ELSE IF \/ filter = "forbid"
               \/ a.method = "CONNECT" /\ s.ports # <<>> /\ Port(a) \notin ToSet(s.ports[1])
               \/ Host(a) = <<>> /\ a.origin = <<>>
       THEN "forbidden"
       ELSE IF Host(a) # <<>> /\ a.method # "CONNECT" /\ a.parts.scheme \notin {<<>>, <<"http">>}
       THEN "not implemented"
       ELSE "server"

\* A path has no "://" if the URL has no scheme; the lines of a filter end as those of a
\* file do, and none is empty; no host's name begins with that of another.
PlainPath(a) == a.parts.scheme = <<>> => ~Found(<<":", "/", "/">>, a.url)
PlainLists(s) == \A f \in ToSet(s.filters) :
                    "cr" \notin ToSet(f.text) /\ <<>> \notin ToSet(Lines(f.text))
Distinct(hosts) == \A x, y \in ToSet(hosts) : IsPrefix(x.name, y.name) => x = y

Unmapped(a, hosts) == \A h \in ToSet(hosts) : h.name # Host(a)

Plain(o) == PlainPath(o.ask) /\ PlainLists(o.set)

\* mod_http.cpp, HandleRequest() and ConnectToServer(): a request is redirected, forbidden or
\* sent to the server that the settings say, also after they were loaded again.
SentAsSet ==
    \A o \in ToSet(rt.last) : Plain(o) =>
        /\ o.how # "cache" => o.how = Expected(o.ask, o.set)
        /\ o.how = "cache" => Expected(o.ask, o.set) = "server"
        /\ o.how = "server" /\ Distinct(o.hosts) => o.where = Server(o.ask, o.hosts)

\* mod_http.cpp, Handle_GET_HEAD(): a page from the cache is the one its server has, unless the
\* request does not name the server, its host is mapped, or the settings were loaded in between.
CachedIsAsked ==
    \A o \in ToSet(rt.last) :
        o.how = "cache" /\ Plain(o) /\ Host(o.ask) # <<>> /\ o.page[1].loads = rt.loads =>
            LET page == o.page[1]
            IN /\ page.rest = o.ask.parts.rest
               /\ Unmapped(o.ask, o.hosts) => page.where = Server(o.ask, o.hosts)

\* mod_http.cpp, IsCacheable(): what is not to be kept is not, unless its host is mapped, or the
\* settings were loaded in between.
KeptAsSet ==
    \A page \in rt.cache :
        PlainPath(page.ask) /\ PlainLists(page.set) /\ Filter(page.ask, page.set) = "nocache" =>
            ~Unmapped(page.ask, rt.hosts) \/ page.loads # rt.loads

\* hostmapper.cpp, Clear(): the daemon outlives the first reload of the map.
HostsReload == rt.crash => rt.cleared >= 2

RoutedRight == SentAsSet /\ CachedIsAsked /\ KeptAsSet /\ HostsReload
=============================================================================
