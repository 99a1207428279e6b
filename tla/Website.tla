------------------------------- MODULE Website -------------------------------
(***************************************************************************)
(* website.c: the table of websites, a list of pointers.  sites[w] is the  *)
(* website_t that w points to.  A url is the sequence of its parts: the    *)
(* host or "*", the port if there is one, and the characters of the path:  *)
(* startswith compares texts, so a website at /a is also that of /ab.      *)
(***************************************************************************)
EXTENDS Simclist, SequencesExt

CONSTANTS
  Ports,       \* the parts of a url that begin with a colon
  Protocols    \* "http://" and "https://"

\* strchr: the place of the first part in parts, or the end of the url.
Strchr(url, parts) ==
  LET at == {i \in 1..Len(url) : url[i] \in parts}
  IN  IF at = {} THEN Len(url) + 1 ELSE CHOOSE i \in at : \A j \in at : i <= j

From(url, i) == SubSeq(url, i, Len(url))
Path(url) == From(url, Strchr(url, {"/"}))

\* w->full_url: a url without protocol gets "http://".
Protocol(full_url) == IF full_url.protocol \in Protocols THEN full_url.protocol ELSE "http://"

NewWebsite(sockfd, full_url, ip) ==
  [sockfd |-> sockfd, protocol |-> Protocol(full_url), url |-> full_url.url, ip |-> ip]

website_add(list, w) == list_append(list, w)

website_remove(list, w) ==
  LET i == list_locate(list, w) IN IF i >= 0 THEN list_delete_at(list, i) ELSE list

\* The first website of the list that satisfies a test, as both lookups search it.
First(list, Test(_)) ==
  LET at == {i \in 0..(list_size(list) - 1) : Test(list_get_at(list, i))}
  IN  IF at = {} THEN NULL ELSE list_get_at(list, CHOOSE i \in at : \A j \in at : i <= j)

website_get_by_full_url(list, sites, full_url, ip) ==
  First(list, LAMBDA w : /\ sites[w].protocol = full_url.protocol
                         /\ sites[w].url = full_url.url
                         /\ sites[w].ip = ip)

website_get_by_sockfd(list, sites, sockfd) ==
  First(list, LAMBDA w : sites[w].sockfd = sockfd)

\* strncmp of n parts of a from i with those of b from j.
SameParts(a, i, b, j, n) ==
  SubSeq(a, i, IF i + n - 1 < Len(a) THEN i + n - 1 ELSE Len(a))
    = SubSeq(b, j, IF j + n - 1 < Len(b) THEN j + n - 1 ELSE Len(b))

\* Host and port: the longer of the two decides how much is compared.  For a
\* wildcard the comparison begins at the first colon of the request's url.
HostMatches(w, url) ==
  LET wildcard == w.url[1] = "*"
      w_url_ptr == IF wildcard THEN 2 ELSE 1
      colon == Strchr(url, Ports)
      url_ptr == IF ~wildcard THEN 1
                 ELSE IF colon <= Len(url) THEN colon ELSE Strchr(url, {"/"})
      w_len == Strchr(w.url, {"/"}) - w_url_ptr
      len == Strchr(url, {"/"}) - url_ptr
  IN  SameParts(w.url, w_url_ptr, url, url_ptr, IF w_len > len THEN w_len ELSE len)

Matches(w, url, protocol, ip) ==
  /\ HostMatches(w, url)
  /\ IsPrefix(Path(w.url), Path(url))
  /\ w.protocol = protocol
  /\ w.ip = ip

\* Mutant: the wildcard counts as much as a name.
Specific_any_host(w) == Len(Path(w.url))

\* A host that is not a wildcard counts one more.
Specific(w) == Len(Path(w.url)) + (IF w.url[1] # "*" THEN 1 ELSE 0)

website_find(list, sites, url, protocol, ip) ==
  LET best[i \in 0..list_size(list)] ==
        IF i = 0 THEN [len |-> 0, found |-> NULL]
        ELSE LET w == list_get_at(list, i - 1)
             IN  IF Matches(sites[w], url, protocol, ip) /\ Len(Path(sites[w].url)) >= best[i - 1].len
                 THEN [len |-> Specific(sites[w]), found |-> w]
                 ELSE best[i - 1]
  IN  best[list_size(list)].found
=============================================================================
