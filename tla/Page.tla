-------------------------------- MODULE Page --------------------------------
(***************************************************************************)
(* The code of a page, in the program of a web application, at work on one *)
(* request: what it reads of the request, what it sets, and the response's *)
(* headers.  It runs through without any other code of the process; only   *)
(* time passes.  expected is what the page asked for.                      *)
(***************************************************************************)
EXTENDS RequestData

CONSTANTS
  PageRequests,  \* [query, body, cookie]: texts, the last the header Cookie's
  CookieNames,   \* the cookies a page uses, texts
  Values,        \* the values a page sets, texts
  ParamNames,    \* the parameters a page sets, texts
  HeaderNames,   \* the headers a page sets, in any spelling
  Paths,         \* the paths of cookies, "" among them
  MaxCalls,      \* bound: the calls of a page
  Times,         \* the times at which a page lets cookies expire
  Now0,          \* the time of the request
  MaxNow         \* bound: the time

ASSUME TimesAssumption == Now0 > Year /\ MaxNow >= Now0 /\ \A t \in Times : t >= Now0

VARIABLE page

\* Before the request.
NoPage == [sent |-> FALSE]

PageInit == page = NoPage
----------------------------------------------------------------------------
(* The request. *)

QueryParams(query) == params_parse_qs(list_init, query, "GET")

\* A body is parsed when its type is that of a form.  headers_get_header_attr returns
\* a buffer of its own frame, so the comparison may go either way.
BodyParams(params, body, is_form) == IF is_form THEN params_parse_qs(params, body, "POST") ELSE params

\* "To ensure thier position at the top of the headers".
FirstHeaders == headers_set_header(headers_set_header(<<>>, "Date", <<>>), "Server", <<>>)

\* What a page may expect of a text of pairs: the pieces between the ampersands, each
\* split at its first equals sign and then decoded, up to a name that is refused: it
\* is too long as it stands in the request.  An empty piece at the end is none.
Pieces(raw) ==
  LET ends == SetToSortSeq({i \in DOMAIN raw : raw[i] = "&"} \cup {0, Len(raw) + 1}, <)
      all == [k \in 1..(Len(ends) - 1) |-> SubSeq(raw, ends[k] + 1, ends[k + 1] - 1)]
  IN  IF Last(all) = <<>> THEN Front(all) ELSE all

NameLen(piece) ==
  LET at == SelectInSeq(piece, LAMBDA c : c = "=") IN IF at = 0 THEN Len(piece) ELSE at - 1

RawName(piece) == SubSeq(piece, 1, NameLen(piece))

Pair(piece, type) ==
  [name |-> Plain(RawName(piece)), value |-> Plain(SubSeq(piece, NameLen(piece) + 2, Len(piece))),
   type |-> type]

Refused(piece) ==
  \/ Bytes(RawName(piece)) >= PARAMS_NAME_MAX_LEN
  \/ ToSet(Plain(RawName(piece))) \cap NotAscii # {}

Pairs(raw, type) ==
  LET all == Pieces(raw)
      bad == SelectInSeq(all, Refused)
  IN  [k \in 1..(IF bad = 0 THEN Len(all) ELSE bad - 1) |-> Pair(all[k], type)]

\* The browser keeps a value and a time for each cookie, 0 for none.
Kept(line) ==
  LET jar == cookies_parse(line)
  IN  [n \in CookieNames |->
         IF CookieAt(jar, n) = 0 THEN [value |-> Null, until |-> 0]
         ELSE [value |-> jar[CookieAt(jar, n)].value, until |-> 0]]

\* The request is parsed and the first two headers of the response are set.
connection_create(r, is_form) ==
  /\ page = NoPage
  /\ page' =
       [params |-> BodyParams(QueryParams(r.query), r.body, is_form),
        cookies |-> cookies_parse(r.cookie),
        headers |-> FirstHeaders,
        now |-> Now0, calls |-> 0, sent |-> FALSE,
        exact |-> "%" \notin ToSet(r.query) \cup ToSet(r.body),
        browser |-> Kept(r.cookie),
        expected |->
          [params |-> Pairs(r.query, "GET") \o (IF is_form THEN Pairs(r.body, "POST") ELSE <<>>),
           cookies |-> Kept(r.cookie),
           headers |-> [h \in {} |-> <<>>]]]
----------------------------------------------------------------------------
(* The calls of the page. *)

Running == page # NoPage /\ ~page.sent
Called == Running /\ page.calls < MaxCalls

\* Parameters: pyzimr_params__mapset__.
SetParam(name, value) ==
  LET s == page.expected.params
      at == SelectInSeq(s, LAMBDA p : p.name = name)
  IN  /\ Called
      /\ at # 0 \/ Len(s) < MaxEntries
      /\ page' = [page EXCEPT
                    !.calls = @ + 1,
                    !.params = params_set_param(@, name, value),
                    !.expected.params =
                      IF at # 0 THEN [@ EXCEPT ![at].value = value]
                      ELSE Append(@, [name |-> name, value |-> value, type |-> "CUSTOM"])]

\* What the page can expect of a cookie it sets: the value, and the time it gives; when
\* it gives none, a time that is not past stays.  The present second is not past,
\* although cookies_get_cookie has the cookie expired in it: that assignment is lost.
Asked(kept, value, expires) ==
  [value |-> value,
   until |-> IF expires # 0 THEN expires ELSE IF kept.until >= page.now THEN kept.until ELSE 0]

Deleted == [value |-> Null, until |-> 0]

\* pyzimr_connection_set_cookie: an attribute that is not given is "".
SetCookie(name, value, expires, path) ==
  /\ Called
  /\ page' = [page EXCEPT
                !.calls = @ + 1,
                !.cookies = cookies_set_cookie(@, name, value, expires,
                              [NoAttrs EXCEPT !["path"] = path, !["domain"] = <<>>], page.now),
                !.expected.cookies[name] = Asked(@, value, expires)]

\* pyzimr_cookies___mapset__ with a value, and without one.
MapSetCookie(name, value) ==
  /\ Called
  /\ page' = [page EXCEPT
                !.calls = @ + 1,
                !.cookies = cookies_set_cookie(@, name, value, 0, NoAttrs, page.now),
                !.expected.cookies[name] = Asked(@, value, 0)]

MapDelCookie(name) ==
  /\ Called
  /\ page' = [page EXCEPT
                !.calls = @ + 1,
                !.cookies = cookies_del_cookie(@, name, page.now),
                !.expected.cookies[name] = Deleted]

\* pyzimr_response_set_header and pyzimr_headers__mapset__.
SetHeader(name, value) ==
  /\ Called
  /\ page' = [page EXCEPT
                !.calls = @ + 1,
                !.headers = headers_set_header(@, name, value),
                !.expected.headers = (header_formatname(name) :> value) @@ @]

Tick ==
  /\ Running
  /\ page.now < MaxNow
  /\ page' = [page EXCEPT !.now = @ + 1]
----------------------------------------------------------------------------
(* The response. *)

\* External: the time a browser reads; it takes the hour for one of the whole day.
ReadTime(day, hour) ==
  CHOOSE t \in 1..(2 * (Max(Times) + HalfDay)) :
    \E d \in 0..t, h \in 1..HalfDay :
      t = 2 * HalfDay * d + h /\ ToString(d) = day /\ ToString(h) = hour

\* The clock's dial tells the hour: not after noon, when the browser reads a time half
\* a day too early, nor at midnight, when it reads noon.
Unambiguous(t) == (t % (2 * HalfDay)) \in 1..HalfDay

\* External: what a browser does with a Set-Cookie header that gives one cookie.  The
\* value goes up to the first semicolon; a time that has come deletes the cookie.
Stored(browser, text, now) ==
  LET eq == Find(text, "=", 1)
      end == Find(text, "; ", eq + 1)
      name == SubSeq(text, 1, eq - 1)
      at == Find(text, "Expires", end)
      until == IF at > Len(text) THEN 0
               ELSE ReadTime(text[at + 1], text[at + 2])
  IN  [n \in CookieNames |->
         IF n # name THEN browser[n]
         ELSE IF until # 0 /\ until <= now THEN Deleted
         ELSE [value |-> SubSeq(text, eq + 1, end - 1), until |-> until]]

\* The headers of the response as they are sent.
ResponseHeaders(headers, cookies, now) ==
  LET dated == headers_set_header(headers_set_header(headers, "Date", <<ToString(now)>>),
                                  "Server", <<"Zimr">>)
      text == cookies_to_string(cookies)
  IN  IF text = <<>> THEN dated ELSE headers_set_header(dated, "Set-Cookie", text)

zimr_connection_send_headers ==
  LET headers == ResponseHeaders(page.headers, page.cookies, page.now)
      text == cookies_to_string(page.cookies)
  IN  /\ Running
      /\ page' = [page EXCEPT
                    !.sent = TRUE,
                    !.headers = headers,
                    !.browser = IF text = <<>> THEN @ ELSE Stored(@, Last(headers).value, page.now)]
----------------------------------------------------------------------------
PageNext ==
  \/ \E r \in PageRequests, is_form \in BOOLEAN : connection_create(r, is_form)
  \/ \E n \in ParamNames, v \in Values : SetParam(n, v)
  \/ \E n \in CookieNames, v \in Values, t \in {0} \cup Times, p \in Paths : SetCookie(n, v, t, p)
  \/ \E n \in CookieNames, v \in Values : MapSetCookie(n, v)
  \/ \E n \in CookieNames : MapDelCookie(n)
  \/ \E h \in HeaderNames, v \in Values : SetHeader(h, v)
  \/ Tick
  \/ zimr_connection_send_headers
----------------------------------------------------------------------------
\* The parameters of a page are those its request and its form say, in their order,
\* split before they are decoded so that an escaped separator belongs to its name or
\* value, and every later assignment changes the first one of that name alone.
\* Excepted is a request with an incomplete escape: url_decode repeats a part of it.
ParamsAgree ==
  page # NoPage /\ page.exact => Holds(page.params, page.expected.params)

\* After any sequence of assignments and deletions, with time passing between them, a
\* page reads of a cookie what it last asked for; the response has each header once,
\* as last set in whatever spelling; and the browser then has the cookies the page
\* has.  A browser is only held to that when one cookie changed, as cookies_to_string
\* puts nothing between two, and not for a cookie that expires when strftime's clock
\* is ambiguous.
ResponseAgrees ==
  page # NoPage =>
    /\ \A n \in CookieNames :
         LET c == page.expected.cookies[n]
         IN  cookies_get_cookie(page.cookies, n, page.now)
               = IF c.until # 0 /\ c.until <= page.now THEN Null ELSE c.value
    /\ page.sent =>
         /\ \A h \in DOMAIN page.expected.headers \ {"Set-Cookie", "Date", "Server"} :
              SelectSeq(page.headers, LAMBDA x : x.name = h)
                = <<[name |-> h, value |-> page.expected.headers[h]]>>
         /\ Cardinality({i \in DOMAIN page.cookies : page.cookies[i].updated}) <= 1 =>
              \A n \in CookieNames :
                LET t == page.expected.cookies[n].until
                IN  t = 0 \/ Unambiguous(t) =>
                      cookies_get_cookie(page.cookies, n, page.now) = page.browser[n].value
=============================================================================
