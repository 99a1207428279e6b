---------------------------- MODULE RequestData ----------------------------
(***************************************************************************)
(* params.c, cookies.c, headers.c and url_decode: what the code of a page  *)
(* reads of a request and changes in its response.                         *)
(*                                                                         *)
(* A text is the sequence of its symbols: characters, separators and       *)
(* escapes ("%26"); an escape that is not complete is a "%" at the end.    *)
(* Where names and values are cut or have no room any more is left out,    *)
(* but for the length of a parameter's name, which ends the parsing.  So   *)
(* is value_len, which params_set_param leaves as it was: only the room    *)
(* for a redirect's url depends on it.                                     *)
(***************************************************************************)
EXTENDS Simclist, SequencesExt

CONSTANTS
  Decoded,               \* [escape -> text]: urlcodes; what is not hexadecimal, or a
                         \* control character, is decoded to nothing
  NotAscii,              \* the symbols beyond 127
  Canonical,             \* [spelling -> name]: what header_formatname makes of a name
  PARAMS_NAME_MAX_LEN,
  HalfDay                \* hours on the dial of a clock

ASSUME HalfDayAssumption == HalfDay \in Nat \ {0}

\* The place of the first symbol sep in a text from position p on, or just behind
\* its last one.
Find(text, sep, p) ==
  LET at == {i \in p..Len(text) : text[i] = sep}
  IN  IF at = {} THEN Len(text) + 1 ELSE CHOOSE i \in at : \A j \in at : i <= j

Plain(text) ==
  FlattenSeq([i \in DOMAIN text |-> IF text[i] \in DOMAIN Decoded THEN Decoded[text[i]] ELSE <<text[i]>>])

\* The length of a text in bytes: an escape has three.
Bytes(text) == Len(text) + 2 * Cardinality({i \in DOMAIN text : text[i] \in DOMAIN Decoded})

\* At an incomplete escape the loop ends with url_ptr behind the last complete one,
\* and what is between the two is appended a second time.
url_decode(text) ==
  LET n == Len(text)
      escapes == {0} \cup {i \in 1..n : text[i] \in DOMAIN Decoded}
      last == CHOOSE i \in escapes : \A j \in escapes : i >= j
  IN  IF n > 0 /\ text[n] = "%" THEN Plain(SubSeq(text, 1, n - 1)) \o SubSeq(text, last + 1, n)
      ELSE Plain(text)
----------------------------------------------------------------------------
(* params.c. *)

\* Mutant: the name goes on to the last equals sign.
NameEnd_last(raw, p, end) ==
  LET at == {i \in p..(end - 1) : raw[i] = "="}
  IN  IF at = {} THEN end ELSE CHOOSE i \in at : \A j \in at : i >= j

\* name_ptr: it stays at the first equals sign before the end of the parameter.
NameEnd(raw, p, end) ==
  LET at == Find(raw, "=", p) IN IF at < end THEN at ELSE end

\* The parameters of raw, and where the parsing ends before it is through: a name
\* that is too long before it is decoded, or not ASCII when it is.
Parsed(raw, type) ==
  LET from[p \in 1..(Len(raw) + 1)] ==
        IF p > Len(raw) THEN <<>>
        ELSE LET end == Find(raw, "&", p)
                 eq == NameEnd(raw, p, end)
                 name == url_decode(SubSeq(raw, p, eq - 1))
                 value == url_decode(SubSeq(raw, eq + 1, end - 1))
             IN  IF \/ Bytes(SubSeq(raw, p, eq - 1)) >= PARAMS_NAME_MAX_LEN
                    \/ \E i \in DOMAIN name : name[i] \in NotAscii
                 THEN <<>>
                 ELSE <<[name |-> name, value |-> value, type |-> type]>>
                        \o from[IF end <= Len(raw) THEN end + 1 ELSE end]
  IN  from[1]

params_parse_qs(params, raw, type) == FoldLeft(list_append, params, Parsed(raw, type))

\* The position of the first parameter with the name, -1 when there is none.
ParamAt(params, name) ==
  LET at == {i \in 0..(list_size(params) - 1) : list_get_at(params, i).name = name}
  IN  IF at = {} THEN -1 ELSE CHOOSE i \in at : \A j \in at : i <= j

params_set_param(params, name, value) ==
  LET at == ParamAt(params, name)
  IN  IF at >= 0
      THEN [params EXCEPT !.data[list_findpos(params, at)].value = value]
      ELSE list_append(params, [name |-> name, value |-> value, type |-> "CUSTOM"])
----------------------------------------------------------------------------
(* cookies.c.  Time is counted in hours from a midnight on, 0 is no time. *)

Year == HalfDay + 1         \* how long ago a deleted cookie expired: more than half a day
Null == <<"NULL">>          \* an argument that is not given
Attrs == {"max_age", "domain", "path", "http_only", "secure"}
NoAttrs == [a \in Attrs |-> Null]      \* none is given
EmptyAttrs == [a \in Attrs |-> <<>>]    \* a new cookie's: "" and 0

NewCookie(name, value) ==
  [name |-> name, value |-> value, expires |-> 0, attrs |-> EmptyAttrs, updated |-> FALSE]

\* A name without equals sign goes up to the next one; no name ends the parsing.
cookies_parse(raw) ==
  LET from[p \in 1..(Len(raw) + 1)] ==
        LET eq == Find(raw, "=", p)
            end == Find(raw, "; ", eq + 1)
        IN  IF p > Len(raw) \/ eq > Len(raw) \/ eq = p THEN <<>>
            ELSE <<NewCookie(SubSeq(raw, p, eq - 1), SubSeq(raw, eq + 1, end - 1))>>
                   \o from[IF end <= Len(raw) THEN end + 1 ELSE Len(raw) + 1]
  IN  from[1]

\* _cookies_get_cookie: the first with the name, or 0.
CookieAt(cookies, name) ==
  LET at == {i \in DOMAIN cookies : cookies[i].name = name}
  IN  IF at = {} THEN 0 ELSE CHOOSE i \in at : \A j \in at : i <= j

\* What an argument that is given, and is not what the cookie has, changes.
WithValue(c, value) ==
  IF value = Null \/ value = c.value THEN c ELSE [c EXCEPT !.value = value, !.updated = TRUE]

WithAttrs(c, attrs) ==
  LET changed == {a \in Attrs : attrs[a] # Null /\ attrs[a] # c.attrs[a]}
  IN  IF changed = {} THEN c
      ELSE [c EXCEPT !.attrs = [a \in Attrs |-> IF a \in changed THEN attrs[a] ELSE @[a]], !.updated = TRUE]

\* Mutant: the time of a cookie that has expired stays when the cookie is set again.
WithExpires_kept(c, expires, now) ==
  IF expires # 0 /\ c.expires # expires
  THEN [c EXCEPT !.expires = expires, !.updated = TRUE]
  ELSE c

WithExpires(c, expires, now) ==
  IF \/ expires # 0 /\ c.expires # expires
     \/ c.updated /\ c.expires # 0 /\ c.expires < now
  THEN [c EXCEPT !.expires = expires, !.updated = TRUE]
  ELSE c

cookies_set_cookie(cookies, name, value, expires, attrs, now) ==
  LET at == CookieAt(cookies, name)
      c == IF at = 0 THEN [NewCookie(name, <<>>) EXCEPT !.updated = TRUE] ELSE cookies[at]
      set == WithExpires(WithAttrs(WithValue(c, value), attrs), expires, now)
  IN  IF at = 0 THEN Append(cookies, set) ELSE [cookies EXCEPT ![at] = set]

cookies_del_cookie(cookies, name, now) ==
  cookies_set_cookie(cookies, name, Null, now - Year, NoAttrs, now)

\* The cookie's value, Null when there is no cookie or it has expired.
cookies_get_cookie(cookies, name, now) ==
  LET at == CookieAt(cookies, name)
  IN  IF at = 0 THEN Null
      ELSE IF cookies[at].expires = 0 \/ cookies[at].expires > now THEN cookies[at].value ELSE Null

\* The hour that strftime prints: the dial's, without AM or PM.
DialHour(t) == IF t % HalfDay = 0 THEN HalfDay ELSE t % HalfDay

\* "%a, %d-%b-%Y %I:%M:%S %Z": the day and the hour.
strftime(t) == <<ToString(t \div (2 * HalfDay)), ToString(DialHour(t))>>

\* The text of the Set-Cookie header: what the cookies that were updated say, one
\* behind the other.  Of Max-Age the text is not the number (sprintf prints its own
\* buffer's address).
CookieText(c) ==
  LET Attr(a) == IF c.attrs[a] = <<>> THEN <<>> ELSE <<"; ", a>> \o c.attrs[a]
  IN  c.name \o <<"=">> \o c.value
        \o (IF c.expires # 0 THEN <<"; ", "Expires">> \o strftime(c.expires) ELSE <<>>)
        \o Attr("max_age") \o Attr("path") \o Attr("domain") \o Attr("secure") \o Attr("http_only")

cookies_to_string(cookies) ==
  FlattenSeq([i \in DOMAIN cookies |-> IF cookies[i].updated THEN CookieText(cookies[i]) ELSE <<>>])
----------------------------------------------------------------------------
(* headers.c. *)

header_formatname(name) == IF name \in DOMAIN Canonical THEN Canonical[name] ELSE name

headers_get_header(headers, name) ==
  LET at == {i \in DOMAIN headers : headers[i].name = header_formatname(name)}
  IN  IF at = {} THEN 0 ELSE CHOOSE i \in at : \A j \in at : i <= j

\* A header that is there gets the new value; Set-Cookie is added each time.
headers_set_header(headers, name, value) ==
  LET at == headers_get_header(headers, name)
  IN  IF at = 0 \/ header_formatname(name) = "Set-Cookie"
      THEN Append(headers, [name |-> header_formatname(name), value |-> value])
      ELSE [headers EXCEPT ![at].value = value]
=============================================================================
