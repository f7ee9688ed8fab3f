-------------------------- MODULE MCRequestReplay --------------------------
(* A small instance of RequestReplay for TLC: a shop with charges. *)
EXTENDS RequestReplay
-----------------------------------------------------------------------------
(* The texts in the order of their bytes. *)
MCOrder ==
  << "", " ", "42", "U+FFFD", "[BODY_TRUNCATED]", "_global", "_tenant", "a", "api",
     "apis", "b", "ch_1", "ch_12", "ch_2", "charge_id", "charges", "data", "h1", "h2",
     "id", "ref", "t1", "x", "y" >>
MCTexts == ToSet(MCOrder)
MCRank == [t \in MCTexts |-> SelectInSeq(MCOrder, LAMBDA u : u = t)]
MCHas ==
  [t \in MCTexts |->
     CASE t = "" -> {}
       [] t = "42" -> {"digit"}
       [] t \in {"ch_1", "ch_12", "ch_2"} -> {"letter", "digit", "underscore"}
       [] t \in {"h1", "h2", "t1"} -> {"letter", "digit"}
       [] t \in {"_global", "_tenant", "charge_id"} -> {"letter", "underscore"}
       [] t \in {" ", "U+FFFD", "[BODY_TRUNCATED]"} -> {"other"}
       [] OTHER -> {"letter"}]
MCPrefixOf == {<<t, t>> : t \in MCTexts} \cup {<<"api", "apis">>, <<"ch_1", "ch_12">>}
MCInside ==
  MCPrefixOf \cup {<<"a", "apis">>, <<"a", "api">>, <<"a", "data">>, <<"id", "charge_id">>}
MCLength ==
  [t \in MCTexts |-> CASE t = "" -> 0 [] t \in {"a", "b", "x", "y", " "} -> 1
                       [] t = "ch_12" -> 5 [] t = "[BODY_TRUNCATED]" -> 9 [] OTHER -> 4]
MCTrimmed == [t \in MCTexts |-> IF t = " " THEN "" ELSE t]
MCClipped == [t \in MCTexts |-> t]
MCIdField == [t \in MCTexts |-> IF t = "charges" THEN "charge_id" ELSE "id"]
-----------------------------------------------------------------------------
h1 == [name |-> "h1", port |-> 0]
h2 == [name |-> "h2", port |-> 8080]
MCRoutes ==
  << [type |-> "host", value |-> [name |-> "h2", port |-> 0], service |-> "h2"],
     [type |-> "path", value |-> <<"api">>, service |-> "api"] >>
-----------------------------------------------------------------------------
P(k, v) == [key |-> k, value |-> v]
U(path, query) == [path |-> path, query |-> query]
Nothing == [form |-> "empty", leaves |-> <<>>]
Str(at, t) == [at |-> at, kind |-> "string", text |-> t]
Num(at, t) == [at |-> at, kind |-> "number", text |-> t]
Json(leaves) == [form |-> "json", leaves |-> leaves]
Words(ts) ==
  [form |-> "text", leaves |-> [n \in DOMAIN ts |-> [at |-> <<>>, kind |-> "other", text |-> ts[n]]]]
Get(host, uri, header) ==
  [method |-> "GET", host |-> host, uri |-> uri, header |-> header, body |-> Nothing]
Bytes(t) == [form |-> "bytes", leaves |-> << [at |-> <<>>, kind |-> "other", text |-> t] >>]
Post(uri, body) ==
  [method |-> "POST", host |-> h1, uri |-> uri, header |-> NoHeader, body |-> body]
Ok(body) == [ok |-> TRUE, body |-> body]
-----------------------------------------------------------------------------
BA == << P("b", "x"), P("a", "y") >>
AB == << P("a", "y"), P("b", "x") >>
T1 == << P("_tenant", "t1") >>
Charge(id) == <<"charges", id>>
Ref(t) == Json(<< Str(<<"ref">>, t) >>)
(* Nested ids come first in the document, and the id may be a number. *)
Created == Json(<< Str(<<"data", "id">>, "ch_2"), Str(<<"id">>, "ch_1"), Str(<<"ref">>, "x") >>)
Counted == Json(<< Num(<<"data", "charge_id">>, "42"), Str(<<"ref">>, "y") >>)
(* A body longer than MAX_BODY_BYTES. *)
MCLong == Words(<<"charges", "a", "b">>)
MCOversize == {MCLong}
-----------------------------------------------------------------------------
MCExchanges ==
  { << Get(h1, U(Charge("ch_1"), BA), NoHeader), Ok(Json(<<Str(<<"id">>, "ch_1"), Str(<<"ref">>, "x")>>)) >>,
    << Get(h1, U(Charge("ch_1"), AB), " "), Ok(Json(<<Num(<<"a">>, "42"), Str(<<"id">>, "ch_12"), Str(<<"ref">>, "ch_1")>>)) >>,
    << Get(h1, U(Charge("ch_1"), T1 \o BA), NoHeader), Ok(Ref("y")) >>,
    << Get(h1, U(Charge("ch_1"), T1 \o AB \o T1), "_global"), Ok(Ref("x")) >>,
    << Get(h2, U(<<"apis", "ch_1">>, << P("a", NoValue) >>), "t1"), Ok(Ref("ch_1")) >>,
    << Post(U(<<"charges">>, <<>>), Ref("x")), Ok(Created) >>,
    << Post(U(<<"charges">>, <<>>), Ref("y")), Ok(Counted) >>,
    << Post(U(<<"charges">>, <<>>), Bytes("x")), Ok(Ref("x")) >>,
    << Post(U(<<"charges">>, <<>>), MCLong), Ok(Ref("y")) >> }
-----------------------------------------------------------------------------
MCAsked ==
  { Get(h1, U(Charge("ch_1"), AB), NoHeader),
    Get(h1, U(Charge("ch_1"), BA), "t1"),
    Get(h1, U(Charge("ch_1"), << P("b", "x"), P("_tenant", "t1"), P("a", "y"), P("_tenant", "x") >>), NoHeader),
    Get(h1, U(Charge("ch_1"), << P("a", "x"), P("b", "x") >>), NoHeader),
    Get(h1, U(Charge("ch_2"), BA), NoHeader),
    Get(h1, U(Charge("ch_1"), <<>>), NoHeader),
    Get(h1, U(Charge("42"), <<>>), NoHeader),
    Get(h1, U(<<"apis", "ch_1">>, << P("a", "") >>), "t1"),
    Get(h2, U(<<"apis", "ch_2">>, << P("a", ""), P("_tenant", NoValue), P("_tenant", "t1") >>), NoHeader),
    Post(U(<<"charges">>, <<>>), Ref("x")),
    Post(U(<<"charges">>, <<>>), Ref("y")),
    Post(U(<<"charges">>, <<>>), Bytes("x")), Post(U(<<"charges">>, <<>>), Bytes("y")),
    Post(U(<<"charges">>, <<>>), MCLong) }
-----------------------------------------------------------------------------
EntryOf(w, service, tenant, body) ==
  [key |-> [service |-> service, method |-> w.method, uri |-> w.uri, tenant |-> tenant],
   body |-> w.body, response |-> [body |-> body, length |-> ByteLength(body)]]
MCCreatedMocks == { EntryOf(Get(h1, U(Charge("ch_1"), BA), NoHeader), "_global", "", Ref("ch_1")) }
-----------------------------------------------------------------------------
(* Recordings that the code replays otherwise than its comments say: bytes *)
(* that are no text, an id that is a number, words one substitution makes  *)
(* and the next replaces, an id that changes its length.                   *)
MCOddExchanges ==
  { << Get(h1, U(Charge("ch_1"), <<>>), NoHeader),
       Ok([Json(<<Str(<<"id">>, "ch_1")>>) EXCEPT !.form = "bytes"]) >>,
    << Get(h1, U(Charge("42"), <<>>), NoHeader), Ok(Json(<<Num(<<"id">>, "42")>>)) >>,
    << Get(h1, U(Charge("ch_1"), << P("a", "ch_2") >>), NoHeader), Ok(Words(<<"ch_1", "ch_2">>)) >>,
    << Get(h2, U(Charge("ch_1"), <<>>), NoHeader), Ok(Json(<<Str(<<"id">>, "ch_1")>>)) >> }
MCOddAsked ==
  { Get(h1, U(Charge("ch_1"), <<>>), NoHeader), Get(h1, U(Charge("ch_1"), BA), NoHeader),
    Get(h1, U(Charge("ch_2"), << P("a", "ch_12") >>), NoHeader),
    Get(h2, U(Charge("ch_12"), <<>>), NoHeader) }
=============================================================================
