----------------------------- MODULE SmartSwap -----------------------------
(***************************************************************************)
(* find_smart_swap, which answers a request from the recording of another  *)
(* (matcher.rs), and extract_id, which finds the id of a created resource  *)
(* in a JSON body (resource_store.rs).                                     *)
(*                                                                         *)
(* A body is a sequence of leaves: the scalars of a JSON document in the   *)
(* order of its keys, each with its path, or the words of a text.          *)
(***************************************************************************)
EXTENDS UriPath

CONSTANTS
  Inside,    \* pairs of texts, the first a substring of the second
  Length,    \* [Texts -> Nat], in bytes
  IdField,   \* [Texts -> Texts]: "{singular}_id" of a collection
  NoId

ASSUME SwapAssumption ==
  /\ Inside \subseteq Texts \X Texts /\ \A t \in Texts : <<t, t>> \in Inside
  /\ Length \in [Texts -> Nat]
  /\ IdField \in [Texts -> Texts] /\ NoId \notin Texts

Leaf == [at: Seq(Texts), kind: {"string", "number", "other"}, text: Texts]

(* Every scalar of a JSON document has a place of its own, and a number    *)
(* has digits.                                                             *)
Body ==
  {b \in [form: {"empty", "json", "text", "bytes"}, leaves: Seq(Leaf)] :
     b.form = "json" =>
       \A m, n \in DOMAIN b.leaves :
         /\ b.leaves[m].at = b.leaves[n].at => m = n
         /\ b.leaves[n].kind = "number" => b.leaves[n].text # ""}

LeafSet(body) == {body.leaves[i] : i \in DOMAIN body.leaves}

ByteLength(body) ==
  LET upTo[n \in 0..Len(body.leaves)] ==
        IF n = 0 THEN 0 ELSE upTo[n - 1] + Length[body.leaves[n].text]
  IN  upTo[Len(body.leaves)]

(***************************************************************************)
(* The evidence: str::contains on the serialised response.                 *)
(***************************************************************************)
Evident(body, t) ==
  \/ t = ""
  \/ \E l \in LeafSet(body) : \/ <<t, l.text>> \in Inside
                              \/ \E n \in DOMAIN l.at : <<t, l.at[n]>> \in Inside

(***************************************************************************)
(* What the recorded and the incoming request have in one place, as pairs  *)
(* <<recorded, incoming>>.                                                 *)
(***************************************************************************)
PathPairs(r, i) == [n \in DOMAIN r |-> <<r[n], i[n]>>]

(* parse_query: the last parameter of a key wins.                          *)
Params(q) ==
  [k \in {q[n].key : n \in DOMAIN q} |->
     Filled(q[SelectLastInSeq(q, LAMBDA p : p.key = k)]).value]

QueryDiffs(r, i) ==
  { <<Params(r)[k], Params(i)[k]>> :
      k \in {k \in (DOMAIN Params(r)) \cap (DOMAIN Params(i)) : Params(r)[k] # Params(i)[k]} }

(* collect_value_diffs: the strings at one place of both documents.        *)
BodyPairs(r, i) ==
  LET There(l) == {m \in LeafSet(i) : m.at = l.at /\ {m.kind, l.kind} = {"string"}}
  IN  IF r.form # "json" \/ i.form # "json" THEN <<>>
      ELSE [n \in DOMAIN r.leaves |->
              IF There(r.leaves[n]) = {} THEN <<"", "">>
              ELSE <<r.leaves[n].text, (CHOOSE m \in There(r.leaves[n]) : TRUE).text>>]

(* Of the pairs that differ and are evident in the response, the last one  *)
(* of a recorded text counts.                                              *)
LastOfEach(pairs, body) ==
  LET of(t) == {n \in DOMAIN pairs : /\ pairs[n][1] = t /\ pairs[n][2] # t
                                     /\ Evident(body, t)}
  IN  [t \in {pairs[n][1] : n \in {n \in DOMAIN pairs : of(pairs[n][1]) # {}}} |->
         pairs[Max(of(t))][2]]

(* The parameters come in the order of a HashMap, which can be any.        *)
Substitutions(entry, w) ==
  { LastOfEach(PathPairs(entry.key.uri.path, w.uri.path)
                 \o query \o BodyPairs(entry.body, w.body), entry.response.body) :
      query \in SetToSeqs(QueryDiffs(entry.key.uri.query, w.uri.query)) }

(***************************************************************************)
(* apply_substitutions_to_json                                             *)
(***************************************************************************)
Replace(subs, t) == IF t \in DOMAIN subs THEN subs[t] ELSE t

WithText(l, t) == [l EXCEPT !.text = t]

(* Variant for checking: the strings that contain a text are replaced.     *)
InJsonLoosely(body, subs) ==
  [body EXCEPT !.leaves = [n \in DOMAIN @ |->
     LET from == {t \in DOMAIN subs : <<t, @[n].text>> \in Inside} IN
     IF from = {} THEN @[n]
     ELSE WithText(@[n], subs[CHOOSE t \in from : TRUE])]]

(* All strings at once; numbers, booleans and keys stay.                   *)
InJson(body, subs) ==
  [body EXCEPT !.leaves = [n \in DOMAIN @ |->
     IF @[n].kind = "string" THEN WithText(@[n], Replace(subs, @[n].text)) ELSE @[n]]]

(* One text after the other, the longest first: what one put there, the    *)
(* next may replace.                                                       *)
InText(body, subs) ==
  { [body EXCEPT !.leaves = [n \in DOMAIN @ |->
       WithText(@[n],
         FoldLeft(LAMBDA t, from : IF t = from /\ from # "" THEN subs[from] ELSE t,
                  @[n].text, order))]] :
      order \in {o \in SetToSeqs(DOMAIN subs) :
                   \A i, j \in DOMAIN o : i < j => Length[o[i]] >= Length[o[j]]} }

Apply(body, subs) ==
  IF subs = <<>> THEN {body}
  ELSE IF body.form = "json" THEN {InJson(body, subs)} ELSE InText(body, subs)

(* The bodies a swap with this recording may serve: none when nothing      *)
(* can be substituted.                                                     *)
Swapped(entry, w) ==
  UNION { IF subs = <<>> /\ (entry.key.uri # w.uri \/ entry.body # w.body) THEN {}
          ELSE Apply(entry.response.body, subs) : subs \in Substitutions(entry, w) }

(***************************************************************************)
(* extract_id                                                              *)
(***************************************************************************)
MaxIdDepth == 3

Candidates(collection) == <<"id", "_id", IdField[collection]>>

(* stringify_id                                                            *)
IsId(l) == l.kind = "number" \/ (l.kind = "string" /\ l.text # "")

(* Ids(body, p, name): the ids an object has in its own field of a name.   *)
Ids(body, p, name) == {l \in LeafSet(body) : IsId(l) /\ l.at = Append(p, name)}

FirstUnder(body, p) == SelectInSeq(body.leaves, LAMBDA l : IsPrefix(p, l.at))

(* Variant for checking: the first id in the order of the document.        *)
ExtractFirstId(body, collection) ==
  LET c  == Candidates(collection)
      at == SelectInSeq(body.leaves, LAMBDA l : IsId(l) /\ l.at # <<>> /\ Last(l.at) \in ToSet(c))
  IN  IF at = 0 THEN NoId ELSE body.leaves[at].text

(* An object comes before those within it, and these in the order of the   *)
(* document; in one object the candidates are tried in their order.        *)
ExtractId(body, collection) ==
  LET c == Candidates(collection)
      objects == UNION { { SubSeq(l.at, 1, d) : d \in {d \in 0..MaxIdDepth : d < Len(l.at)} } :
                           l \in LeafSet(body) }
      having  == { p \in objects : \E n \in DOMAIN c : Ids(body, p, c[n]) # {} }
      first   == CHOOSE p \in having : \A q \in having \ {p} :
                   \/ IsPrefix(p, q)
                   \/ ~IsPrefix(q, p) /\ FirstUnder(body, p) < FirstUnder(body, q)
      which   == CHOOSE n \in DOMAIN c :
                   /\ Ids(body, first, c[n]) # {}
                   /\ \A m \in 1..n - 1 : Ids(body, first, c[m]) = {}
  IN  IF having = {} THEN NoId ELSE (CHOOSE l \in Ids(body, first, c[which]) : TRUE).text
=============================================================================
