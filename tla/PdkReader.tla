------------------------------ MODULE PdkReader ------------------------------
(***************************************************************************)
(* The PDK reader (crates/api/src/io/pdk.rs).  It parses neither JSON nor  *)
(* TOML: it looks in a text for the keys of its schema.  Here a JSON text  *)
(* is the sequence of its tokens and a TOML text that of its lines; no     *)
(* string holds a quote, a bracket or a comma.                             *)
(***************************************************************************)
EXTENDS Integers, Sequences, SequencesExt, Listing

CONSTANTS
  Largest,  \* of the integers, 2^63 - 1 in the code
  Schemas   \* what the author of a PDK file declares

\* A string, a number, which is n and perhaps a fraction, or a list of strings.
Value       == [kind : {"string", "number", "list"}, s : STRING, n : Int,
                whole : BOOLEAN, list : Seq(STRING)]
Declaration == [key : STRING, value : Value]

ASSUME PdkAssumption == Largest \in Nat /\ Schemas \subseteq Seq(Declaration)

Fits(n) == n \in - Largest - 1 .. Largest

----------------------------------------------------------------------------
(* How a schema is written down *)

Token(kind, s, n) == [kind |-> kind, s |-> s, n |-> n]
Quoted(s)         == Token("string", s, 0)
Mark(kind)        == Token(kind, "-", 0)
Listed(parts)     == FlattenSeq([k \in DOMAIN parts |->
                       IF k = 1 THEN parts[k] ELSE <<Mark(",")>> \o parts[k]])
Bracketed(parts)  == <<Mark("[")>> \o Listed(parts) \o <<Mark("]")>>

JsonValue(v) ==
  CASE v.kind = "string" -> <<Quoted(v.s)>>
    [] v.kind = "number" -> <<Token("number", "-", v.n)>>
    [] v.kind = "list"   -> Bracketed([k \in DOMAIN v.list |-> <<Quoted(v.list[k])>>])

Json(schema) ==
  <<Mark("{")>>
    \o Listed([k \in DOMAIN schema |->
         <<Quoted(schema[k].key), Mark(":")>> \o JsonValue(schema[k].value)])
    \o <<Mark("}")>>

\* Some lines may end in a comment.
Toml(schema, commented) ==
  [k \in DOMAIN schema |-> [declared |-> schema[k], commented |-> k \in commented]]

----------------------------------------------------------------------------
(* The scanners.  An Option is a set of at most one value. *)

First(places) == {p \in places : \A q \in places : p <= q}
After(places, S) == {p \in S : \E q \in places : q < p}

\* The first string that is the key, be it a key or a value.
Needle(text, key) == First({p \in DOMAIN text : text[p] = Quoted(key)})

\* The token after the key and a colon, if it is of this kind.
JsonScalar(text, key, kind) ==
  {text[p + 2] : p \in {q \in Needle(text, key) :
     q + 2 <= Len(text) /\ text[q + 1].kind = ":" /\ text[q + 2].kind = kind}}

OfKind(text, kind) == {p \in DOMAIN text : text[p].kind = kind}

\* What the strings at these places say, in the order of the text.
Said(text, places) ==
  [k \in 1 .. Cardinality(places) |-> text[CHOOSE p \in places : Rank(p, places) = k].s]

\* Mutant: the last "]" of the text ends the list.
JsonListToLast(text, key) ==
  LET open  == First(After(Needle(text, key), OfKind(text, "[")))
      ends  == {p \in OfKind(text, "]") : \A q \in OfKind(text, "]") : p >= q}
      items == {p \in After(open, OfKind(text, "string")) :
                  After({p}, ends) # {} /\ (p - 1 \in open \/ text[p - 1].kind = ",")}
  IN  Said(text, items)

\* From the first "[" after the key, the key's or not, to the next "]".
JsonList(text, key) ==
  LET open  == First(After(Needle(text, key), OfKind(text, "[")))
      close == First(After(open, OfKind(text, "]")))
      items == {p \in After(open, OfKind(text, "string")) :
                  After({p}, close) # {} /\ (p - 1 \in open \/ text[p - 1].kind = ",")}
  IN  Said(text, items)

\* The value on the first line of the key, if it is of this kind.
TomlValue(text, key, kind) ==
  {[value |-> text[p].declared.value, commented |-> text[p].commented] :
     p \in {q \in First({r \in DOMAIN text : text[r].declared.key = key}) :
              text[q].declared.value.kind = kind}}

\* A fraction is cut off in JSON; in TOML, a number with one, or with a comment
\* after it, is no number, and a list with a comment after it is empty.
ParseJson(text) ==
  [ tech   |-> {t.s : t \in JsonScalar(text, "tech", "string")},
    unit   |-> {t.n : t \in {u \in JsonScalar(text, "db_unit_nm", "number") : Fits(u.n)}},
    layers |-> JsonList(text, "layers") ]

ParseToml(text) ==
  LET lists == {l \in TomlValue(text, "layers", "list") : ~ l.commented} IN
  [ tech   |-> {l.value.s : l \in TomlValue(text, "tech", "string")},
    unit   |-> {l.value.n : l \in {m \in TomlValue(text, "db_unit_nm", "number") :
                                     m.value.whole /\ ~ m.commented /\ Fits(m.value.n)}},
    layers |-> IF lists = {} THEN <<>> ELSE (CHOOSE l \in lists : TRUE).value.list ]

----------------------------------------------------------------------------

VARIABLES
  schema,    \* the schema that was read last,
  comments,  \* the declarations with a comment after them,
  pdk        \* and what was made of it

pdkVars == <<schema, comments, pdk>>

NoPdk == [warned |-> FALSE, tech |-> {}, unit |-> {}, layers |-> <<>>]

PdkInit == schema = <<>> /\ comments = {} /\ pdk = NoPdk

\* Loading begins with nothing; a PDK without a tech is warned of.
Loaded(parsed) ==
  /\ pdk = NoPdk
  /\ pdk' = [warned |-> parsed.tech = {}, tech |-> parsed.tech, unit |-> parsed.unit,
             layers |-> parsed.layers]

LoadJson == /\ schema' \in Schemas /\ comments' = {}
            /\ Loaded(ParseJson(Json(schema')))

LoadToml == /\ schema' \in Schemas \ {<<>>} /\ comments' \in SUBSET DOMAIN schema'
            /\ Loaded(ParseToml(Toml(schema', comments')))

\* A file that cannot be read, or has nothing but blanks in it.
LoadNothing == schema' = <<>> /\ comments' = {} /\ pdk' = NoPdk

PdkNext == LoadJson \/ LoadToml \/ LoadNothing

----------------------------------------------------------------------------
(* What must hold of what was read *)

Keys == [tech |-> "string", db_unit_nm |-> "number", layers |-> "list"]

\* Each key is declared once at most and with its kind of value, numbers are whole,
\* and no value reads like a key.
PlainSchema ==
  /\ \A j, k \in DOMAIN schema : schema[j].key = schema[k].key => j = k
  /\ \A d \in ToSet(schema) :
       /\ d.key \in DOMAIN Keys => d.value.kind = Keys[d.key]
       /\ d.value.whole
       /\ ({d.value.s} \cup ToSet(d.value.list)) \cap DOMAIN Keys = {}

DeclaredAt(key) == {k \in DOMAIN schema : schema[k].key = key}

\* Scanning finds what a parser would: a plain schema is read as it was declared,
\* from either format and wherever its keys stand, but for what a comment hides.
PdkAsDeclared ==
  PlainSchema /\ pdk # NoPdk =>
    /\ pdk.tech = {schema[k].value.s : k \in DeclaredAt("tech")}
    /\ pdk.unit = {schema[k].value.n : k \in
         {j \in DeclaredAt("db_unit_nm") \ comments : Fits(schema[j].value.n)}}
    /\ \A k \in DeclaredAt("layers") \ comments : pdk.layers = schema[k].value.list
    /\ DeclaredAt("layers") \subseteq comments => pdk.layers = <<>>
=============================================================================
