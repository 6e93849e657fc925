------------------------------ MODULE LuaValues ------------------------------
(***************************************************************************)
(* The conversions the bindings offer: Lua tables to JSON and back, UUIDs  *)
(* in hexadecimal and in base 62, the Authorization header, tokens and     *)
(* MIME types.  A value is a tag and its fields; a field key is tagged     *)
(* "s" (a string), "i" (a number) or "o" (anything else).                  *)
(***************************************************************************)
EXTENDS Integers, Sequences, FiniteSets, Functions

CONSTANTS
    Values,         \* the Lua values, those of the fields of a table included
    Base, Word,     \* 62 and 2^64 in the code
    MaxDigits       \* 11 in the code: the digits of Word - 1 in Base

Scalar(t)    == [t |-> t, fields |-> <<>>]
Table(f)     == [t |-> "table", fields |-> f]
Object(f)    == [t |-> "object", fields |-> f]
Array(f)     == [t |-> "array", fields |-> f]
Failure      == Scalar("failure")

Keys(v, kind) == {k \in DOMAIN v.fields : k[1] = kind}
Index(n)      == <<"i", n>>

\* lua_to_json: the possible results.  String keys make an object and number
\* keys an array in the order of pairs(), which may be any; the two do not
\* mix, no other key and no function or userdata converts, and a nested empty
\* table is an object.  A number without a fraction becomes an integer.
LuaToJson[v \in Values] ==
    IF v.t = "function" THEN {Failure}
    ELSE IF v.t = "whole" THEN {Scalar("int")}
    ELSE IF v.t # "table" THEN {v}
    ELSE LET K == DOMAIN v.fields
             all == UNION {LuaToJson[v.fields[k]] : k \in K}
             parts == {f \in [K -> all] : \A k \in K : f[k] \in LuaToJson[v.fields[k]]} IN
         IF K = {} THEN {Object(<<>>)}
         ELSE IF Failure \in all \/ ~(K = Keys(v, "s") \/ K = Keys(v, "i")) THEN {Failure}
         ELSE IF K = Keys(v, "s") THEN {Object(f) : f \in parts}
         ELSE {Array([i \in {Index(n - 1) : n \in 1..Cardinality(K)} |-> f[order[i[2] + 1]]]) :
                 f \in parts, order \in Bijection(1..Cardinality(K), K)}

\* table_to_json: an empty table is nil.
TableToJson(v) ==
    IF v.t # "table" THEN {Failure}
    ELSE IF DOMAIN v.fields = {} THEN {Scalar("nil")} ELSE LuaToJson[v]

JsonValues == UNION {LuaToJson[v] : v \in Values}

\* json_to_lua: array keys count from 0 and a null makes its key vanish.
JsonToLua[j \in JsonValues] ==
    IF j.t \notin {"object", "array"} THEN j
    ELSE Table([k \in {k \in DOMAIN j.fields : j.fields[k].t # "null"} |-> JsonToLua[j.fields[k]]])

\* json_to_table takes objects and arrays.
JsonToTable(j) == IF j.t \in {"object", "array"} THEN JsonToLua[j] ELSE Failure

-----------------------------------------------------------------------------
(* UUIDs: two words.                                                       *)

None == -1

Encode[v \in 0..(Word - 1)] ==
    IF v < Base THEN <<v>> ELSE Append(Encode[v \div Base], v % Base)

\* Slip: the arithmetic wraps.
DecodeWrapping(part) ==
    LET value[n \in 0..Len(part)] ==
          IF n = 0 THEN 0
          ELSE LET v == value[n - 1] IN
               IF v = None \/ part[n] >= Base THEN None ELSE (v * Base + part[n]) % Word
    IN IF part = <<>> \/ Len(part) > MaxDigits THEN None ELSE value[Len(part)]

\* decode: checked arithmetic; a digit of Base or more stands for a byte
\* outside the alphabet.
Decode(part) ==
    LET value[n \in 0..Len(part)] ==
          IF n = 0 THEN 0
          ELSE LET v == value[n - 1] IN
               IF v = None \/ part[n] >= Base \/ v * Base + part[n] >= Word THEN None
               ELSE v * Base + part[n]
    IN IF part = <<>> \/ Len(part) > MaxDigits THEN None ELSE value[Len(part)]

Base62(u) == <<Encode[u[1]], Encode[u[2]]>>

\* A string is the sequence of its parts between hyphens.
FromBase62(parts) ==
    IF Len(parts) # 2 \/ Decode(parts[1]) = None \/ Decode(parts[2]) = None THEN None
    ELSE Decode(parts[1]) * Word + Decode(parts[2])

-----------------------------------------------------------------------------
(* Tokens and headers.                                                     *)

\* generate_jwt signs with HS256 and the configured secret; decode_jwt takes
\* no other algorithm and needs an expiry that is not past.
Tokens == [alg : {"HS256", "other"}, ours : BOOLEAN, exp : {"none", "past", "future"}]
GenerateJwt(exp) == [alg |-> "HS256", ours |-> TRUE, exp |-> exp]
DecodeJwt(token) == token.alg = "HS256" /\ token.ours /\ token.exp = "future"

\* requireAuth: the Authorization header by its shape.
AuthHeaders == {"absent", "basic", "basicbad", "bearer", "otherscheme", "noscheme"}
RequireAuth(h) ==
    CASE h = "absent" -> "NOAUTH" [] h = "basic" -> "BASIC" [] h = "bearer" -> "BEARER"
      [] h \in {"basicbad", "noscheme"} -> "ERROR" [] OTHER -> "unset"

\* split_mimetype: a type, or a type and a charset that is not empty.
Mimes == [type : {"", "text"}, rest : {"none", "charset", "emptycharset", "other"}]
SplitMimetype(m) == m.type # "" /\ m.rest \in {"none", "charset"}
=============================================================================
