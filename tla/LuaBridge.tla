------------------------------- MODULE LuaBridge -------------------------------
(***************************************************************************)
(* The bridge between documents and Lua values (merge/json_bridge.go and   *)
(* bson_bridge.go).  Lua has one integer and one string type; the bridge   *)
(* remembers beside the tables which integers were int32 or int64, which   *)
(* strings were datetimes and which tables stand for BSON scalars, and     *)
(* restores the types after a script has copied, moved, replaced and       *)
(* linked values as it likes.                                              *)
(***************************************************************************)
EXTENDS Integers, Sequences, FiniteSets, SequencesExt, TLC

CONSTANTS
  Inputs,           \* [encoding, tables]: two documents, and the tables they decode to
  Made,             \* the tables that a script may make: [table -> its metatable]
  StringKeys, ArrayKeys,   \* a set, and the sequence of the integer keys
  Literals,         \* values that a script may write itself
  MaxInt32,
  MaxEdits          \* bound: assignments of a script

Keys == StringKeys \union ToSet(ArrayKeys)
Roots == {"current", "incoming"}

\* A field of a document is an integer with its value, a date or a string with
\* its text, null, or a container that names the table with its content.  The
\* type "timestamp" stands for every BSON type that has an Extended JSON view.
Integers32And64 == {"int32", "int64"}
Containers == {"document", "array", "timestamp", "code"}
Nil == [type |-> "nil"]

BridgeAssumption ==
  /\ MaxInt32 \in Nat /\ MaxEdits \in Nat
  /\ \A in \in Inputs : in.encoding \in {"bson", "json"} /\ Roots \subseteq DOMAIN in.tables
                        /\ \A t \in DOMAIN in.tables : DOMAIN in.tables[t] = Keys

VARIABLES
  input,
  heap,             \* [table -> [Keys -> Lua values]]
  kind,             \* [table -> its metatable: "object", "array" or "none"]
  dateTimes,        \* the strings that were datetimes, with where they were made
  integerKinds,     \* [value -> widths that integers of this value had]
  integerFields,    \* [<<table, key>> -> width that the field had]
  bsonScalars,      \* [table -> BSON type that it is the view of]
  edits, written,   \* assignments so far, and the fields they wrote
  result            \* "none", or what the merge returns

vars == <<input, heap, kind, dateTimes, integerKinds, integerFields, bsonScalars, edits, written, result>>
remembered == <<dateTimes, integerKinds, integerFields, bsonScalars>>

-----------------------------------------------------------------------------
Field(in, f) == in.tables[f[1]][f[2]]
Fields(in) == {f \in (DOMAIN in.tables) \X Keys : Field(in, f) # Nil}
OfType(in, types) == {f \in Fields(in) : Field(in, f).type \in types}
Holder(in, t) == CHOOSE f \in OfType(in, Containers) : Field(in, f).table = t
Width(type) == IF type = "int64" THEN 2 ELSE 1

\* goToLua of a field.  The origin of a string is its backing array; that of an
\* integer is history, which the bridge does not see.
ToLua(in, f) ==
  LET field == Field(in, f)
  IN CASE field.type \in Integers32And64 \union {"number"} -> [type |-> "int", value |-> field.value, origin |-> f]
       [] field.type \in {"date", "string"} -> [type |-> "string", text |-> field.text, origin |-> f]
       [] field.type \in Containers -> [type |-> "table", table |-> field.table]
       [] OTHER -> field

\* The widths of the integers with a value; rememberInteger for the fields.
WidthsOf(in, value) == {Width(Field(in, f).type) : f \in {g \in OfType(in, Integers32And64) : Field(in, g).value = value}}

Init ==
  /\ input \in Inputs
  /\ LET T == DOMAIN input.tables
         integers == OfType(input, Integers32And64)
     IN /\ heap = [t \in T |-> [k \in Keys |-> ToLua(input, <<t, k>>)]] @@ [t \in DOMAIN Made |-> [k \in Keys |-> Nil]]
        /\ kind = [t \in T |-> IF t \notin Roots /\ Field(input, Holder(input, t)).type = "array" THEN "array" ELSE "object"] @@ Made
        /\ dateTimes = {[text |-> Field(input, f).text, origin |-> f] : f \in OfType(input, {"date"})}
        /\ integerKinds = [v \in {Field(input, f).value : f \in integers} |-> WidthsOf(input, v)]
        /\ integerFields = [f \in integers |-> Width(Field(input, f).type)]
        /\ bsonScalars = [t \in {Field(input, f).table : f \in OfType(input, {"timestamp", "code"})} |->
                            Field(input, Holder(input, t)).type]
  /\ edits = 0 /\ written = {} /\ result = [type |-> "none"]

\* The script assigns a field: a value it finds in a table, a table, a literal or
\* nil.
Script(t, k, value) ==
  /\ result.type = "none" /\ edits < MaxEdits
  /\ heap' = [heap EXCEPT ![t][k] = value]
  /\ edits' = edits + 1 /\ written' = written \union {<<t, k>>}
  /\ UNCHANGED <<input, kind, result, remembered>>

-----------------------------------------------------------------------------
Error == [type |-> "error"]
BsonInteger(value, wide) == [type |-> IF wide \/ value > MaxInt32 THEN "int64" ELSE "int32", value |-> value]

\* The width of an integer that is not where a BSON integer was: that of every
\* BSON integer with its value.
Copied(value) ==
  LET widths == IF value \in DOMAIN integerKinds THEN integerKinds[value] ELSE {}
  IN IF widths = {1, 2} THEN Error ELSE BsonInteger(value, widths = {2})

FieldByValue(t, k) == Copied(heap[t][k].value)
\* luaFieldToGo for an integer of a BSON result.
FieldInteger(t, k) ==
  IF <<t, k>> \in DOMAIN integerFields
  THEN BsonInteger(heap[t][k].value, integerFields[<<t, k>>] = 2)
  ELSE Copied(heap[t][k].value)

\* A string is a datetime when it is the very string that was made from one.
StringToGo(value, bson) ==
  [type |-> IF bson /\ [text |-> value.text, origin |-> value.origin] \in dateTimes THEN "date" ELSE "string",
   text |-> value.text]

Present(t) == {k \in Keys : heap[t][k] # Nil}
\* luaTableToGo: by the metatable, else by the keys; an empty table is an object.
IsArray(t) == kind[t] = "array" \/ (kind[t] = "none" /\ Present(t) # {} /\ Present(t) \subseteq ToSet(ArrayKeys))
\* The length of a table is a border of its integer keys.
Borders(t) == {n \in 0 .. Len(ArrayKeys) : /\ n = 0 \/ ArrayKeys[n] \in Present(t)
                                           /\ n = Len(ArrayKeys) \/ ArrayKeys[n + 1] \notin Present(t)}
\* inspectLuaTable: integer keys, and a length that is their number.
Contiguous(t) == Present(t) \subseteq ToSet(ArrayKeys) /\ Cardinality(Present(t)) \in Borders(t)
\* luaArrayToGo, luaObjectToGo: the keys of an array, or string keys only.
WellKeyed(t) ==
  IF IsArray(t) THEN Contiguous(t)
  ELSE Present(t) \subseteq StringKeys

\* encodeBSONScalar: the view, here one integer under "a", must still be one of
\* its type.
EncodeScalar(type, decoded) ==
  IF DOMAIN decoded.fields = {"a"} /\ decoded.fields["a"].type \in Integers32And64 \union {"number"}
  THEN [type |-> type, fields |-> decoded.fields] ELSE Error

RECURSIVE TableToGo(_, _, _)
\* luaToGo of what field k of table t holds; active are the tables around it.
FieldToGo(t, k, active, bson) ==
  LET value == heap[t][k]
  IN CASE value.type = "int" -> IF bson THEN FieldInteger(t, k) ELSE [type |-> "number", value |-> value.value]
       [] value.type = "string" -> StringToGo(value, bson)
       [] value.type = "table" -> TableToGo(value.table, active, bson)
       [] OTHER -> value
\* luaToGo of a table; the numbers of a scalar's view have no BSON width, those of
\* a code's scope do.
TableToGo(t, active, bson) ==
  LET typed == bson /\ t \in DOMAIN bsonScalars
      inner == bson /\ (typed => bsonScalars[t] = "code")
      decoded == [type |-> IF IsArray(t) THEN "array" ELSE "document",
                  fields |-> [k \in Present(t) |-> FieldToGo(t, k, active \union {t}, inner)]]
  IN IF t \in active \/ ~WellKeyed(t) THEN Error
     ELSE IF \E k \in Present(t) : decoded.fields[k].type = "error" THEN Error
     ELSE IF typed THEN EncodeScalar(bsonScalars[t], decoded)
     ELSE decoded

\* The script returns a table; the result must be a document.
Encode(root) ==
  /\ result.type = "none"
  /\ \E decoded \in {TableToGo(root, {}, input.encoding = "bson")} :
       result' = [root |-> root] @@ (IF decoded.type = "document" THEN decoded ELSE Error)
  /\ UNCHANGED <<input, heap, kind, remembered, edits, written>>

Values == UNION {{heap[t][k] : k \in Keys} : t \in DOMAIN heap} \union {[type |-> "table", table |-> t] : t \in DOMAIN heap}
            \union Literals \union {Nil}

Next ==
  \/ \E t \in DOMAIN heap, k \in Keys, value \in Values : Script(t, k, value)
  \/ \E root \in DOMAIN heap : Encode(root)
Spec == Init /\ [][Next]_vars

-----------------------------------------------------------------------------
\* The tables that a table of an input contains, and what field f of it stands for.
RECURSIVE SourceTables(_)
SourceTables(t) ==
  {t} \union UNION {SourceTables(Field(input, f).table) : f \in {g \in OfType(input, Containers) : g[1] = t}}
RECURSIVE Source(_)
Source(f) ==
  LET field == Field(input, f)
  IN IF field.type \in Containers
     THEN [type |-> field.type,
           fields |-> [k \in {j \in Keys : input.tables[field.table][j] # Nil} |-> Source(<<field.table, k>>)]]
     ELSE field
Intact(f) ==
  Field(input, f).type \in Containers =>
    \A g \in written : g[1] \notin SourceTables(Field(input, f).table)

\* What a script leaves alone comes back as it was, with its BSON type, also
\* where equal integers of both widths occur; a merge that changes nothing is
\* never refused.
UntouchedKept ==
  result.type # "none" /\ result.root \in Roots =>
    /\ written = {} => result.type = "document"
    /\ result.type = "document" =>
         \A f \in Fields(input) \ written : f[1] = result.root /\ Intact(f) => result.fields[f[2]] = Source(f)

\* What a script copies keeps its type: a datetime and a BSON scalar everywhere,
\* an integer where no integer was; into the field of an integer it takes that
\* field's width, or int64 when it does not fit.
Moved(f, origin) ==
  LET field == Source(origin)
  IN IF field.type \in Integers32And64 /\ f \in DOMAIN integerFields
     THEN BsonInteger(field.value, integerFields[f] = 2) ELSE field
CopiesKeepType ==
  result.type = "document" /\ input.encoding = "bson" =>
    \A f \in written :
      LET value == heap[f[1]][f[2]]
      IN f[1] = result.root /\ value.type \in {"int", "string", "table"} =>
           /\ value.type = "table" /\ value.table \in DOMAIN bsonScalars /\ Intact(Holder(input, value.table))
                => result.fields[f[2]] = Source(Holder(input, value.table))
           /\ value.type # "table" /\ value.origin \in Fields(input) /\ Field(input, value.origin).type # "number"
                => result.fields[f[2]] = Moved(f, value.origin)

\* A string of the script's own is never a datetime, whatever its text.
OwnStringsPlain ==
  result.type = "document" =>
    \A k \in DOMAIN result.fields :
      LET value == heap[result.root][k]
      IN value.type = "string" /\ value.origin \notin Fields(input) => result.fields[k].type = "string"

Linked(t) == {heap[t][k].table : k \in {j \in Keys : heap[t][j].type = "table"}}
Reach(tables) == tables \union UNION {Linked(t) : t \in tables}
Reachable(t) == Reach(Reach(Reach(Reach(Reach(Linked(t))))))
Within(t) == {t} \union Reachable(t)

\* A result is refused exactly for a reason: tables that contain each other, keys
\* that fit neither an array nor an object, a root that is no document, an
\* integer of both widths, or a scalar's view that was changed.  A table that
\* merely occurs twice is none.
Cyclic(t) == \E u \in Within(t) : u \in Reachable(u)
Ambiguous(t) ==
  \E u \in Within(t), k \in Keys :
    /\ heap[u][k].type = "int" /\ <<u, k>> \notin DOMAIN integerFields
    /\ \E f, g \in DOMAIN integerFields : /\ Field(input, f).value = heap[u][k].value /\ integerFields[f] = 1
                                          /\ Field(input, g).value = heap[u][k].value /\ integerFields[g] = 2
RefusedForCause ==
  /\ result.type = "document" => ~Cyclic(result.root) /\ \A t \in Within(result.root) : WellKeyed(t)
  /\ result.type = "error" =>
       \/ Cyclic(result.root)
       \/ \E t \in Within(result.root) : /\ ~(Present(t) \subseteq StringKeys /\ kind[t] # "array")
                                         /\ ~Contiguous(t) \/ kind[t] = "object"
       \/ kind[result.root] = "array" \/ (kind[result.root] = "none" /\ Present(result.root) # {} /\ Present(result.root) \subseteq ToSet(ArrayKeys))
       \/ result.root \in DOMAIN bsonScalars
       \/ input.encoding = "bson" /\ Ambiguous(result.root)
       \/ \E t \in Within(result.root) \intersect DOMAIN bsonScalars, f \in written : f[1] = t
=============================================================================
