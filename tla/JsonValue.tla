------------------------------ MODULE JsonValue ------------------------------
(***************************************************************************)
(* The values of json.c on the heap: a heap h is a function from the       *)
(* addresses in use to the json_value_t there.  Operations that allocate   *)
(* or free give a new heap.  A string's buffer lives and dies with its     *)
(* json_value_t and is kept in it.  Which free address malloc returns      *)
(* makes no difference here and is the least one.                          *)
(***************************************************************************)
EXTENDS Integers, SequencesExt, FiniteSetsExt

CONSTANT Memory   \* addresses malloc may return

ASSUME ValueAssumption == Memory \subseteq Nat \ {0}

NULL == 0

\* json_true_new, json_false_new and json_null_new return the same value every
\* time, and deleting it does nothing.
TrueV  == -2
FalseV == -3
NullV  == -4
Statics == {TrueV, FalseV, NullV}

StaticHeap == [a \in Statics |-> [type |-> CASE a = TrueV -> "true"
                                             [] a = FalseV -> "false"
                                             [] a = NullV -> "null"]]

InUse(h) == DOMAIN h \ Statics

HasRoom(h) == Memory \ DOMAIN h # {}

Fresh(h) == Min(Memory \ DOMAIN h)

\* json_value_new and what its caller stores.
New(h, node) ==
    LET n == Fresh(h)
    IN  [x \in DOMAIN h \union {n} |-> IF x = n THEN node ELSE h[x]]

\* Variant: memcpy instead of strncpy.
StringCopied(s) == [type |-> "string", text |-> s]

\* json_string_from_pchar: strncpy stops at a '\0' and fills with '\0'.
String(s) ==
    [type |-> "string",
     text |-> [i \in DOMAIN s |-> IF \E j \in 1..i : s[j] = 0 THEN 0 ELSE s[i]]]

\* A part_float with all bits zero says that the number is an integer.
UnusedFloat == 0

\* json_number_set_int and json_number_from_int
IntNumber(v) == [type |-> "number", part_float |-> UnusedFloat, part_int |-> v]

\* json_object_from_k_v; json_object_new has no name and no value.
Object(k, v) == [type |-> "object", name |-> k, value |-> v, next |-> NULL]

\* json_array_from_v; json_array_new has no value.
Array(v) == [type |-> "array", value |-> v, next |-> NULL]

ListNodes(h) == {x \in DOMAIN h : h[x].type \in {"object", "array"}}

\* The nodes of an object or array, as the loops over next meet them.
Nodes(h, a) ==
    LET nodes[x \in ListNodes(h) \union {NULL}] ==
            IF x = NULL THEN <<>> ELSE <<x>> \o nodes[h[x].next]
    IN  nodes[a]

\* A first node without a value stands for an empty list.
Items(h, a) == IF h[a].value = NULL THEN <<>> ELSE Nodes(h, a)

\* json_value_delete, json_object_delete and json_array_delete: the addresses
\* freed, in order.  An address not in use is freed again.
Frees(h, a) ==
    LET frees[x \in Int] ==
            IF x = NULL \/ x \in Statics THEN <<>>
            ELSE IF x \notin DOMAIN h THEN <<x>>
            ELSE CASE h[x].type = "object" ->
                        frees[h[x].name] \o frees[h[x].value] \o frees[h[x].next] \o <<x>>
                   [] h[x].type = "array" -> frees[h[x].value] \o frees[h[x].next] \o <<x>>
                   [] OTHER -> <<x>>
    IN  frees[a]

Deleted(h, a) == Restrict(h, DOMAIN h \ ToSet(Frees(h, a)))

\* Variant: the second list takes the place of what follows the first node.
ConcatedAtHead(h, a, b) ==
    IF h[b].value = NULL THEN [heap |-> Deleted(h, b), ret |-> a]
    ELSE IF h[a].value = NULL THEN [heap |-> Deleted(h, a), ret |-> b]
    ELSE [heap |-> [h EXCEPT ![a].next = b], ret |-> a]

\* json_object_concat and json_array_concat, which are the same code: an empty
\* list is deleted, otherwise b is linked behind a's last node.
Concated(h, a, b) ==
    IF h[b].value = NULL THEN [heap |-> Deleted(h, b), ret |-> a]
    ELSE IF h[a].value = NULL THEN [heap |-> Deleted(h, a), ret |-> b]
    ELSE [heap |-> [h EXCEPT ![Last(Nodes(h, a))].next = b], ret |-> a]

\* What the functions of string.h see of s.
CString(s) ==
    LET zero == SelectInSeq(s, LAMBDA c : c = 0)
    IN  IF zero = 0 THEN s ELSE SubSeq(s, 1, zero - 1)
=============================================================================
