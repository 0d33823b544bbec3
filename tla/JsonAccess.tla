------------------------------ MODULE JsonAccess -----------------------------
(***************************************************************************)
(* What a json value holds, and what the accessors of json.c read of it.   *)
(* The properties of Json that compare values by what they hold are here.  *)
(***************************************************************************)
EXTENDS Json

CONSTANT SizeMod   \* 2^w of a size_t

ASSUME AccessAssumption == SizeMod \in Nat \ {0}

Crash == -1   \* in the place of a result: a pointer that is NULL was followed

\* The value a stands for, without its addresses.
RECURSIVE Tree(_, _)
Tree(h, a) ==
    CASE h[a].type = "object" ->
           [type  |-> "object",
            items |-> [i \in DOMAIN Items(h, a) |->
                        [name  |-> Tree(h, h[Items(h, a)[i]].name),
                         value |-> Tree(h, h[Items(h, a)[i]].value)]]]
      [] h[a].type = "array" ->
           [type  |-> "array",
            items |-> [i \in DOMAIN Items(h, a) |-> Tree(h, h[Items(h, a)[i]].value)]]
      [] OTHER -> h[a]

(***************************************************************************)
(* Accessors.  Each gives the set of results that may be had: pointers     *)
(* into the value, or Crash.                                               *)
(***************************************************************************)

\* The loop of json_object_at: while(n --> 0 || node != NULL) node = node->next
RECURSIVE Walk(_, _, _)
Walk(h, node, n) ==
    IF node # NULL THEN Walk(h, h[node].next, (n - 1) % SizeMod)
    ELSE IF n = 0 THEN NULL
    ELSE Crash

\* json_object_at and json_array_at.  The latter follows _object.next in an
\* array, where nothing was ever stored; its loop ends at a NULL or not at all.
At(h, a, n) ==
    IF h[a].value = NULL THEN {NullV}
    ELSE IF h[a].type = "object" THEN {Walk(h, a, n)}
    ELSE {NULL, Crash}

\* The loop of json_object_find, with json_string_eq.  A name that is not a
\* string has something else in the place of its buffer.
RECURSIVE FindFrom(_, _, _)
FindFrom(h, node, s) ==
    IF node = NULL THEN {NULL}
    ELSE LET name == h[h[node].name]
         IN  IF name.type # "string" THEN {Crash, node} \union FindFrom(h, h[node].next, s)
             ELSE IF CString(name.text) = CString(s) THEN {node}
             ELSE FindFrom(h, h[node].next, s)

\* Variant: the value of the pair is returned.
FindValue(h, a, s) ==
    IF h[a].value = NULL THEN {NullV}
    ELSE {IF r \in {NULL, Crash} THEN r ELSE h[r].value : r \in FindFrom(h, a, s)}

\* json_object_find
Find(h, a, s) == IF h[a].value = NULL THEN {NullV} ELSE FindFrom(h, a, s)

\* json_select: the selector's items are applied in turn.
RECURSIVE Select(_, _, _)
Select(h, a, selector) ==
    IF selector = NULL THEN {a}
    ELSE IF h[selector].value = NULL THEN {Crash}
    ELSE LET cur  == h[h[selector].value]
             then(S) == UNION {IF r = Crash THEN {r} ELSE Select(h, r, h[selector].next) : r \in S}
         IN  IF cur.type \notin {"string", "number"} THEN {NullV}
             ELSE IF a = NULL THEN {Crash}
             ELSE IF cur.type = "string" /\ h[a].type = "object" THEN then(Find(h, a, cur.text))
             ELSE IF cur.type = "number" /\ h[a].type \in {"object", "array"}
                  THEN then(At(h, a, cur.part_int % SizeMod))
             ELSE {NullV}

(***************************************************************************)
(* Properties.                                                             *)
(***************************************************************************)

\* The values whose print json_parser reads back: no true, false or null within
\* another value, no string that ends in a backslash, no negative double.
RECURSIVE Survives(_)
Survives(tree) ==
    LET within(t) == t.type \notin {"true", "false", "null"} /\ Survives(t)
    IN  CASE tree.type = "string" ->
               /\ \A i \in DOMAIN tree.text : tree.text[i] # 0
               /\ tree.text # <<>> => Last(tree.text) # Backslash
          [] tree.type = "number" -> tree.part_float >= 0
          [] tree.type = "array" -> \A i \in DOMAIN tree.items : within(tree.items[i])
          [] tree.type = "object" ->
               \A i \in DOMAIN tree.items : within(tree.items[i].name) /\ within(tree.items[i].value)
          [] OTHER -> TRUE

\* Printing a value and parsing the print gives the value again, with the whole
\* text read, exactly for the values that Survives describes (the round trip of
\* test.c:26-40).
RoundTrip ==
    source # NULL /\ (Done \/ fault # "none") =>
        (Survives(Tree(heap, source)) <=>
            /\ Done /\ ret # NULL /\ text[pos] = 0
            /\ Tree(heap, ret) = Tree(heap, source))

\* What the accessors miss.  An index never gets an element of a list that has
\* some: the loop of json_object_at and json_array_at passes over all nodes
\* (json.c:155, 217).  json_select never gets into the values of a list: a name
\* finds the pair and not its value, so that the next one goes on in that list.
AccessorsStayInList ==
    \A a \in held : heap[a].type \in {"object", "array"} =>
        /\ \A n \in 0..Cardinality(Memory) : At(heap, a, n) \subseteq {NULL, NullV, Crash}
        /\ \A s \in {s \in held : heap[s].type = "array"} :
             Select(heap, a, s) \subseteq {NULL, NullV, Crash} \union ToSet(Nodes(heap, a))

\* A concatenation has the items of both lists in order, whatever was empty and
\* whatever was freed, and changes no other value.
ConcatKeepsItems ==
    [][\A a, b \in held :
         ObjectConcat(a, b) \/ ArrayConcat(a, b) =>
            /\ \E c \in held' \ (held \ {a, b}) :
                 Tree(heap, a).items \o Tree(heap, b).items = Tree(heap', c).items
            /\ \A x \in held \ {a, b} : x \in held' /\ Tree(heap', x) = Tree(heap, x)]_jsonVars
=============================================================================
