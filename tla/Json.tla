-------------------------------- MODULE Json --------------------------------
(***************************************************************************)
(* A program that uses json.c: it makes values, joins and deletes them,    *)
(* prints them and parses texts.  The parser is the recursive json_parser  *)
(* with read_k_v, as a machine: its stack has a frame for each array or    *)
(* object that is being read, and a step ends with a call for the next     *)
(* value or with the return of one.  The program keeps to the ownership    *)
(* json.h asks for: what it gives to a constructor, to concat or to delete *)
(* is not its own any more, and names are strings.                         *)
(***************************************************************************)
EXTENDS JsonText

CONSTANTS
    Texts,    \* texts the program parses and then stops
    Samples,  \* texts it parses among other calls
    Behind,   \* what may stand in memory behind a text, as far as \u is read
    Strings,  \* strings, and numbers, that it makes
    Ints,
    Floats,
    MaxWork   \* bound: calls

ASSUME JsonAssumption ==
    /\ \A t \in Texts \union Samples :
         /\ t \in Seq(Nat) \ {<<>>}
         /\ \A i \in DOMAIN t : t[i] = 0 <=> i = Len(t)
    /\ Behind # {} /\ \A b \in Behind : b \in Seq(Nat) /\ Len(b) = 3
    /\ Strings \subseteq Seq(Nat)
    /\ MaxWork \in Nat

VARIABLES
    heap,
    held,    \* the values the program owns
    text,    \* the text that is parsed, <<>> when none is
    pos,     \* where json_parser is in it
    stack,   \* arrays and objects being read, the innermost last
    ret,     \* what json_parser returns, or Calling
    source,  \* history: the value whose print is parsed, or NULL
    fault,   \* what has ended the program, or "none"
    work     \* calls made so far

parserVars == <<text, pos, stack, ret, source, fault>>
jsonVars   == <<heap, held, parserVars, work>>

Calling == -5

Entering == text # <<>> /\ fault = "none" /\ ret = Calling
Returned == stack # <<>> /\ fault = "none" /\ ret # Calling
Done     == text # <<>> /\ fault = "none" /\ stack = <<>> /\ ret # Calling
Idle     == text = <<>>

Top == Last(stack)

(***************************************************************************)
(* json_parser from its entry.                                             *)
(***************************************************************************)

Here == SkipWhiteSpace(text, pos)

Return(v, p) ==
    /\ ret' = v
    /\ pos' = SkipWhiteSpace(text, p)

\* The string at Here, with b behind the text: a \u escape is read six characters
\* long whatever is left.
StringRead(b) == String(Unescaped(text \o b, Here + 1, SkipString(text, Here + 1)))

ReadsString ==
    /\ Entering /\ text[Here] = Quote /\ HasRoom(heap)
    /\ \E b \in Behind : heap' = New(heap, StringRead(b))
    /\ LET end == SkipString(text, Here + 1)
       IN  Return(Fresh(heap), IF text[end] = Quote THEN end + 1 ELSE end)
    /\ UNCHANGED <<held, text, stack, source, fault, work>>

ReadsNumber ==
    /\ Entering /\ text[Here] \in Digit \union {Minus} /\ HasRoom(heap)
    /\ LET number == ReadNumber(text, Here)
       IN  /\ heap' = New(heap, number.node)
           /\ Return(Fresh(heap), number.pos)
    /\ UNCHANGED <<held, text, stack, source, fault, work>>

\* The word is compared with all that is left of the text.
ReadsWord ==
    /\ Entering
    /\ \E w \in {<<TrueWord, TrueV>>, <<FalseWord, FalseV>>, <<NullWord, NullV>>} :
         /\ text[Here] = Head(w[1])
         /\ IF SubSeq(text, Here, Len(text) - 1) = w[1]
            THEN Return(w[2], Len(text))
            ELSE Return(NULL, Here)
    /\ UNCHANGED <<heap, held, text, stack, source, fault, work>>

\* At the end of the text there is a null; any other character is no value.
ReadsNothing ==
    /\ Entering
    /\ text[Here] \notin {Quote, Minus, OpenArray, OpenObject,
                          Head(TrueWord), Head(FalseWord), Head(NullWord)} \union Digit
    /\ Return(IF text[Here] = 0 THEN NullV ELSE NULL, Here)
    /\ UNCHANGED <<heap, held, text, stack, source, fault, work>>

\* An array or object; the empty one, or one cut off by the end, at once.
Opens(open, close, empty) ==
    /\ Entering /\ text[Here] = open /\ HasRoom(heap)
    /\ LET p == SkipWhiteSpace(text, Here + 1)
       IN  IF text[p] \in {0, close}
           THEN /\ heap' = New(heap, empty)
                /\ Return(Fresh(heap), IF text[p] = close THEN p + 1 ELSE p)
                /\ UNCHANGED stack
           ELSE /\ stack' = Append(stack, [close |-> close, list |-> NULL, back |-> NULL,
                                           key |-> NULL, first |-> TRUE])
                /\ pos' = p
                /\ UNCHANGED <<heap, ret>>
    /\ UNCHANGED <<held, text, source, fault, work>>

OpensArray  == Opens(OpenArray, CloseArray, Array(NULL))
OpensObject == Opens(OpenObject, CloseObject, Object(NULL, NULL))

(***************************************************************************)
(* Back in the loops over items, at pos behind the item and its spaces.    *)
(***************************************************************************)

\* Variant: a character is skipped between items whatever it is.
PastAny == SkipWhiteSpace(text, pos) + 1

\* A comma is skipped if there is one.
PastComma ==
    IF text[pos] = Comma THEN SkipWhiteSpace(text, pos + 1) ELSE pos

\* json_parser is called for the next item, with frame as the innermost one.
CallAgain(frame, p) ==
    /\ stack' = Append(Front(stack), frame)
    /\ ret' = Calling
    /\ pos' = p

\* Links node, new at n, behind the list of the innermost frame.
Links(node) ==
    LET n == Fresh(heap)
    IN  /\ heap' = IF Top.first THEN New(heap, node)
                   ELSE [New(heap, node) EXCEPT ![Top.back].next = n]
        /\ CallAgain([Top EXCEPT !.list = IF Top.first THEN n ELSE @,
                                 !.back = n, !.key = NULL, !.first = FALSE], PastComma)

\* The first item of an array is taken even if it is NULL.
ReadsItem ==
    /\ Returned /\ Top.close = CloseArray
    /\ Top.first \/ ret # NULL
    /\ HasRoom(heap)
    /\ Links(Array(ret))
    /\ UNCHANGED <<held, text, source, fault, work>>

\* malloc's NULL is stored through.
RunsOutOfMemory ==
    /\ Returned /\ Top.close = CloseArray /\ ret # NULL
    /\ ~HasRoom(heap)
    /\ fault' = "memory"
    /\ UNCHANGED <<heap, held, text, pos, stack, ret, source, work>>

\* Variant: the loop goes on although there is no item.
ReadsOn == CallAgain([Top EXCEPT !.key = NULL], PastComma)

\* The array or object ends at the first character that starts no item.
CloseList ==
    /\ Return(Top.list, IF text[pos] = Top.close THEN pos + 1 ELSE pos)
    /\ stack' = Front(stack)

EndsArray ==
    /\ Returned /\ Top.close = CloseArray
    /\ ~Top.first /\ ret = NULL
    /\ CloseList
    /\ UNCHANGED <<heap, held, text, source, fault, work>>

\* read_k_v: a name with its colon
ReadsName ==
    /\ Returned /\ Top.close = CloseObject /\ Top.key = NULL
    /\ ret # NULL /\ text[pos] = Colon
    /\ CallAgain([Top EXCEPT !.key = ret], SkipWhiteSpace(text, pos + 1))
    /\ UNCHANGED <<heap, held, text, source, fault, work>>

\* read_k_v: the value, and with it the pair.  If the first pair was given up,
\* there is nothing to link it to.
ReadsPair ==
    /\ Returned /\ Top.close = CloseObject /\ Top.key # NULL
    /\ ret # NULL /\ HasRoom(heap)
    /\ IF ~Top.first /\ Top.list = NULL
       THEN /\ fault' = "null"
            /\ UNCHANGED <<heap, pos, stack, ret>>
       ELSE /\ Links(Object(Top.key, ret))
            /\ UNCHANGED fault
    /\ UNCHANGED <<held, text, source, work>>

\* Variant: a name without a value is not deleted.
NameLeft == heap

\* read_k_v has no pair to return: what it has read of one is deleted.
NameDeleted == Deleted(heap, IF Top.key = NULL THEN ret ELSE Top.key)

\* read_k_v returns NULL, which ends the object unless it was to be the first.
GivesPairUp ==
    /\ Returned /\ Top.close = CloseObject
    /\ \/ ret = NULL
       \/ Top.key = NULL /\ text[pos] # Colon
    /\ heap' = NameDeleted
    /\ IF Top.first
       THEN CallAgain([Top EXCEPT !.key = NULL, !.first = FALSE], PastComma)
       ELSE CloseList
    /\ UNCHANGED <<held, text, source, fault, work>>

ParserStep ==
    \/ ReadsString \/ ReadsNumber \/ ReadsWord \/ ReadsNothing
    \/ OpensArray \/ OpensObject
    \/ ReadsItem \/ RunsOutOfMemory \/ EndsArray
    \/ ReadsName \/ ReadsPair \/ GivesPairUp

(***************************************************************************)
(* The program's calls.                                                    *)
(***************************************************************************)

Parses(t, from, cost) ==
    /\ text' = t
    /\ pos' = 1
    /\ ret' = Calling
    /\ source' = from
    /\ work' = work + cost
    /\ UNCHANGED <<heap, held, stack, fault>>

\* json_convert_string_2_value
ParsesText ==
    /\ Idle
    /\ \/ work = 0 /\ \E t \in Texts : Parses(t, NULL, MaxWork)
       \/ work < MaxWork /\ \E t \in Samples : Parses(t, NULL, 1)

\* json_convert_value_2_string, then json_convert_string_2_value of the result
ParsesPrint ==
    /\ Idle /\ work < MaxWork
    /\ \E a \in held \union Statics : Parses(Printed(heap, a) \o <<0>>, a, 1)

\* json_convert_string_2_value returns.
Parsed ==
    /\ Done
    /\ held' = held \union ({ret} \ ({NULL} \union Statics))
    /\ text' = <<>>
    /\ pos' = 0
    /\ ret' = NULL
    /\ source' = NULL
    /\ UNCHANGED <<heap, stack, fault, work>>

Call ==
    /\ Idle /\ work < MaxWork
    /\ work' = work + 1
    /\ UNCHANGED parserVars

\* A call that makes a value of the values in used.
Makes(node, used) ==
    /\ Call /\ HasRoom(heap)
    /\ heap' = New(heap, node)
    /\ held' = (held \ used) \union {Fresh(heap)}

MakesLeaf ==
    \/ \E s \in Strings : Makes(String(s), {})
    \/ \E v \in Ints : Makes(IntNumber(v), {})
    \/ \E v \in Floats : Makes(FloatNumber(v), {})
    \/ Makes(Object(NULL, NULL), {})
    \/ Makes(Array(NULL), {})

MakesArray == \E v \in held \union Statics : Makes(Array(v), {v})

MakesPair ==
    \E k \in held, v \in held \union Statics :
        /\ k # v /\ heap[k].type = "string"
        /\ Makes(Object(k, v), {k, v})

\* json_number_set_int and json_number_set_float
SetsNumber ==
    \E a \in held :
        /\ Call /\ heap[a].type = "number"
        /\ \/ \E v \in Ints : heap' = [heap EXCEPT ![a] = IntNumber(v)]
           \/ \E v \in Floats : heap' = [heap EXCEPT ![a] = FloatNumber(v)]
        /\ UNCHANGED held

Concat(type, a, b) ==
    /\ Call /\ a # b
    /\ heap[a].type = type /\ heap[b].type = type
    /\ heap' = Concated(heap, a, b).heap
    /\ held' = (held \ {a, b}) \union {Concated(heap, a, b).ret}

ObjectConcat(a, b) == Concat("object", a, b)
ArrayConcat(a, b)  == Concat("array", a, b)

DeletesValue ==
    \E a \in held :
        /\ Call
        /\ heap' = Deleted(heap, a)
        /\ held' = held \ {a}

JsonInit ==
    /\ heap = StaticHeap
    /\ held = {}
    /\ text = <<>> /\ pos = 0 /\ stack = <<>> /\ ret = NULL
    /\ source = NULL
    /\ fault = "none"
    /\ work = 0

JsonNext ==
    \/ ParserStep
    \/ ParsesText \/ ParsesPrint \/ Parsed
    \/ MakesLeaf \/ MakesArray \/ MakesPair \/ SetsNumber
    \/ \E a, b \in held : ObjectConcat(a, b) \/ ArrayConcat(a, b)
    \/ DeletesValue

JsonSpec == JsonInit /\ [][JsonNext]_jsonVars /\ WF_jsonVars(ParserStep)

(***************************************************************************)
(* Properties.                                                             *)
(***************************************************************************)

\* The types of the library's state.  json_parser goes on from positions within
\* the text only, however it is cut off; every pointer, of the program, of a list
\* being read and of a value, is to a value in memory; behind a node of a list
\* there are nodes of the same kind with a value, and a value in an object has a
\* name.
JsonTypeOK ==
    /\ pos \in 0..Len(text)
    /\ InUse(heap) \subseteq Memory
    /\ held \subseteq InUse(heap)
    /\ \A a \in DOMAIN heap :
         heap[a].type \in {"string", "number", "object", "array", "true", "false", "null"}
    /\ \A a \in ListNodes(heap) :
         LET next == heap[a].next
         IN  /\ heap[a].value \in DOMAIN heap \union {NULL}
             /\ next # NULL => /\ next \in ListNodes(heap) /\ heap[next].type = heap[a].type
                               /\ heap[next].value # NULL
             /\ heap[a].type = "object" =>
                  /\ heap[a].name \in DOMAIN heap \union {NULL}
                  /\ heap[a].value # NULL => heap[a].name # NULL
    /\ \A i \in DOMAIN stack :
         {stack[i].list, stack[i].back, stack[i].key} \subseteq DOMAIN heap \union {NULL}
    /\ ret \in DOMAIN heap \union {NULL, Calling}
    /\ fault \in {"none", "null", "memory"}
    /\ work \in 0..MaxWork

\* The pointers that own a value: the program's, and those of json_parser and
\* read_k_v.
Owners ==
    SetToSeq(held)
    \o FlattenSeq([i \in DOMAIN stack |-> <<stack[i].list, stack[i].key>>])
    \o (IF text # <<>> /\ ret # Calling THEN <<ret>> ELSE <<>>)

\* Every value in memory has one owner, at every moment of a parse and after
\* every call: deleting what the program has, frees everything once.  No error
\* path of the parser loses what it has read.
OwnedOnce ==
    LET freed == FlattenSeq([i \in DOMAIN Owners |-> Frees(heap, Owners[i])])
    IN  fault = "none" => /\ ToSet(freed) = InUse(heap)
                          /\ Len(freed) = Cardinality(InUse(heap))

\* t ends in a \u escape with a single character that is no digit.
EndsInEscape(t) ==
    LET n == Len(t)
    IN  n > 3 /\ t[n - 3] = Backslash /\ t[n - 2] = 117 /\ HexDigit(t[n - 1]) < 0

\* Although a \u escape that is cut off is read beyond the '\0' (json.c:381), what
\* stands there gets into no value, unless the text ends so: otherwise a '\0' is
\* found first, and stops the copy.
NothingFromBehind ==
    Entering /\ text[Here] = Quote /\ ~EndsInEscape(text) =>
        \A b, c \in Behind : StringRead(b) = StringRead(c)

\* The only texts that eat up the memory are those that end within an array.
OnlyOpenArrayExhausts ==
    fault = "memory" => Top.close = CloseArray /\ text[pos] = 0

\* Every parse comes to an end, with a value or the end of the program.
ParseEnds == (text # <<>>) ~> (Done \/ fault # "none")
=============================================================================
