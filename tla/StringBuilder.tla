---------------------------- MODULE StringBuilder ----------------------------
(***************************************************************************)
(* The string builder of string_builder.c: a chain of cells linked by      *)
(* cache_head, each with a buffer of its own, both from malloc.  A buffer  *)
(* is kept as the text it holds, whose length is the cell's buffer_length. *)
(* The user has one builder at a time and calls it as its header allows.   *)
(***************************************************************************)
EXTENDS Naturals, Sequences, FiniteSets, SequencesExt, FiniteSetsExt

CONSTANTS
    Cells,     \* addresses of string_builder_t
    Buffers,   \* addresses of the buffers
    Null,
    Texts,     \* the texts a user gives
    NoText,    \* in the place of a text where there is none
    Zero,      \* the character '\0'
    MaxLength  \* bound: characters in a builder

ASSUME BuilderAssumption ==
    /\ IsFiniteSet(Cells)
    /\ Null \notin Cells \union Buffers
    /\ Texts \subseteq Seq(Nat \ {Zero})
    /\ NoText \notin Seq(Nat)
    /\ MaxLength \in Nat

VARIABLES
    cells,  \* the string_builder_t at each address in use
    chars,  \* the text in each buffer in use
    sb,     \* the user's builder
    given,  \* history: the text c_str last returned a buffer with
    tidy    \* history: every builder began empty, and was built once at most

builderVars == <<cells, chars, sb, given, tidy>>

\* The cells of a table as a loop over cache_head meets them, from head on.
Linked(table, head) ==
    LET at[i \in 1..Cardinality(Cells)] ==
          IF i = 1 THEN head
          ELSE IF at[i - 1] \in DOMAIN table THEN table[at[i - 1]].cache_head
          ELSE Null
    IN  [i \in {j \in 1..Cardinality(Cells) : at[j] # Null} |-> at[i]]

\* The cells of the builder.
Chain == Linked(cells, sb)

Reached == {Chain[i] : i \in DOMAIN Chain}

TextOf(c) == IF cells[c].buffer = Null THEN <<>> ELSE chars[cells[c].buffer]

Contents == FlattenSeq([i \in DOMAIN Chain |-> TextOf(Chain[i])])

FreeCells   == Cells \ DOMAIN cells
FreeBuffers == Buffers \ DOMAIN chars

\* f with x mapped to y, x being what malloc returned.
Put(f, x, y) == [z \in DOMAIN f \union {x} |-> IF z = x THEN y ELSE f[z]]

Without(f, S) == [z \in DOMAIN f \ S |-> f[z]]

\* string_builder_new
New(c) ==
    /\ sb = Null
    /\ sb' = c
    /\ cells' = Put(cells, c, [buffer |-> Null, cache_head |-> Null])
    /\ UNCHANGED <<chars, given, tidy>>

\* string_builder_from_pchar, called by the user
FromPchar(t, c, b) ==
    /\ sb = Null
    /\ sb' = c
    /\ cells' = Put(cells, c, [buffer |-> b, cache_head |-> Null])
    /\ chars' = Put(chars, b, t)
    /\ tidy' = FALSE
    /\ UNCHANGED given

\* Variant: the new cell is linked behind the first one.
AppendToHead(t, c, b) ==
    /\ sb # Null
    /\ cells' = [Put(cells, c, [buffer |-> b, cache_head |-> Null]) EXCEPT ![sb].cache_head = c]
    /\ chars' = Put(chars, b, t)
    /\ UNCHANGED <<sb, given, tidy>>

\* string_builder_append: the last cell gets a successor.
AppendText(t, c, b) ==
    /\ sb # Null
    /\ Len(Contents) + Len(t) <= MaxLength
    /\ cells' = [Put(cells, c, [buffer |-> b, cache_head |-> Null])
                   EXCEPT ![Last(Chain)].cache_head = c]
    /\ chars' = Put(chars, b, t)
    /\ UNCHANGED <<sb, given, tidy>>

\* Variant: an index at the end of a cell is taken for one inside.
ChAtEnd(index) ==
    LET upTo[n \in 0..Len(Chain)] ==
          IF n = 0 THEN 0 ELSE upTo[n - 1] + Len(TextOf(Chain[n]))
        hit == {n \in 1..Len(Chain) : index <= upTo[n]}
    IN  IF hit = {} \/ index = upTo[Min(hit)] THEN Zero
        ELSE TextOf(Chain[Min(hit)])[index - upTo[Min(hit) - 1] + 1]

\* string_builder_ch: the lengths are added up along the chain until they
\* exceed index.
Ch(index) ==
    LET upTo[n \in 0..Len(Chain)] ==
          IF n = 0 THEN 0 ELSE upTo[n - 1] + Len(TextOf(Chain[n]))
        hit == {n \in 1..Len(Chain) : index < upTo[n]}
    IN  IF hit = {} THEN Zero
        ELSE TextOf(Chain[Min(hit)])[index - upTo[Min(hit) - 1] + 1]

BuffersOf(S) == {cells[c].buffer : c \in S} \ {Null}

\* Variant: only the cell behind the head.
NextCell == {Chain[i] : i \in 2..Len(Chain)} \ {Chain[i] : i \in 3..Len(Chain)}

\* string_builder_delete of the chain behind the head.
CellsBehind == {Chain[i] : i \in 2..Len(Chain)}

\* Variant: the head's old buffer with them.
BuffersFreedAll == BuffersOf(CellsBehind \union {sb})

\* The buffers c_str frees: those of the cells behind the head, and not the
\* one it had itself.
BuffersFreed == BuffersOf(CellsBehind)

\* string_builder_c_str: everything is copied to one buffer for the head, and
\* the cells behind it are deleted.
CStr(b) ==
    /\ sb # Null
    /\ chars' = Put(Without(chars, BuffersFreed), b, Contents)
    /\ cells' = Put(Without(cells, CellsBehind), sb, [buffer |-> b, cache_head |-> Null])
    /\ given' = Put(given, b, Contents)
    /\ tidy' = (tidy /\ cells[sb].buffer = Null)
    /\ UNCHANGED sb

\* string_builder_delete by the user, whose pointer to the last text ends with it.
Delete ==
    /\ sb # Null
    /\ cells' = Without(cells, Reached)
    /\ chars' = Without(chars, BuffersOf(Reached))
    /\ given' = Without(given, BuffersOf(Reached))
    /\ sb' = Null
    /\ UNCHANGED tidy

BuilderInit ==
    /\ cells = <<>>
    /\ chars = <<>>
    /\ sb = Null
    /\ given = <<>>
    /\ tidy = TRUE

BuilderNext ==
    \/ \E c \in FreeCells : New(c)
    \/ \E c \in FreeCells, b \in FreeBuffers, t \in Texts :
         FromPchar(t, c, b) \/ AppendText(t, c, b)
    \/ \E b \in FreeBuffers : CStr(b)
    \/ Delete

BuilderSpec == BuilderInit /\ [][BuilderNext]_builderVars

(***************************************************************************)
(* Properties.                                                             *)
(***************************************************************************)

\* What is reached from the builder is in use, so that no loop over cache_head
\* and no copy reads freed memory; no cell is ever lost, and no buffer as long
\* as builders begin empty and are built once, as json.c does (468-480, 736-744).
ChainHoldsMemory ==
    /\ Reached = DOMAIN cells
    /\ BuffersOf(Reached) \subseteq DOMAIN chars
    /\ tidy => DOMAIN chars = BuffersOf(Reached)

\* A string that c_str has returned keeps its text, whatever is appended and
\* built afterwards, until the builder is deleted.
GivenTextStays ==
    \A b \in DOMAIN given : b \in DOMAIN chars /\ chars[b] = given[b]

\* string_builder_ch finds every character, in whichever cell it is, before
\* and after the cells are built into one, and '\0' beyond the end.
ChReadsContents ==
    \A index \in 0..MaxLength :
        Ch(index) = IF index < Len(Contents) THEN Contents[index + 1] ELSE Zero

\* The chain of cells is the text of BuiltText.
Text == INSTANCE BuiltText WITH built <- IF sb = Null THEN NoText ELSE Contents

ImplementsText == Text!TextSpec
=============================================================================
