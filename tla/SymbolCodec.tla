---------------------------- MODULE SymbolCodec -----------------------------
(***************************************************************************)
(* The two ways a symbol name becomes the fixed-width field that is        *)
(* compared on the wire.  A name is a sequence of characters; the field is *)
(* char symbol[8] of types.h, here Width characters wide.                  *)
(***************************************************************************)
EXTENDS Integers, Sequences

CONSTANTS
  Width,   \* sizeof(Quote::symbol) = sizeof(uint64_t) = 8
  Nul      \* the terminator character

ASSUME WidthAssumption == Width \in Nat \ {0}

\* The first n characters of a name, padded with Nul to the width.
Padded(name, n) ==
  [i \in 1 .. Width |-> IF i <= n /\ i <= Len(name) THEN name[i] ELSE Nul]

\* A fault: every character but the last of the buffer is copied.
PadShort(name) == Padded(name, Width - 2)

\* pack_symbol: memcpy of min(size, 8) bytes into a zeroed uint64_t.
pack_symbol(name) == Padded(name, Width)

\* generate_quote and generate_trade: strncpy of at most sizeof(symbol) - 1
\* characters into a zeroed field.  run_loop copies the field into the topic.
symbol_field(name) == Padded(name, Width - 1)
=============================================================================
