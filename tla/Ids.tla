-------------------------------- MODULE Ids --------------------------------
(***************************************************************************)
(* Ring identifiers (p2core/ID.C).  An identifier is WORDS words of BITS   *)
(* bits, word 1 the most significant one; the program has five words of 32 *)
(* bits.  Every operation of the class works word by word with a carry, as *)
(* here; the numbers the words stand for appear only in the properties.    *)
(***************************************************************************)
EXTENDS Integers, Sequences, FiniteSetsExt, SequencesExt

CONSTANTS WORDS, DIGITS   \* words per identifier, hexadecimal digits per word

BITS == 4 * DIGITS
Word == 2 ^ BITS
Positions == [i \in 1..WORDS |-> i]
IsId(a) == Len(a) = WORDS /\ \A i \in 1..WORDS : a[i] \in 0..Word - 1

\* The loops run from the last word to the first, or from the first to the
\* last, with one carry; step(i, carry) is what an iteration leaves behind.
FromLast(step(_, _)) ==
  LET turn(i, s) == LET r == step(i, s.carry)
                    IN [words |-> <<r.word>> \o s.words, carry |-> r.carry]
  IN FoldRight(turn, Positions, [words |-> <<>>, carry |-> 0]).words

FromFirst(step(_, _)) ==
  LET turn(s, i) == LET r == step(i, s.carry)
                    IN [words |-> Append(s.words, r.word), carry |-> r.carry]
  IN FoldLeft(turn, [words |-> <<>>, carry |-> 0], Positions).words

ZERO == [i \in 1..WORDS |-> 0]
mkWord(w) == [ZERO EXCEPT ![WORDS] = w % Word]
ONE == mkWord(1)

compare(a, b) ==
  LET D == {i \in 1..WORDS : a[i] # b[i]}
  IN IF D = {} THEN 0 ELSE IF a[Min(D)] < b[Min(D)] THEN -1 ELSE 1

-----------------------------------------------------------------------------
(* Arithmetic on the ring.                                                 *)

add_NoCarry(a, b) == [i \in 1..WORDS |-> (a[i] + b[i]) % Word]
add(a, b) ==
  FromLast(LAMBDA i, carry :
    LET temp == a[i] + b[i] + carry
    IN [word |-> temp % Word, carry |-> IF temp > Word - 1 THEN 1 ELSE 0])

\* a.distance(to): the words are unsigned, so words[i] + carry may wrap to 0.
distance(a, to) ==
  FromLast(LAMBDA i, carry :
    LET need == (a[i] + carry) % Word
    IN [word  |-> (to[i] - a[i] - carry) % Word,
        carry |-> IF to[i] < need \/ (carry = 1 /\ need = 0) THEN 1 ELSE 0])

lshift(a, shift) ==
  LET long  == IF shift > BITS THEN shift \div BITS ELSE 0
      short == IF shift > BITS THEN shift % BITS ELSE shift
      moved == [i \in 1..WORDS |-> IF i + long <= WORDS THEN a[i + long] ELSE 0]
      step(i, carry) == LET temp == moved[i] * 2 ^ short + carry
                        IN [word |-> temp % Word, carry |-> temp \div Word]
  IN IF shift >= WORDS * BITS THEN ZERO ELSE FromLast(step)

rshift(a, shift) ==
  LET long  == IF shift > BITS THEN shift \div BITS ELSE 0
      short == IF shift > BITS THEN shift % BITS ELSE shift
      moved == [i \in 1..WORDS |-> IF i > long THEN a[i - long] ELSE 0]
      step(i, carry) == LET temp == (moved[i] * Word) \div 2 ^ short
                        IN [word |-> (temp \div Word) + carry, carry |-> temp % Word]
  IN IF shift >= WORDS * BITS THEN ZERO ELSE FromFirst(step)

Bit(n, k) == (n \div 2 ^ k) % 2
ByBit(f(_, _), m, n) ==
  MapThenSumSet(LAMBDA k : f(Bit(m, k), Bit(n, k)) * 2 ^ k, 0..BITS - 1)
bitwiseAND(a, b) == [i \in 1..WORDS |-> ByBit(LAMBDA x, y : x * y, a[i], b[i])]
bitwiseOR(a, b)  == [i \in 1..WORDS |-> ByBit(LAMBDA x, y : x + y - x * y, a[i], b[i])]
bitwiseXOR(a, b) == [i \in 1..WORDS |-> ByBit(LAMBDA x, y : (x + y) % 2, a[i], b[i])]
bitwiseNOT(a)    == [i \in 1..WORDS |-> Word - 1 - a[i]]

-----------------------------------------------------------------------------
(* Intervals of the ring, as three comparisons of the code's disjunction.  *)

betweenOO(v, from, to) ==
  \/ compare(v, from) > 0 /\ compare(v, to) < 0
  \/ compare(to, from) <= 0 /\ compare(v, from) > 0
  \/ compare(v, to) < 0 /\ compare(to, from) <= 0
betweenOC(v, from, to) ==
  \/ compare(v, from) > 0 /\ compare(v, to) <= 0
  \/ compare(to, from) <= 0 /\ compare(v, from) > 0
  \/ compare(v, to) <= 0 /\ compare(to, from) <= 0
betweenCO(v, from, to) ==
  \/ compare(v, from) >= 0 /\ compare(v, to) < 0
  \/ compare(to, from) <= 0 /\ compare(v, from) >= 0
  \/ compare(v, to) < 0 /\ compare(to, from) <= 0
betweenCC(v, from, to) ==
  \/ compare(v, from) >= 0 /\ compare(v, to) <= 0
  \/ compare(to, from) <= 0 /\ compare(v, from) >= 0
  \/ compare(v, to) <= 0 /\ compare(to, from) <= 0

-----------------------------------------------------------------------------
(* Texts: sequences of character codes.                                    *)

HexDigit(c) == CASE c \in 48..57  -> c - 48
                 [] c \in 97..102 -> c - 87
                 [] c \in 65..70  -> c - 55
                 [] OTHER         -> 16
HexChar(n) == IF n < 10 THEN n + 48 ELSE n + 87
HexText(w) == [k \in 1..DIGITS |-> HexChar((w \div 16 ^ (DIGITS - k)) % 16)]
toString(a) == <<48, 120>> \o FlattenSeq([i \in 1..WORDS |-> HexText(a[i])]) \o <<73>>

\* strtoull(text, &end, 16): the value of the leading digits, after an
\* optional "0x", and what is left of the text.
HexRun(s) == Min({i \in 1..Len(s) : HexDigit(s[i]) = 16} \cup {Len(s) + 1}) - 1
HexValue(s) == FoldLeft(LAMBDA n, c : n * 16 + HexDigit(c), 0, s)
SplitAt(s, n) == [val |-> HexValue(SubSeq(s, 1, n)), end |-> SubSeq(s, n + 1, Len(s))]
Unmarked(s) == IF Len(s) > 2 /\ s[1] = 48 /\ s[2] = 120 /\ HexDigit(s[3]) < 16
               THEN SubSeq(s, 3, Len(s)) ELSE s
strtoull(s) == SplitAt(Unmarked(s), HexRun(Unmarked(s)))

\* A chunk that is not all digits: the code retries after each character it
\* cannot read, keeps the last value and fills the words above with zeros.
Chunk[s \in Seq(Int)] ==
  LET next(r) == IF r.end = <<>> THEN r.val ELSE Chunk[Tail(r.end)] IN next(strtoull(s))

ofText(hexString) ==
  LET width  == WORDS * DIGITS
      padded == [k \in 1..width |->
                   IF k + Len(hexString) > width THEN hexString[k + Len(hexString) - width] ELSE 48]
      chunk(i) == SubSeq(padded, (i - 1) * DIGITS + 1, i * DIGITS)
      last == Max({i \in 1..WORDS : strtoull(chunk(i)).end # <<>>} \cup {0})   \* the last one spoilt
  IN [i \in 1..WORDS |-> IF i < last THEN 0 ELSE Chunk[chunk(i)] % Word]
=============================================================================
