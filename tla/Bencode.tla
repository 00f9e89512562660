------------------------------ MODULE Bencode ------------------------------
(***************************************************************************)
(* bencode and bdecode of common/bencode.py.  Bytes are symbols: digits,   *)
(* signs and markers, a space, and for the rest names, one symbol each,    *)
(* that are ordered as the byte strings they stand for.  A value is        *)
(* [int |-> n], [bytes |-> symbols], [list |-> values] or                  *)
(* [dict |-> its items], where an item is [key |-> symbols, value |-> v].  *)
(* What the source writes as recursive functions are functions here that   *)
(* refer to themselves, of a nesting depth or of a position in the text.   *)
(***************************************************************************)
EXTENDS Integers, Sequences, SequencesExt, FiniteSetsExt

CONSTANT Symbols   \* in the order of their bytes, as a sequence

ASSUME SymbolsDiffer ==
    /\ Symbols \in Seq(Range(Symbols)) /\ IsInjective(Symbols)
    /\ {"-", ":", "0", "1", "2", "3", "4", "5", "6", "7", "8", "9", "d", "e", "i", "l"}
          \subseteq Range(Symbols)

Texts == Seq(Range(Symbols))

Digits == <<"0", "1", "2", "3", "4", "5", "6", "7", "8", "9">>

DigitValue(c) == (CHOOSE i \in 1..10 : Digits[i] = c) - 1

IsDigit(c) == c \in Range(Digits)

(* str(n) of a natural number, and of any integer.                         *)
Decimal(n) ==
    LET decimal[m \in 0..n] ==
            IF m < 10 THEN <<Digits[m + 1]>>
            ELSE Append(decimal[m \div 10], Digits[(m % 10) + 1])
    IN  decimal[n]

Signed(n) == IF n < 0 THEN <<"-">> \o Decimal(-n) ELSE Decimal(n)

Rank(c) == CHOOSE i \in DOMAIN Symbols : Symbols[i] = c

(* bytes.__lt__ *)
KeyLess(a, b) ==
    \E k \in 0..Len(a) :
        /\ k < Len(b)
        /\ \A j \in 1..k : a[j] = b[j]
        /\ k < Len(a) => Rank(a[k + 1]) < Rank(b[k + 1])

EncodeBytes(s) == Decimal(Len(s)) \o <<":">> \o s

Sorted(s) == \A i, j \in DOMAIN s : i < j => KeyLess(s[i].key, s[j].key)

Listings(items) == [1..Cardinality(items) -> items]

(* Mutant of SortedItems: items in the order of insertion, here reversed.  *)
SortedItems_unsorted(items) == CHOOSE s \in Listings(items) : Sorted(Reverse(s))

SortedItems(items) == CHOOSE s \in Listings(items) : Sorted(s)

EncodeItem(code, item) == EncodeBytes(item.key) \o code[item.value]

(* bencode(v), when code has the text of each value inside v.              *)
EncodeWith(code, v) ==
    IF "int" \in DOMAIN v THEN <<"i">> \o Signed(v.int) \o <<"e">>
    ELSE IF "bytes" \in DOMAIN v THEN EncodeBytes(v.bytes)
    ELSE IF "list" \in DOMAIN v
    THEN <<"l">> \o FlattenSeq([i \in 1..Len(v.list) |-> code[v.list[i]]]) \o <<"e">>
    ELSE LET items == SortedItems(v.dict) IN
         <<"d">> \o FlattenSeq([i \in 1..Len(items) |-> EncodeItem(code, items[i])]) \o <<"e">>

(* The values with at most d levels inside, for each d up to depth.        *)
ValuesWith(inner) ==
    [int : Int] \cup [bytes : Texts] \cup [list : Seq(inner)]
        \cup [dict : SUBSET [key : Texts, value : inner]]

Values(depth) ==
    LET values[d \in 0..depth] == ValuesWith(IF d = 0 THEN {} ELSE values[d - 1])
    IN  values

(* bencode of a value that is nested no deeper than this.                  *)
Codes(depth) ==
    LET codes[d \in 0..depth] ==
            [v \in Values(depth)[d] |-> EncodeWith(IF d = 0 THEN <<>> ELSE codes[d - 1], v)]
    IN  codes

Encode(depth, v) == Codes(depth)[depth][v]

-----------------------------------------------------------------------------
(* What may fail returns the set of its result, empty where the code       *)
(* raises BencodeError.                                                    *)

(* int() on bytes: blanks around the number, a plus sign and underscores   *)
(* between digits are taken too.                                           *)
Strip(s) ==
    LET kept == {k \in DOMAIN s : s[k] # "space"} IN
    IF kept = {} THEN <<>> ELSE SubSeq(s, Min(kept), Max(kept))

Number(digits) ==
    LET number[k \in 0..Len(digits)] ==
            IF k = 0 THEN 0
            ELSE IF digits[k] = "_" THEN number[k - 1]
            ELSE 10 * number[k - 1] + DigitValue(digits[k])
    IN  number[Len(digits)]

PyInt(s) ==
    LET t == Strip(s)
        signed == t # <<>> /\ Head(t) \in {"+", "-"}
        body == IF signed THEN Tail(t) ELSE t
    IN  IF /\ body # <<>>
           /\ \A k \in DOMAIN body :
                 \/ IsDigit(body[k])
                 \/ body[k] = "_" /\ k \in 2..(Len(body) - 1) /\ body[k + 1] # "_"
        THEN {IF signed /\ Head(t) = "-" THEN -Number(body) ELSE Number(body)}
        ELSE {}

(* data.find(symbol, i), as the set of at most one index.                  *)
Find(data, symbol, i) ==
    LET found == {k \in i..Len(data) : data[k] = symbol} IN
    IF found = {} THEN {} ELSE {Min(found)}

Parsed(value, next) == [value |-> value, next |-> next]

(* Mutant of LeadingZero: numbers may be padded.                           *)
LeadingZero_allowed(raw) == FALSE

LeadingZero(raw) == Len(raw) > 1 /\ Head(raw) = "0"

ParseInteger(data, i) ==
    UNION {LET raw == SubSeq(data, i + 1, end - 1) IN
           IF LeadingZero(raw) \/ IsPrefix(<<"-", "0">>, raw)
           THEN {}
           ELSE {Parsed([int |-> n], end + 1) : n \in PyInt(raw)}
             : end \in Find(data, "e", i + 1)}

ParseBytes(data, i) ==
    UNION {LET raw == SubSeq(data, i, colon - 1) IN
           IF LeadingZero(raw)
           THEN {}
           ELSE {Parsed([bytes |-> SubSeq(data, colon + 1, colon + n)], colon + n + 1)
                   : n \in {m \in PyInt(raw) : colon + m <= Len(data)}}
             : colon \in Find(data, ":", i)}

(* _parse_value at position i, where later[j][part] is what the parser     *)
(* reads from a position j further on: a value, or what the loop of        *)
(* _parse_list or _parse_dictionary has yet to append up to the end.       *)
ParseValue(data, later, i) ==
    IF i > Len(data) THEN {}
    ELSE IF data[i] = "i" THEN ParseInteger(data, i)
    ELSE IF data[i] = "l"
    THEN {Parsed([list |-> rest.value], rest.next) : rest \in later[i + 1]["list"]}
    ELSE IF data[i] = "d"
    THEN {Parsed([dict |-> Range(rest.value)], rest.next) : rest \in later[i + 1]["dict"]}
    ELSE IF IsDigit(data[i]) THEN ParseBytes(data, i)
    ELSE {}

ParseList(data, later, i) ==
    IF i > Len(data) THEN {}
    ELSE IF data[i] = "e" THEN {Parsed(<<>>, i + 1)}
    ELSE UNION {{Parsed(<<item.value>> \o rest.value, rest.next) : rest \in later[item.next]["list"]}
                  : item \in ParseValue(data, later, i)}

(* A key must come before the next one, so all keys differ.                *)
Precedes(key, rest) == rest = <<>> \/ KeyLess(key, rest[1].key)

ParseDictionary(data, later, i) ==
    IF i > Len(data) THEN {}
    ELSE IF data[i] = "e" THEN {Parsed(<<>>, i + 1)}
    ELSE UNION {UNION {
           {Parsed(<<[key |-> key.value.bytes, value |-> item.value]>> \o rest.value, rest.next)
              : rest \in {r \in later[item.next]["dict"] : Precedes(key.value.bytes, r.value)}}
             : item \in later[key.next]["value"]}
             : key \in {k \in ParseValue(data, later, i) : "bytes" \in DOMAIN k.value}}

Parser(data) ==
    LET parse[i \in 1..(Len(data) + 1)] ==
            [part \in {"value", "list", "dict"} |->
                IF part = "value" THEN ParseValue(data, parse, i)
                ELSE IF part = "list" THEN ParseList(data, parse, i)
                ELSE ParseDictionary(data, parse, i)]
    IN  parse

Decode(data) ==
    {parsed.value : parsed \in {p \in Parser(data)[1]["value"] : p.next = Len(data) + 1}}
=============================================================================
