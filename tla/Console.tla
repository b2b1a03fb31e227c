------------------------------- MODULE Console -------------------------------
(****************************************************************************)
(* Formatted printing to the UART, verilog/dv/common/firmware/sc_print.c: a *)
(* call of sc_printf, one step for each character of the format, of the     *)
(* text and of what is stored in the UART, while the UART sends.            *)
(*                                                                          *)
(* A format is a sequence of characters, an argument a number or a sequence *)
(* of characters.  Numbers are small, so that lflag makes no difference.    *)
(****************************************************************************)
EXTENDS Image, Integers, Sequences, SequencesExt

CONSTANTS
  Prints,    \* bound: the calls, each a sequence of directives, see Piece
  BufSize,   \* sizeof(buf), 64
  ConsoleTx  \* bound: characters the UART holds

ASSUME BufferAssumption == BufSize \in Nat \ {0}

Digit == <<"0", "1", "2", "3", "4", "5", "6", "7", "8", "9">>
HexDigit == Digit \o <<"a", "b", "c", "d", "e", "f">>
Capitals == Digit \o <<"A", "B", "C", "D", "E", "F">>
Newline == "\n"

(* A piece of a format as a programmer thinks of it: a conversion with its  *)
(* flag, width, precision and argument, or with conv "" the literal arg.    *)
Piece(flag, width, precision, conv, arg) ==
  [flag |-> flag, width |-> width, precision |-> precision, conv |-> conv, arg |-> arg]

Number(n) == IF n < 0 THEN <<>> ELSE IF n < 10 THEN <<Digit[n + 1]>>
             ELSE <<Digit[n \div 10 + 1], Digit[(n % 10) + 1]>>
FormatOf(piece) ==
  IF piece.conv = "" THEN piece.arg
  ELSE <<"%">> \o piece.flag
       \o (IF piece.flag = <<"*">> THEN <<>> ELSE Number(piece.width))
       \o (IF piece.precision < 0 THEN <<>> ELSE <<".">> \o Number(piece.precision))
       \o <<piece.conv>>
ArgumentsOf(piece) ==
  (IF piece.flag = <<"*">> THEN <<piece.width>> ELSE <<>>)
  \o (IF piece.conv \in {"", "%", "q"} THEN <<>> ELSE <<piece.arg>>)

VARIABLES
  call,                   \* the pieces that are printed
  fmt, ap,                \* what of the format and of the arguments is left
  last_fmt,               \* the format behind the last %
  directive,              \* padc, width and precision, or Literal
  todo,                   \* characters on their way to putchar
  buf, flushed,           \* the buffer; how much of it is stored, or -1
  uartHolds,              \* characters in the UART
  handed, stored          \* history: what putchar was given, what was stored

consoleVars == <<image, call, fmt, ap, last_fmt, directive, todo, buf, flushed, uartHolds,
                 handed, stored>>

Literal == [padc |-> " ", width |-> -2, precision |-> -2]
Fresh == [padc |-> " ", width |-> -1, precision |-> -1]

ConsoleInit ==
  /\ call \in Choice("console", Prints)
  /\ fmt = FlattenSeq([k \in DOMAIN call |-> FormatOf(call[k])])
  /\ ap = FlattenSeq([k \in DOMAIN call |-> ArgumentsOf(call[k])])
  /\ last_fmt = <<>> /\ directive = Literal
  /\ todo = <<>> /\ buf = <<>> /\ flushed = -1
  /\ uartHolds = 0 /\ handed = <<>> /\ stored = <<>>

Times(ch, n) == [k \in 1..n |-> ch]

------------------------------------------------------------------------------
(* printnum.                                                                *)
digs[num \in Nat, base \in {8, 10, 16}] ==
  (IF num < base THEN <<>> ELSE digs[num \div base, base]) \o <<HexDigit[(num % base) + 1]>>

printnum(num, base, width, padc) ==
  LET text == digs[num, base] IN Times(padc, width - Len(text)) \o text

Capital(text) == [k \in DOMAIN text |->
                    IF text[k] \in ToSet(HexDigit)
                      THEN Capitals[SelectInSeq(HexDigit, LAMBDA ch : ch = text[k])]
                      ELSE text[k]]

(* The case of %s: the padding on the left and what is left of the width    *)
(* for the padding on the right.                                            *)
PrintString(p, d) ==
  LET body == IF d.precision < 0 \/ d.precision > Len(p) THEN p ELSE SubSeq(p, 1, d.precision)
      room == d.width - Len(body)
  IN  IF d.padc # "-" THEN Times(d.padc, room) \o body ELSE body \o Times(" ", room)

Base(conv) == CASE conv \in {"d", "u"} -> 10 [] conv = "o" -> 8 [] OTHER -> 16

(* The text of a conversion.  A negative number is a - and its magnitude.   *)
Converted(ch, d, arg) ==
  CASE ch = "c" -> arg
    [] ch = "s" -> PrintString(arg, d)
    [] ch = "d" /\ arg < 0 -> <<"-">> \o printnum(-arg, 10, d.width, d.padc)
    [] ch = "X" -> Capital(printnum(arg, 16, d.width, d.padc))
    [] ch = "p" -> <<"0", "x">> \o printnum(arg, 16, d.width, d.padc)
    [] OTHER -> printnum(arg, Base(ch), d.width, d.padc)

Conversions == {"c", "s", "d", "u", "o", "p", "x", "X"}

(* The digits from the head of the format on, and what they stand for.      *)
Digits(f) == {k \in 1..Len(f) : \A i \in 1..k : f[i] \in ToSet(Digit)}
ValueOf(f, n) == FoldLeft(LAMBDA v, ch : 10 * v + SelectInSeq(Digit, LAMBDA x : x = ch) - 1,
                          0, SubSeq(f, 1, n))

(* process_precision: the first number is the width.                        *)
WithNumber(d, n) == IF d.width < 0 THEN [d EXCEPT !.width = n] ELSE [d EXCEPT !.precision = n]

(* One turn of the loop of vprintfmt.                                       *)
Advance(f, d, text) == fmt' = f /\ directive' = d /\ todo' = text

OutsideDirective ==
  /\ directive = Literal /\ fmt # <<>>
  /\ IF Head(fmt) = "%" THEN Advance(Tail(fmt), Fresh, <<>>) /\ last_fmt' = Tail(fmt)
                        ELSE Advance(Tail(fmt), Literal, <<Head(fmt)>>) /\ UNCHANGED last_fmt
  /\ UNCHANGED ap

(* An unknown escape after which the format goes on where it stood.         *)
UnknownSkipped == fmt
Unknown == last_fmt

InDirective ==
  LET ch == IF fmt = <<>> THEN "" ELSE Head(fmt)
      rest == IF fmt = <<>> THEN <<>> ELSE Tail(fmt)
      Flags(d) == Advance(rest, d, <<>>)
  IN  /\ directive # Literal
      /\ CASE ch = "-" -> Flags([directive EXCEPT !.padc = "-"])
           [] ch = "0" -> Flags([directive EXCEPT !.padc = "0"])
           [] ch = "." -> Flags([directive EXCEPT !.width = IF @ < 0 THEN 0 ELSE @])
           [] ch \in {"#", "l"} -> Flags(directive)
           [] ch \in ToSet(Tail(Digit)) ->
                LET n == Max(Digits(fmt))
                IN  Advance(SubSeq(fmt, n + 1, Len(fmt)), WithNumber(directive, ValueOf(fmt, n)), <<>>)
           [] ch = "*" -> Flags(WithNumber(directive, Head(ap)))
           [] ch = "f" -> Advance(rest, Literal, <<>>)
           [] ch = "%" -> Advance(rest, Literal, <<"%">>)
           [] ch \in Conversions -> Advance(rest, Literal, Converted(ch, directive, Head(ap)))
           [] OTHER -> Advance(Unknown, Literal, <<"%">>)
      /\ ap' = IF ch \in Conversions \cup {"*"} THEN Tail(ap) ELSE ap
      /\ UNCHANGED last_fmt

vprintfmt ==
  /\ todo = <<>> /\ flushed = -1
  /\ OutsideDirective \/ InDirective
  /\ UNCHANGED <<call, buf, flushed, uartHolds, handed, stored>>

------------------------------------------------------------------------------
(* A buffer that is written only at the end of a line.                      *)
LineEnds(line) == Last(line) = Newline

Flushes(line) == Last(line) = Newline \/ Len(line) = BufSize

putchar ==
  /\ todo # <<>> /\ flushed = -1
  /\ todo' = Tail(todo) /\ handed' = Append(handed, Head(todo))
  /\ buf' = Append(buf, Head(todo))
  /\ flushed' = IF Flushes(buf') THEN 0 ELSE -1
  /\ UNCHANGED <<call, fmt, ap, last_fmt, directive, uartHolds, stored>>

(* The test of the status is commented out: a character that finds the UART *)
(* full is gone.                                                            *)
sc_puts ==
  /\ flushed \in 0..(Len(buf) - 1)
  /\ flushed' = flushed + 1
  /\ stored' = Append(stored, buf[flushed + 1])
  /\ uartHolds' = IF uartHolds < ConsoleTx THEN uartHolds + 1 ELSE uartHolds
  /\ UNCHANGED <<call, fmt, ap, last_fmt, directive, todo, buf, handed>>

EndOfFlush ==
  /\ flushed = Len(buf)
  /\ buf' = <<>> /\ flushed' = -1
  /\ UNCHANGED <<call, fmt, ap, last_fmt, directive, todo, uartHolds, handed, stored>>

ConsoleUartSends ==
  /\ uartHolds > 0 /\ uartHolds' = uartHolds - 1
  /\ UNCHANGED <<call, fmt, ap, last_fmt, directive, todo, buf, flushed, handed, stored>>

sc_printf == vprintfmt \/ putchar \/ sc_puts \/ EndOfFlush

ConsoleStep(A) == Runs("console") /\ A /\ UNCHANGED image

ConsoleNext == ConsoleStep(sc_printf \/ ConsoleUartSends)

ConsoleSpec == ConsoleInit /\ [][ConsoleNext]_consoleVars

------------------------------------------------------------------------------
(* What C says the text of a piece is, for the pieces whose meaning this    *)
(* printf keeps: no width for a negative number, no - for any number.       *)
Justified(text, piece) ==
  LET fill == IF piece.flag = <<"0">> THEN "0" ELSE " "
      pad == Times(fill, piece.width - Len(text))
  IN  IF piece.flag = <<"-">> THEN text \o pad ELSE pad \o text

InBase(n, base) ==
  LET length == CHOOSE k \in 1..12 : n < base^k /\ (k = 1 \/ base^(k - 1) <= n)
  IN  [k \in 1..length |-> HexDigit[((n \div base^(length - k)) % base) + 1]]

Meaning(piece) ==
  CASE piece.conv = "" -> piece.arg
    [] piece.conv = "%" -> <<"%">>
    [] piece.conv = "q" -> FormatOf(piece)
    [] piece.conv = "c" -> piece.arg
    [] piece.conv = "s" ->
         Justified(IF piece.precision \in 0..Len(piece.arg)
                     THEN SubSeq(piece.arg, 1, piece.precision) ELSE piece.arg, piece)
    [] piece.conv = "d" /\ piece.arg < 0 -> <<"-">> \o InBase(-piece.arg, 10)
    [] piece.conv = "X" -> Justified(Capital(InBase(piece.arg, 16)), piece)
    [] OTHER -> Justified(InBase(piece.arg, Base(piece.conv)), piece)

ConsoleDone == fmt = <<>> /\ directive = Literal /\ todo = <<>> /\ flushed = -1

(* A call prints what its format means, escapes that are not known          *)
(* literally (vprintfmt, lines 157-302).                                    *)
PrintsItsMeaning ==
  ConsoleDone => handed = FlattenSeq([k \in DOMAIN call |-> Meaning(call[k])])

(* The array is not overrun, and what was stored and what is kept are       *)
(* together what was printed, in order, nothing twice (putchar).            *)
BufferKept ==
  /\ Len(buf) <= BufSize
  /\ stored \o SubSeq(buf, (IF flushed = -1 THEN 0 ELSE flushed) + 1, Len(buf)) = handed

==============================================================================
