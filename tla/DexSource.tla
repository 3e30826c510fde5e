------------------------------- MODULE DexSource -------------------------------
(***************************************************************************)
(* What is outside src/: the DEX file a compiler writes, the listing that  *)
(* `dexdump -d` prints of it, and what both say.  The two decoders are     *)
(* held against it.                                                        *)
(*                                                                         *)
(* A dex is a sequence of sections, with their tables in the order the     *)
(* file has them.  Instructions name the others by their place in the      *)
(* method; the layout turns places into offsets, and puts the payloads of  *)
(* switches and arrays behind the code, on even offsets.                   *)
(***************************************************************************)
EXTENDS Integers, Sequences, SequencesExt

At0(table, v) == CHOOSE n \in 0 .. Len(table) - 1 : table[n + 1] = v

\* A table as the file has it: numbered from 0.
Numbered(table) == [n \in 0 .. Len(table) - 1 |-> table[n + 1]]

RefIndex(s, v) ==
  CHOOSE n \in 0 .. Len(s.types) + Len(s.fields) + Len(s.methods) :
    \E t \in {s.types, s.fields, s.methods} : n < Len(t) /\ t[n + 1] = v

-----------------------------------------------------------------------------
(***************************************************************************)
(* Layout of a method's body.                                              *)
(***************************************************************************)
WidthOf(i) ==
  CASE i.format \in {"10x", "11x", "12x", "10t"} -> 1
    [] i.format \in {"20t", "21c", "21t", "22c", "22t", "22x"} -> 2
    [] i.format = "51l" -> 5
    [] i.format = "45cc" -> 4
    [] OTHER -> 3

Offset(body, k) ==
  LET at[j \in 1 .. k] == IF j = 1 THEN 0 ELSE at[j - 1] + WidthOf(body[j - 1])
  IN  at[k]

CodeEnd(body) == Offset(body, Len(body)) + WidthOf(body[Len(body)])

Even(n) == n + (n % 2)

PayloadWidth(i) ==
  CASE i.name = "packed-switch" -> 4 + 2 * Len(i.to)
    [] i.name = "sparse-switch" -> 2 + 4 * Len(i.to)
    [] i.name = "fill-array-data" -> 4 + Len(i.regs) - 1
    [] OTHER -> 0

\* Where the payloads of the first k instructions end.
PayloadEnd(body, k) ==
  LET end[j \in 0 .. k] == IF j = 0 THEN CodeEnd(body)
                           ELSE IF PayloadWidth(body[j]) = 0 THEN end[j - 1]
                           ELSE Even(end[j - 1]) + PayloadWidth(body[j])
  IN  end[k]

PayloadAt(body, k) == Even(PayloadEnd(body, k - 1))

Words(n) == <<n % 65536, (n \div 65536) % 65536>>

Reg(i, k) == IF k <= Len(i.regs) THEN i.regs[k] ELSE 0

Encode(s, body, k) ==
  LET i == body[k]
      ref == RefIndex(s, i.ref)
      dist == Offset(body, i.to[1]) - Offset(body, k)
      first == i.code + 256 * Reg(i, 1)
      pair == first + 4096 * Reg(i, 2)
  IN  CASE i.format = "10x" -> <<i.code>>
        [] i.format = "11x" -> <<first>>
        [] i.format = "12x" -> <<pair>>
        [] i.format = "10t" -> <<i.code + 256 * (dist % 256)>>
        [] i.format = "20t" -> <<i.code, dist % 65536>>
        [] i.format = "21c" -> <<first, ref>>
        [] i.format = "21t" -> <<first, dist % 65536>>
        [] i.format = "22c" -> <<pair, ref>>
        [] i.format = "22t" -> <<pair, dist % 65536>>
        [] i.format = "22x" -> <<first, Reg(i, 2)>>
        [] i.format = "30t" -> <<i.code>> \o Words(dist)
        [] i.format = "31t" -> <<first>> \o Words(PayloadAt(body, k) - Offset(body, k))
        [] i.format = "32x" -> <<i.code, Reg(i, 1), Reg(i, 2)>>
        [] i.format = "35c" -> <<i.code + 4096 * Len(i.regs) + 256 * Reg(i, 5), ref,
                                 Reg(i, 1) + 16 * Reg(i, 2) + 256 * Reg(i, 3) + 4096 * Reg(i, 4)>>
        \* The call of a method handle names its prototype in a fourth unit.
        [] i.format = "45cc" -> <<i.code + 4096 * Len(i.regs) + 256 * Reg(i, 5), ref,
                                  Reg(i, 1) + 16 * Reg(i, 2) + 256 * Reg(i, 3) + 4096 * Reg(i, 4), \h1d>>
        [] i.format = "3rc" -> <<i.code + 256 * Len(i.regs), ref, Reg(i, 1)>>
        \* A wide constant whose words look like instructions.
        [] i.format = "51l" -> <<first, \h1d, \h21d, \h1e, \h100>>

Payload(body, k) ==
  LET i == body[k]
      targets == [j \in 1 .. Len(i.to) |-> Words(Offset(body, i.to[j]) - Offset(body, k))]
  IN  CASE i.name = "packed-switch" -> <<\h100, Len(i.to), 0, 0>> \o FlattenSeq(targets)
        [] i.name = "sparse-switch" -> <<\h200, Len(i.to)>> \o [n \in 1 .. 2 * Len(i.to) |-> n] \o FlattenSeq(targets)
        [] i.name = "fill-array-data" -> <<\h300, 2, Len(i.regs) - 1, 0>> \o Tail(i.regs)
        [] OTHER -> <<>>

Padding(body, k) == IF PayloadWidth(body[k]) # 0 /\ PayloadEnd(body, k - 1) % 2 = 1 THEN <<0>> ELSE <<>>

Units(s, body) ==
  FlattenSeq([k \in 1 .. Len(body) |-> Encode(s, body, k)])
    \o FlattenSeq([k \in 1 .. Len(body) |-> Padding(body, k) \o Payload(body, k)])

-----------------------------------------------------------------------------
(***************************************************************************)
(* Encodings of numbers, handlers and lines.                               *)
(***************************************************************************)
UlebOf(n) == IF n < 128 THEN <<n>> ELSE <<128 + (n % 128), n \div 128>>
SlebOf(n) == IF n \in -64 .. 63 THEN <<n % 128>> ELSE <<128 + (n % 128), (n \div 128) % 128>>

HandlerList(s, body, try) ==
  SlebOf(IF try.all = {} THEN Len(try.typed) ELSE - Len(try.typed))
    \o FlattenSeq([h \in 1 .. Len(try.typed) |->
         UlebOf(h) \o UlebOf(Offset(body, try.typed[h]))])
    \o FlattenSeq([h \in 1 .. (IF try.all = {} THEN 0 ELSE 1) |-> UlebOf(Offset(body, CHOOSE a \in try.all : TRUE))])

HandlerBytes(s, body, tries, n) ==
  UlebOf(Len(tries)) \o FlattenSeq([t \in 1 .. n |-> HandlerList(s, body, tries[t])])

\* A line entry is one special opcode where that can say it.
LineEntry(line, address) ==
  IF line \in -4 .. 10 /\ address \in 0 .. 15 THEN <<10 + line + 4 + 15 * address>>
  ELSE <<2>> \o SlebOf(line) \o <<1>> \o UlebOf(address) \o <<14>>

DebugBytes(body, lines) ==
  LET address(k) == IF k = 0 THEN 0 ELSE Offset(body, lines[k][1])
      line(k) == IF k = 0 THEN 1 ELSE lines[k][2]
  IN  <<1, 2, 0, 0, 3, 0, 1, 1, 7>>
        \o FlattenSeq([k \in 1 .. Len(lines) |->
             LineEntry(line(k) - line(k - 1), address(k) - address(k - 1)) \o <<5, 0>>])
        \o <<0>>

\* What is torn runs off the end of the file, which has lost its last byte.
Torn(bytes, torn) == IF torn THEN SubSeq(bytes, 1, Len(bytes) - 1) ELSE bytes

CodeItem(s, c) ==
  [registers |-> c.registers, ins |-> c.ins, units |-> Units(s, c.body),
   debug |-> IF c.lines = <<>> THEN <<>> ELSE Torn(DebugBytes(c.body, c.lines), "lines" \in c.torn),
   tries |-> [t \in 1 .. Len(c.tries) |->
                LET from == Offset(c.body, c.tries[t].from)
                IN  [start |-> from, count |-> Offset(c.body, c.tries[t].to) - from,
                     handlers |-> Len(HandlerBytes(s, c.body, c.tries, t - 1)) + 1]],
   handlers |-> Torn(HandlerBytes(s, c.body, c.tries, Len(c.tries)), "handlers" \in c.torn)]

-----------------------------------------------------------------------------
(***************************************************************************)
(* The file.  Code is numbered by its method.                              *)
(***************************************************************************)
CodeOff(s, m) == IF m.code = <<>> THEN 0 ELSE At0(s.methods, m.ref) + 1

Diffs(table, group) ==
  [k \in 1 .. Len(group) |->
     At0(table, group[k].ref) - (IF k = 1 THEN 0 ELSE At0(table, group[k - 1].ref))]

FieldData(s, group) ==
  FlattenSeq([k \in 1 .. Len(group) |-> UlebOf(Diffs(s.fields, group)[k]) \o UlebOf(group[k].access)])

MethodData(s, group) ==
  FlattenSeq([k \in 1 .. Len(group) |->
     UlebOf(Diffs(s.methods, group)[k]) \o UlebOf(group[k].access) \o UlebOf(CodeOff(s, group[k]))])

ClassData(s, c) ==
  UlebOf(Len(c.statics)) \o UlebOf(Len(c.instance)) \o UlebOf(Len(c.direct)) \o UlebOf(Len(c.virtual))
    \o FieldData(s, c.statics) \o FieldData(s, c.instance)
    \o MethodData(s, c.direct) \o MethodData(s, c.virtual)

MethodsOf(s) == FlattenSeq([k \in 1 .. Len(s.classes) |-> s.classes[k].direct \o s.classes[k].virtual])

IndexOr(table, vs) == IF vs = {} THEN -1 ELSE At0(table, CHOOSE v \in vs : TRUE)

SectionOf(strings, s, size) ==
  [types |-> Numbered(s.types), fields |-> Numbered(s.fields), methods |-> Numbered(s.methods), size |-> size,
   code |-> LET coded == {m \in ToSet(MethodsOf(s)) : m.code # <<>>}
            IN  [n \in {CodeOff(s, m) : m \in coded} |->
                   CodeItem(s, (CHOOSE m \in coded : CodeOff(s, m) = n).code[1])],
   classes |-> [k \in 1 .. Len(s.classes) |->
                  LET c == s.classes[k]
                  IN  [type |-> At0(s.types, c.type), super |-> IndexOr(s.types, c.super),
                       interfaces |-> [j \in 1 .. Len(c.interfaces) |-> At0(s.types, c.interfaces[j])],
                       source |-> At0(strings, c.source),
                       data |-> IF c.statics \o c.instance \o c.direct \o c.virtual = <<>>
                                  THEN <<>> ELSE ClassData(s, c)]]]

\* The file a compiler writes.
FileOf(dex) ==
  LET strings == SetToSeq(UNION {{c.source : c \in ToSet(s.classes)} : s \in ToSet(dex)})
  IN  [strings |-> Numbered(strings),
       sections |-> [k \in 1 .. Len(dex) |-> SectionOf(strings, dex[k], 112)]]

-----------------------------------------------------------------------------
(***************************************************************************)
(* The listing.  An operand is a register, a target, a list or a name.     *)
(***************************************************************************)
Operands(body, i) ==
  CASE i.format \in {"35c", "3rc", "45cc"} -> <<i.regs, i.ref>>
    [] i.format \in {"10t", "20t", "30t"} -> <<Offset(body, i.to[1])>>
    [] i.format \in {"21t", "22t"} -> Append(i.regs, Offset(body, i.to[1]))
    [] i.format \in {"21c", "22c"} -> Append(i.regs, i.ref)
    [] OTHER -> i.regs

PayloadLine(body, k) ==
  [p \in 1 .. Len(Padding(body, k)) |-> <<"insn", PayloadAt(body, k) - 1, "nop", <<>>>>]
    \o (IF PayloadWidth(body[k]) = 0 THEN <<>> ELSE <<<<"insn", PayloadAt(body, k), "data", <<>>>>>>)

TryLines(body, try) ==
  <<<<"try", Offset(body, try.from), Offset(body, try.to)>>>>
    \o [h \in 1 .. Len(try.typed) |-> <<"handler", Offset(body, try.typed[h])>>]
    \o [h \in 1 .. (IF try.all = {} THEN 0 ELSE 1) |-> <<"handler", Offset(body, CHOOSE a \in try.all : TRUE)>>]

CodeLines(m, c) ==
  <<<<"registers", c.registers>>, <<"ins", c.ins>>, <<"header", m.ref>>>>
    \o [k \in 1 .. Len(c.body) |-> <<"insn", Offset(c.body, k), c.body[k].name, Operands(c.body, c.body[k])>>]
    \o FlattenSeq([k \in 1 .. Len(c.body) |-> PayloadLine(c.body, k)])
    \o <<<<"catches">>>> \o FlattenSeq([t \in 1 .. Len(c.tries) |-> TryLines(c.body, c.tries[t])])
    \o <<<<"positions">>>>
    \o [k \in 1 .. Len(c.lines) |-> <<"position", Offset(c.body, c.lines[k][1]), c.lines[k][2]>>]
    \o <<<<"locals">>>>

FieldLines(group) ==
  FlattenSeq([k \in 1 .. Len(group) |->
    <<<<"member">>, <<"name", group[k].ref>>, <<"type">>, <<"access", group[k].access>>>>])

MethodLines(group) ==
  FlattenSeq([k \in 1 .. Len(group) |->
    <<<<"member">>, <<"name", group[k].ref>>, <<"type">>, <<"access", group[k].access>>, <<"code">>>>
      \o (IF group[k].code = <<>> THEN <<>> ELSE CodeLines(group[k], group[k].code[1]))])

ClassLines(c) ==
  <<<<"class", c.type>>, <<"flags">>>>
    \o [k \in 1 .. (IF c.super = {} THEN 0 ELSE 1) |-> <<"super", CHOOSE t \in c.super : TRUE>>]
    \o <<<<"interfaces">>>> \o [k \in 1 .. Len(c.interfaces) |-> <<"interface", c.interfaces[k]>>]
    \o <<<<"fields">>>> \o FieldLines(c.statics) \o <<<<"fields">>>> \o FieldLines(c.instance)
    \o <<<<"methods">>>> \o MethodLines(c.direct) \o <<<<"methods">>>> \o MethodLines(c.virtual)
    \o <<<<"source", c.source>>>>

\* What dexdump prints.
Listing(dex) ==
  FlattenSeq([k \in 1 .. Len(dex) |-> FlattenSeq([j \in 1 .. Len(dex[k].classes) |-> ClassLines(dex[k].classes[j])])])

-----------------------------------------------------------------------------
(***************************************************************************)
(* What a dex says.  The listing says less (src/dex/dexdump.rs): it has no *)
(* switch targets, names no array class, and the parser makes no method of *)
(* one without code; and it shows payloads as lines of their own.  The     *)
(* parser takes the call of a method handle for a virtual call, where the  *)
(* native decoder has no name for it.                                      *)
(***************************************************************************)
CONSTANT ArrayTypes

Means(body, i, text) ==
  CASE i.kind \in {"Direct", "Static", "Super", "Virtual", "Interface"} -> <<"Invoke", i.kind, i.regs, i.ref>>
    [] i.kind = "Polymorphic" -> IF text THEN <<"Invoke", "Virtual", i.regs, i.ref>> ELSE <<"Other">>
    [] i.kind = "Switch" -> IF text THEN <<"Other">>
                            ELSE <<"Switch", [j \in 1 .. Len(i.to) |-> Offset(body, i.to[j])]>>
    [] i.kind \in {"Goto", "Branch"} -> <<i.kind, Offset(body, i.to[1])>>
    [] i.kind \in {"Other", "Throw", "Return"} -> <<i.kind>>
    [] i.kind = "ReturnObject" -> <<"Return", i.regs[1]>>
    [] i.kind \in {"ConstClass", "NewInstance"} /\ text /\ i.ref \in ArrayTypes -> <<"Other">>
    [] OTHER -> IF i.format \in {"21c", "22c"} THEN <<i.kind>> \o i.regs \o <<i.ref>> ELSE <<i.kind>> \o i.regs

PayloadInsns(body, k, text) ==
  [p \in 1 .. Len(Padding(body, k)) |-> [offset |-> PayloadAt(body, k) - 1, op |-> <<"Other">>]]
    \o (IF text /\ PayloadWidth(body[k]) # 0 THEN <<[offset |-> PayloadAt(body, k), op |-> <<"Other">>]>> ELSE <<>>)

CatchesOf(body, try) ==
  LET Row(at) == <<Offset(body, try.from), Offset(body, try.to), Offset(body, at)>>
  IN  [h \in 1 .. Len(try.typed) |-> Row(try.typed[h])] \o SetToSeq({Row(at) : at \in try.all})

CodeSaid(c, text) ==
  [registers |-> c.registers, ins |-> c.ins,
   insns |-> [k \in 1 .. Len(c.body) |-> [offset |-> Offset(c.body, k), op |-> Means(c.body, c.body[k], text)]]
               \o FlattenSeq([k \in 1 .. Len(c.body) |-> PayloadInsns(c.body, k, text)]),
   positions |-> IF "lines" \in c.torn THEN <<>>
                 ELSE [k \in 1 .. Len(c.lines) |-> <<Offset(c.body, c.lines[k][1]), c.lines[k][2]>>],
   catches |-> IF "handlers" \in c.torn THEN <<>>
               ELSE FlattenSeq([t \in 1 .. Len(c.tries) |-> CatchesOf(c.body, c.tries[t])])]

EmptyCode == [registers |-> 0, ins |-> 0, insns |-> <<>>, positions |-> <<>>, catches |-> <<>>]

ClassSaid(c, text) ==
  LET ms == SelectSeq(c.direct \o c.virtual, LAMBDA m : ~ text \/ m.code # <<>>)
  IN  [descriptor |-> c.type, super |-> c.super, interfaces |-> c.interfaces,
       methods |-> [k \in 1 .. Len(ms) |->
                      [name |-> ms[k].ref, access |-> ms[k].access, source |-> {c.source},
                       code |-> IF ms[k].code = <<>> THEN EmptyCode ELSE CodeSaid(ms[k].code[1], text)]]]

\* Final and volatile fields (0x10 and 0x40), which no race is reported on.
Guarded(c) == {f.ref : f \in {g \in ToSet(c.statics \o c.instance) : (g.access \div 16) % 2 = 1 \/ (g.access \div 64) % 2 = 1}}

Said(dex, text) ==
  LET classes == FlattenSeq([k \in 1 .. Len(dex) |-> dex[k].classes])
  IN  [classes |-> [k \in 1 .. Len(classes) |-> ClassSaid(classes[k], text)],
       flagged |-> UNION {Guarded(c) : c \in ToSet(classes)}]
=================================================================================
