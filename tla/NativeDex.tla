------------------------------- MODULE NativeDex -------------------------------
(***************************************************************************)
(* The native decoder of DEX files (src/dex/native/): class data with      *)
(* difference-coded indices, instructions in code units, switch payloads,  *)
(* try items and their handlers, and the line program.                     *)
(*                                                                         *)
(* A file is its tables and items.  Bytes and code units are numbers, and  *)
(* offsets into the file are positions in the sequence they point at.  A   *)
(* string, a type, a field or a method is what its index names.            *)
(***************************************************************************)
EXTENDS Integers, Sequences, SequencesExt, TLC

NoIndex == -1      \* 0xffffffff

-----------------------------------------------------------------------------
(***************************************************************************)
(* LEB128 numbers, least significant group first.                          *)
(***************************************************************************)
LastByte(bytes, pos) == CHOOSE k \in pos .. Len(bytes) :
                          bytes[k] < 128 /\ \A j \in pos .. k - 1 : bytes[j] >= 128

After(bytes, pos) == LastByte(bytes, pos) + 1

Uleb(bytes, pos) ==
  LET last == LastByte(bytes, pos)
      from[k \in pos .. last] == IF k = last THEN bytes[k] ELSE bytes[k] - 128 + (128 * from[k + 1])
  IN  from[pos]

Sleb(bytes, pos) ==
  IF bytes[LastByte(bytes, pos)] >= 64 THEN Uleb(bytes, pos) - 2 ^ (7 * (After(bytes, pos) - pos))
  ELSE Uleb(bytes, pos)

\* The next n numbers are all there.
Complete(bytes, pos, n) == Len(SelectSeq(SubSeq(bytes, pos, Len(bytes)), LAMBDA byte : byte < 128)) >= n

\* Where the number after the next n begins.
Skip(bytes, pos, n) ==
  LET at[k \in 0 .. n] == IF k = 0 THEN pos ELSE After(bytes, at[k - 1])
  IN  at[n]

Numbers(bytes, n) == [k \in 1 .. n |-> Uleb(bytes, Skip(bytes, 1, k - 1))]

-----------------------------------------------------------------------------
(***************************************************************************)
(* Instructions.  Offsets count code units from 0.                         *)
(***************************************************************************)
At(u, i) == u[i + 1]

Signed(n, bits) == IF n >= 2 ^ (bits - 1) THEN n - 2 ^ bits ELSE n

\* Two code units as a signed word.
Word(u, i) == At(u, i) + 65536 * Signed(At(u, i + 1), 16)

Five  == {\h18}
Four  == {\hfa, \hfb}
Three == {\h03, \h06, \h09, \h14, \h17, \h1b, \h24, \h25, \h26, \h2a, \h2b, \h2c, \hfc, \hfd}
           \cup \h6e .. \h72 \cup \h74 .. \h78
Two   == {\h02, \h05, \h08, \h13, \h15, \h16, \h19, \h1a, \h1c, \h1f, \h20, \h22, \h23, \h29, \hfe, \hff}
           \cup \h2d .. \h3d \cup \h44 .. \h6d \cup \h90 .. \haf \cup \hd0 .. \he2

Width(op) ==
  CASE op \in Five -> 5 [] op \in Four -> 4 [] op \in Three -> 3 [] op \in Two -> 2 [] OTHER -> 1

IsPayload(unit) == unit % 256 = 0 /\ unit # 0

\* The width of what is at i: a payload, or an instruction; none if it is cut off.
InsnWidth(u, i) ==
  LET size == At(u, i + 1)
  IN  CASE At(u, i) = \h0100 -> IF i + 1 < Len(u) THEN {2 * size + 4} ELSE {}
        [] At(u, i) = \h0200 -> IF i + 1 < Len(u) THEN {4 * size + 2} ELSE {}
        [] At(u, i) = \h0300 -> IF i + 3 < Len(u)
                                  THEN {(Word(u, i + 2) * size + 1) \div 2 + 4} ELSE {}
        [] OTHER -> {Width(At(u, i) % 256)}

Rel(i, off) == IF i + off < 0 THEN 0 ELSE i + off

\* Mutant of SwitchTargets: targets count from the payload.
SwitchTargetsThere(u, i, packed) ==
  LET p == i + Word(u, i + 1)
      first == IF packed THEN p + 4 ELSE p + 2 + 2 * At(u, p + 1)
  IN  [k \in 1 .. At(u, p + 1) |-> Rel(p, Word(u, first + 2 * (k - 1)))]

\* Targets count from the switch, and one that lies beyond the code is left out.
SwitchTargets(u, i, packed) ==
  LET p == i + Word(u, i + 1)
      size == At(u, p + 1)
      first == IF packed THEN p + 4 ELSE p + 2 + 2 * size
      there(k) == first + 2 * (k - 1)
      whole == SelectSeq([k \in 1 .. size |-> k], LAMBDA k : there(k) + 1 < Len(u))
  IN  IF p < 0 \/ p + 2 > Len(u) THEN <<>>
      ELSE [j \in 1 .. Len(whole) |-> Rel(i, Word(u, there(whole[j])))]

InvokeKind(op) ==
  CASE op \in {\h6f, \h75} -> "Super" [] op \in {\h70, \h76} -> "Direct"
    [] op \in {\h71, \h77} -> "Static" [] op \in {\h72, \h78} -> "Interface" [] OTHER -> "Virtual"

Nibble(unit, k) == (unit \div 16 ^ k) % 16

\* Up to five registers: four in the third unit, the fifth in the first.
InvokeArgs(u, i) ==
  LET regs == [k \in 1 .. 5 |-> IF k = 5 THEN Nibble(At(u, i), 2) ELSE Nibble(At(u, i + 2), k - 1)]
      count == Nibble(At(u, i), 3)
  IN  SubSeq(regs, 1, IF count < 5 THEN count ELSE 5)

RangeArgs(u, i) == [k \in 1 .. At(u, i) \div 256 |-> At(u, i + 2) + k - 1]

Decode(f, u, i) ==
  LET op == At(u, i) % 256
      aa == At(u, i) \div 256
      a == Nibble(At(u, i), 2)
      b == Nibble(At(u, i), 3)
      next == At(u, i + 1)
      Kind(args) == <<"Invoke", InvokeKind(op), args, f.methods[next]>>
  IN  CASE op = \h1d -> <<"MonitorEnter", aa>>
        [] op = \h1e -> <<"MonitorExit", aa>>
        [] op \in {\h01, \h04, \h07} -> <<"Move", a, b>>
        [] op \in {\h02, \h05, \h08} -> <<"Move", aa, next>>
        [] op \in {\h03, \h06, \h09} -> <<"Move", next, At(u, i + 2)>>
        [] op \in \h0a .. \h0c -> <<"MoveResult", aa>>
        [] op \in \h0e .. \h10 -> <<"Return">>
        [] op = \h11 -> <<"Return", aa>>
        [] op = \h1c -> <<"ConstClass", aa, f.types[next]>>
        [] op = \h22 -> <<"NewInstance", aa, f.types[next]>>
        [] op = \h27 -> <<"Throw">>
        [] op = \h28 -> <<"Goto", Rel(i, Signed(aa, 8))>>
        [] op = \h29 -> <<"Goto", Rel(i, Signed(next, 16))>>
        [] op = \h2a -> <<"Goto", Rel(i, Word(u, i + 1))>>
        [] op \in {\h2b, \h2c} -> <<"Switch", SwitchTargets(u, i, op = \h2b)>>
        [] op \in \h32 .. \h3d -> <<"Branch", Rel(i, Signed(next, 16))>>
        [] op \in \h52 .. \h58 -> <<"Iget", a, b, f.fields[next]>>
        [] op \in \h59 .. \h5f -> <<"Iput", a, b, f.fields[next]>>
        [] op \in \h60 .. \h66 -> <<"Sget", aa, f.fields[next]>>
        [] op \in \h67 .. \h6d -> <<"Sput", aa, f.fields[next]>>
        [] op \in \h6e .. \h72 -> Kind(InvokeArgs(u, i))
        [] op \in \h74 .. \h78 -> Kind(RangeArgs(u, i))
        [] OTHER -> <<"Other">>

\* The offsets the linear walk stops at, up to the first thing that is cut off.
Visited(u) ==
  LET whole(i) == {w \in IF i < Len(u) THEN InsnWidth(u, i) ELSE {} : i + w <= Len(u)}
      from[i \in 0 .. Len(u)] ==
        IF whole(i) = {} THEN <<>> ELSE <<i>> \o from[i + (CHOOSE w \in whole(i) : TRUE)]
  IN  from[0]

Insns(f, u) ==
  LET at == SelectSeq(Visited(u), LAMBDA i : ~ IsPayload(At(u, i)))
  IN  [k \in 1 .. Len(at) |-> [offset |-> at[k], op |-> Decode(f, u, at[k])]]

-----------------------------------------------------------------------------
(***************************************************************************)
(* Handlers and lines.                                                     *)
(***************************************************************************)
\* Pairs of a type and an address; a size that is not positive announces a catch-all.
Handlers(bytes, at) ==
  LET size == Sleb(bytes, at)
      n == IF size < 0 THEN - size ELSE size
      numbers == 1 + 2 * n + (IF size <= 0 THEN 1 ELSE 0)
      typed == [k \in 1 .. n |-> Uleb(bytes, Skip(bytes, at, 2 * k))]
  IN  IF ~ Complete(bytes, at, 1) \/ ~ Complete(bytes, at, numbers) THEN {}
      ELSE {IF size <= 0 THEN Append(typed, Uleb(bytes, Skip(bytes, at, 2 * n + 1))) ELSE typed}

\* One handler list that cannot be read, and none is kept.
Catches(tries, bytes) ==
  LET lists == [t \in 1 .. Len(tries) |-> Handlers(bytes, tries[t].handlers)]
      rows(t, hs) == [k \in 1 .. Len(hs) |-> <<tries[t].start, tries[t].start + tries[t].count, hs[k]>>]
  IN  IF \E t \in 1 .. Len(tries) : lists[t] = {} THEN <<>>
      ELSE FlattenSeq([t \in 1 .. Len(tries) |-> rows(t, CHOOSE hs \in lists[t] : TRUE)])

\* Operands of the opcodes that only describe locals.
Operands(opcode) == CASE opcode = 3 -> 3 [] opcode = 4 -> 4 [] opcode \in {5, 6, 9} -> 1 [] OTHER -> 0

LineBase == -4
LineRange == 15

\* What one opcode of the line program does to the position, the address and the line.
LineStep(bytes, s) ==
  LET opcode == bytes[s.pos]
      next == s.pos + 1
      adjusted == opcode - 10
  IN  CASE opcode = 1 -> [s EXCEPT !.pos = After(bytes, next), !.address = @ + Uleb(bytes, next)]
        [] opcode = 2 -> [s EXCEPT !.pos = After(bytes, next), !.line = @ + Sleb(bytes, next)]
        [] opcode \in 3 .. 9 -> [s EXCEPT !.pos = Skip(bytes, next, Operands(opcode))]
        [] OTHER -> [pos |-> next, address |-> s.address + (adjusted \div LineRange),
                     line |-> s.line + LineBase + (adjusted % LineRange)]

\* The opcode at a place, and its operands, are there.
Readable(bytes, pos) ==
  /\ pos <= Len(bytes)
  /\ Complete(bytes, pos + 1, IF bytes[pos] \in {1, 2} THEN 1 ELSE Operands(bytes[pos]))

\* A special opcode makes an entry; opcode 0 is the end, and before it the program cannot be cut off.
Positions(bytes) ==
  LET entry(s, t) == IF bytes[s.pos] >= 10 /\ t.line >= 0 THEN <<<<t.address, t.line>>>> ELSE <<>>
      from[s \in [pos : Nat, line : Int, address : Nat]] ==
        IF ~ Readable(bytes, s.pos) THEN {}
        ELSE IF bytes[s.pos] = 0 THEN {<<>>}
        ELSE {entry(s, LineStep(bytes, s)) \o rest : rest \in from[LineStep(bytes, s)]}
      header == 2 + Uleb(bytes, After(bytes, 1))
  IN  IF ~ Complete(bytes, 1, 2) \/ ~ Complete(bytes, 1, header) THEN {}
      ELSE from[[pos |-> Skip(bytes, 1, header), line |-> Uleb(bytes, 1), address |-> 0]]

-----------------------------------------------------------------------------
(***************************************************************************)
(* Class data: four counts, then the members.  A member's index is the     *)
(* difference to that of the member before it in its group.                *)
(***************************************************************************)
IndexOf(ns, from, width, k) ==
  LET at[j \in 1 .. k] == IF j = 1 THEN ns[from] ELSE at[j - 1] + ns[from + width * (j - 1)]
  IN  at[k]

\* Rows of a group that starts at `from`: the index and the other numbers.
Group(ns, from, width, count) ==
  [k \in 1 .. count |->
     [index |-> IndexOf(ns, from, width, k),
      rest |-> SubSeq(ns, from + width * (k - 1) + 1, from + width * k - 1)]]

Members(data) ==
  LET c == Numbers(data, 4)
      fields == c[1] + c[2]
      ns == Numbers(data, 4 + 2 * fields + 3 * (c[3] + c[4]))
  IN  [fields |-> Group(ns, 5, 2, c[1]) \o Group(ns, 5 + 2 * c[1], 2, c[2]),
       methods |-> Group(ns, 5 + 2 * fields, 3, c[3]) \o Group(ns, 5 + 2 * fields + 3 * c[3], 3, c[4])]

FinalOrVolatile(access) == (access \div 16) % 2 = 1 \/ (access \div 64) % 2 = 1

NoCode == [registers |-> 0, ins |-> 0, insns |-> <<>>, positions |-> <<>>, catches |-> <<>>]

\* Lines and handlers that cannot be read are none; anything else is an error of the file.
Code(f, item) ==
  [registers |-> item.registers, ins |-> item.ins, insns |-> Insns(f, item.units),
   positions |-> IF item.debug = <<>> \/ Positions(item.debug) = {} THEN <<>> ELSE CHOOSE ps \in Positions(item.debug) : TRUE,
   catches |-> Catches(item.tries, item.handlers)]

Method(f, row, source) ==
  [name |-> f.methods[row.index], access |-> row.rest[1], source |-> source,
   code |-> IF row.rest[2] = 0 THEN NoCode ELSE Code(f, f.code[row.rest[2]])]

NoMembers == [fields |-> <<>>, methods |-> <<>>]

MembersOf(def) == IF def.data = <<>> THEN NoMembers ELSE Members(def.data)

Optional(table, index) == IF index = NoIndex THEN {} ELSE {table[index]}

Class(f, def) ==
  LET rows == MembersOf(def).methods
  IN  [descriptor |-> f.types[def.type],
       super |-> Optional(f.types, def.super),
       interfaces |-> [k \in 1 .. Len(def.interfaces) |-> f.types[def.interfaces[k]]],
       methods |-> [k \in 1 .. Len(rows) |-> Method(f, rows[k], Optional(f.strings, def.source))]]

FlaggedFields(f, def) ==
  {f.fields[row.index] : row \in {r \in ToSet(MembersOf(def).fields) : FinalOrVolatile(r.rest[1])}}

Section(s, strings) ==
  LET f == s @@ [strings |-> strings]
  IN  [classes |-> [k \in 1 .. Len(f.classes) |-> Class(f, f.classes[k])],
       flagged |-> UNION {FlaggedFields(f, def) : def \in ToSet(f.classes)}]

\* A container holds sections one after the other; one without a size is the last.
NativeModel(file) ==
  LET last(k) == k = Len(file.sections) \/ file.sections[k].size = 0
      n == CHOOSE k \in DOMAIN file.sections : last(k) /\ \A j \in 1 .. k - 1 : ~ last(j)
      read == [k \in 1 .. n |-> Section(file.sections[k], file.strings)]
  IN  [classes |-> FlattenSeq([k \in 1 .. n |-> read[k].classes]),
       flagged |-> UNION {read[k].flagged : k \in 1 .. n}]
=================================================================================
