-------------------------------- MODULE DexText --------------------------------
(***************************************************************************)
(* The decoder of `dexdump -d` listings (src/dex/dexdump.rs): a parser     *)
(* that keeps, between lines, the class and the method it is in, the       *)
(* sections it believes it is in, and what a header said of a method that  *)
(* has not begun yet.                                                      *)
(*                                                                         *)
(* A line is what its first word makes of it, <<"access", 8>> or           *)
(* <<"insn", offset, mnemonic, operands>>; <<"member">> is the numbered    *)
(* line a field or a method begins with.                                   *)
(***************************************************************************)
EXTENDS Integers, Sequences, SequencesExt

CONSTANT ArrayTypes      \* types that are arrays, "[Lx;"

-----------------------------------------------------------------------------
(***************************************************************************)
(* Instructions, by the mnemonics that begin alike.  What begins with      *)
(* `invoke` is a call, a virtual one unless it says otherwise.             *)
(***************************************************************************)
Mnemonics ==
  [Iget |-> {"iget", "iget-object", "iget-wide"}, Iput |-> {"iput", "iput-object", "iput-wide"},
   Sget |-> {"sget", "sget-object", "sget-wide"}, Sput |-> {"sput", "sput-object", "sput-wide"},
   Move |-> {"move", "move/16", "move-wide/16", "move-object", "move-object/from16", "move-object/16"},
   MoveResult |-> {"move-result", "move-result-wide", "move-result-object"},
   MonitorEnter |-> {"monitor-enter"}, MonitorExit |-> {"monitor-exit"},
   ConstClass |-> {"const-class"}, NewInstance |-> {"new-instance"},
   Return |-> {"return-void", "return", "return-wide"}, ReturnObject |-> {"return-object"},
   Throw |-> {"throw"}, Goto |-> {"goto", "goto/16", "goto/32"}, Branch |-> {"if-eq", "if-ne", "if-eqz", "if-nez"},
   Direct |-> {"invoke-direct", "invoke-direct/range"}, Static |-> {"invoke-static", "invoke-static/range"},
   Interface |-> {"invoke-interface", "invoke-interface/range"}, Super |-> {"invoke-super", "invoke-super/range"},
   Virtual |-> {"invoke-virtual", "invoke-virtual/range", "invoke-polymorphic", "invoke-polymorphic/range"}]

Kinds(mnemonic) == {k \in DOMAIN Mnemonics : mnemonic \in Mnemonics[k]}

ParseInsn(mnemonic, operands) ==
  IF Kinds(mnemonic) = {} THEN <<"Other">>
  ELSE LET kind == CHOOSE k \in Kinds(mnemonic) : TRUE
       IN  CASE kind \in {"Return", "Throw"} -> <<kind>>
             [] kind = "ReturnObject" -> <<"Return">> \o operands
             [] kind \in {"Goto", "Branch"} -> <<kind, Last(operands)>>
             [] kind \in {"Direct", "Static", "Interface", "Super", "Virtual"} -> <<"Invoke", kind>> \o operands
             [] kind \in {"ConstClass", "NewInstance"} /\ operands[2] \in ArrayTypes -> <<"Other">>
             [] OTHER -> <<kind>> \o operands

-----------------------------------------------------------------------------
(***************************************************************************)
(* The parser.                                                             *)
(***************************************************************************)
FlushMethod(p) ==
  IF p.method # <<>> /\ p.class # <<>>
    THEN [p EXCEPT !.class[1].methods = @ \o p.method, !.method = <<>>]
    ELSE [p EXCEPT !.method = <<>>]

FlushClass(p) == [p EXCEPT !.classes = @ \o p.class, !.class = <<>>]

BeginClass(p, descriptor) ==
  [FlushClass(FlushMethod(p)) EXCEPT
     !.inPositions = FALSE,
     !.class = <<[descriptor |-> descriptor, super |-> {}, interfaces |-> <<>>, methods |-> <<>>]>>]

BeginMethod(p, name) ==
  [FlushMethod(p) EXCEPT
     !.inPositions = FALSE, !.inCatches = FALSE,
     !.method = <<[name |-> name, access |-> p.access, source |-> p.source,
                   code |-> [registers |-> p.registers, ins |-> p.ins,
                             insns |-> <<>>, positions |-> <<>>, catches |-> <<>>]]>>]

Sourced(methods, file) == [k \in DOMAIN methods |-> [methods[k] EXCEPT !.source = {file}]]

\* Mutant of SetSource: what was read before the line keeps the file of the last class.
SetSourceLate(p, file) == [p EXCEPT !.source = {file}]

\* The source file comes after the methods it is the file of.
SetSource(p, file) ==
  [p EXCEPT !.source = {file}, !.method = Sourced(@, file),
            !.class = [k \in DOMAIN @ |-> [@[k] EXCEPT !.methods = Sourced(@, file)]]]

\* Something the method under way has one more of.
Extend(p, part, x) ==
  IF p.method = <<>> THEN p ELSE [p EXCEPT !.method[1].code[part] = Append(@, x)]

CatchLine(p, line) ==
  CASE line[1] = "try" -> [p EXCEPT !.try = <<line[2], line[3]>>]
    [] line[1] = "handler" /\ p.try # <<>> -> Extend(p, "catches", Append(p.try, line[2]))
    [] OTHER -> p

BodyLine(p, line) ==
  CASE line[1] = "header" -> BeginMethod(p, line[2])
    [] line[1] = "insn" -> Extend(p, "insns", [offset |-> line[2], op |-> ParseInsn(line[3], line[4])])
    [] line[1] = "registers" -> [p EXCEPT !.registers = line[2]]
    [] line[1] = "ins" -> [p EXCEPT !.ins = line[2]]
    [] OTHER -> p

MemberLine(p, line) ==
  CASE line[1] = "source" -> SetSource(p, line[2])
    [] line[1] = "access" -> [p EXCEPT !.access = line[2]]
    [] line[1] = "positions" -> [p EXCEPT !.inPositions = TRUE, !.inCatches = FALSE]
    [] line[1] = "catches" -> [p EXCEPT !.inPositions = FALSE, !.inCatches = TRUE, !.try = <<>>]
    [] line[1] = "locals" -> [p EXCEPT !.inPositions = FALSE, !.inCatches = FALSE]
    [] OTHER -> IF p.inCatches THEN CatchLine(p, line)
                ELSE IF ~ p.inPositions THEN BodyLine(p, line)
                ELSE IF line[1] = "position" THEN Extend(p, "positions", <<line[2], line[3]>>) ELSE p

ParseLine(p, line) ==
  CASE p.inInterfaces /\ line[1] = "interface" ->
         [p EXCEPT !.class = [k \in DOMAIN @ |-> [@[k] EXCEPT !.interfaces = Append(@, line[2])]]]
    [] line[1] = "class" -> BeginClass(p, line[2])
    [] line[1] = "super" -> [p EXCEPT !.class = [k \in DOMAIN @ |-> [@[k] EXCEPT !.super = {line[2]}]],
                                      !.inInterfaces = FALSE]
    [] line[1] = "interfaces" -> [p EXCEPT !.inInterfaces = TRUE]
    [] OTHER -> MemberLine([p EXCEPT !.inInterfaces = FALSE], line)

Start ==
  [classes |-> <<>>, class |-> <<>>, method |-> <<>>, source |-> {}, access |-> 0, registers |-> 0, ins |-> 0,
   inPositions |-> FALSE, inInterfaces |-> FALSE, inCatches |-> FALSE, try |-> <<>>]

-----------------------------------------------------------------------------
(***************************************************************************)
(* Final and volatile fields, found by a scan of their own.                *)
(***************************************************************************)
FlagLine(s, line) ==
  CASE s.inFields /\ line[1] = "name" -> [s EXCEPT !.name = <<line[2]>>]
    [] line[1] = "class" -> [s EXCEPT !.inFields = FALSE, !.name = <<>>]
    [] line[1] = "fields" -> [s EXCEPT !.inFields = TRUE, !.name = <<>>]
    [] line[1] = "methods" -> [s EXCEPT !.inFields = FALSE]
    [] line[1] = "access" /\ s.inFields ->
         [s EXCEPT !.name = <<>>,
                   !.found = IF (line[2] \div 16) % 2 = 1 \/ (line[2] \div 64) % 2 = 1
                               THEN @ \cup ToSet(s.name) ELSE @]
    [] OTHER -> s

TextModel(lines) ==
  LET start == [parser |-> Start, flags |-> [inFields |-> FALSE, name |-> <<>>, found |-> {}]]
      \* Both scans, after n lines.
      scanned[n \in 0 .. Len(lines)] ==
        IF n = 0 THEN start
        ELSE CHOOSE next \in {[parser |-> ParseLine(last.parser, lines[n]), flags |-> FlagLine(last.flags, lines[n])] :
                               last \in {scanned[n - 1]}} : TRUE
      end == scanned[Len(lines)]
  IN  [classes |-> FlushClass(FlushMethod(end.parser)).classes, flagged |-> end.flags.found]
=================================================================================
