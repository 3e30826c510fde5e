----------------------------- MODULE DexCatalogue -----------------------------
(***************************************************************************)
(* Dexes to decode: between them every instruction format and opcode       *)
(* family the decoders tell apart, payloads on odd and even ends, try      *)
(* blocks with and without a catch-all, line programs with jumps both      *)
(* ways, groups of members after one another, and a second section.        *)
(***************************************************************************)
EXTENDS Integers, Sequences

Insn(name, code, format, kind, regs, ref, to) ==
  [name |-> name, code |-> code, format |-> format, kind |-> kind, regs |-> regs, ref |-> ref, to |-> to]

Plain(name, code, format, kind, regs) == Insn(name, code, format, kind, regs, "none", <<>>)
Jump(name, code, format, kind, regs, to) == Insn(name, code, format, kind, regs, "none", to)
Ref(name, code, format, kind, regs, ref) == Insn(name, code, format, kind, regs, ref, <<>>)

Enter == Plain("monitor-enter", \h1d, "11x", "MonitorEnter", <<3>>)
Exit == Plain("monitor-exit", \h1e, "11x", "MonitorExit", <<3>>)
Void == Plain("return-void", \h0e, "10x", "Return", <<>>)
Nop == Plain("nop", 0, "10x", "Other", <<>>)

\* Straight code: every way to move, to reach a field and to call.
Straight ==
  <<Plain("const-wide", \h18, "51l", "Other", <<2>>),
    Enter,
    Plain("move-object", \h07, "12x", "Move", <<4, 15>>),
    Plain("move-object/from16", \h08, "22x", "Move", <<200, 300>>),
    Plain("move-wide/16", \h06, "32x", "Move", <<300, 301>>),
    Ref("iget-object", \h54, "22c", "Iget", <<1, 2>>, "Fa"),
    Ref("iput-wide", \h5a, "22c", "Iput", <<5, 2>>, "Fb"),
    Ref("sget", \h60, "21c", "Sget", <<7>>, "Fc"),
    Ref("sput-object", \h69, "21c", "Sput", <<9>>, "Fd"),
    Ref("const-class", \h1c, "21c", "ConstClass", <<1>>, "A"),
    Ref("const-class", \h1c, "21c", "ConstClass", <<2>>, "[A"),
    Ref("new-instance", \h22, "21c", "NewInstance", <<6>>, "B"),
    Ref("invoke-virtual", \h6e, "35c", "Virtual", <<1, 2, 3, 4, 5>>, "Ma"),
    Plain("move-result-object", \h0c, "11x", "MoveResult", <<8>>),
    Ref("invoke-static", \h71, "35c", "Static", <<>>, "Mb"),
    Ref("invoke-super/range", \h75, "3rc", "Super", <<20, 21, 22>>, "Mc"),
    Ref("invoke-direct", \h70, "35c", "Direct", <<1>>, "Md"),
    Ref("invoke-polymorphic", \hfa, "45cc", "Polymorphic", <<1, 6>>, "Mc"),
    Ref("invoke-interface", \h72, "35c", "Interface", <<1, 9>>, "Ma"),
    Exit,
    Plain("return-object", \h11, "11x", "ReturnObject", <<8>>)>>

\* Jumps both ways in all three sizes, switches and an array, in front of an odd end.
Jumps ==
  <<Jump("if-eqz", \h38, "21t", "Branch", <<1>>, <<5>>),
    Jump("packed-switch", \h2b, "31t", "Switch", <<1>>, <<4, 7, 1>>),
    Jump("sparse-switch", \h2c, "31t", "Switch", <<2>>, <<8, 4>>),
    Enter,
    Insn("fill-array-data", \h26, "31t", "Other", <<4, 29, 30, 39>>, "none", <<>>),
    Jump("if-ne", \h33, "22t", "Branch", <<1, 2>>, <<4>>),
    Jump("goto/16", \h29, "20t", "Goto", <<>>, <<9>>),
    Jump("goto/32", \h2a, "30t", "Goto", <<>>, <<2>>),
    Jump("goto", \h28, "10t", "Goto", <<>>, <<8>>),
    Plain("throw", \h27, "11x", "Throw", <<1>>)>>

\* The same in front of an even end, where the first payload needs no padding.
Loop == <<Enter, Exit, Jump("packed-switch", \h2b, "31t", "Switch", <<1>>, <<1>>), Nop,
          Jump("goto", \h28, "10t", "Goto", <<>>, <<1>>), Void>>

Item(body, tries, lines) ==
  <<[registers |-> 16, ins |-> 2, body |-> body, tries |-> tries, lines |-> lines, torn |-> {}]>>

Try(from, to, typed, all) == [from |-> from, to |-> to, typed |-> typed, all |-> all]

Member(ref, access, code) == [ref |-> ref, access |-> access, code |-> code]

Types == <<"A", "B", "I", "[A">>
Fields == <<"Fa", "Fb", "Fc", "Fd">>
Methods == <<"Ma", "Mb", "Mc", "Md">>

ClassOf(type, super, interfaces, source, statics, instance, direct, virtual) ==
  [type |-> type, super |-> super, interfaces |-> interfaces, source |-> source,
   statics |-> statics, instance |-> instance, direct |-> direct, virtual |-> virtual]

SectionWith(classes) == [types |-> Types, fields |-> Fields, methods |-> Methods, classes |-> classes]

\* Two direct and two virtual methods, the second without code; flags on fields of both groups.
Full ==
  <<SectionWith(<<
      ClassOf("A", {"B"}, <<"I", "B">>, "A.java",
              <<Member("Fb", \h1a, <<>>), Member("Fd", 8, <<>>)>>,
              <<Member("Fa", \h40, <<>>), Member("Fc", 2, <<>>)>>,
              <<Member("Mb", \h2001, Item(Straight, <<Try(2, 19, <<20, 21>>, {20}), Try(20, 21, <<21>>, {})>>,
                                           <<<<1, 10>>, <<2, 300>>, <<6, 7>>, <<13, 8>>>>)),
                Member("Md", \h401, <<>>)>>,
              <<Member("Ma", 1, Item(Jumps, <<Try(4, 9, <<>>, {10})>>, <<<<1, 5>>, <<4, 6>>, <<9, 6>>>>)),
                Member("Mc", 33, Item(Loop, <<>>, <<>>))>>),
      ClassOf("B", {}, <<>>, "B.java", <<>>, <<>>, <<>>, <<>>)>>)>>

Short(type, source, ref, body) ==
  <<SectionWith(<<ClassOf(type, {"B"}, <<>>, source, <<>>, <<Member("Fa", \h10, <<>>)>>, <<>>,
                          <<Member(ref, 1, Item(body, <<>>, <<>>))>>)>>)>>

\* A method whose line program, or handler list, runs off the end of the file.
CutOff(type, part) ==
  <<SectionWith(<<ClassOf(type, {"B"}, <<>>, "A.java", <<>>, <<>>, <<>>,
      <<Member("Ma", 1, <<[Item(Straight, <<Try(2, 19, <<20, 21>>, {20})>>, <<<<1, 10>>, <<6, 7>>>>)[1] EXCEPT !.torn = {part}]>>)>>)>>)>>

\* A container of two sections.
Container == Full \o <<SectionWith(<<ClassOf("I", {"B"}, <<>>, "A.java", <<>>, <<Member("Fc", \h10, <<>>)>>,
                                             <<Member("Ma", 2, Item(Loop, <<>>, <<<<2, 4>>>>))>>, <<>>)>>)>>
=================================================================================
