--------------------------------- MODULE MCInputs ---------------------------------
(***************************************************************************)
(* Inputs over a catalogue of files: dexes that share classes, archives    *)
(* that nest (one layer too deep, too), repeat a class, are torn, or hold  *)
(* themselves, a Soong directory and a plain one, directories that cannot  *)
(* be listed, in part or at all, and APEXes of both filesystems, one with  *)
(* a jar that only the tool finds.                                         *)
(***************************************************************************)
EXTENDS Inputs, DexCatalogue, ImageCatalogue

MCAlphabet == <<"a", "b", "c", "classes", "classes2", "d", "e", "other", "quine", "services", "torn">>
MCArrayTypes == {"[A"}

BareFile(stem, ext, kind) ==
  [name |-> <<stem, ext>>, kind |-> kind, ok |-> TRUE, members |-> <<>>, soong |-> {}, entries |-> {}, lost |-> {},
   dex |-> <<>>, bytes |-> <<>>, image |-> [fs |-> "none"], packed |-> <<>>, shown |-> <<>>, exotic |-> FALSE]

Dex(stem, dex) == [BareFile(stem, "dex", "dex") EXCEPT !.dex = dex]
Archive(stem, ext, members) == [BareFile(stem, ext, "zip") EXCEPT !.members = members]
Jar(stem, members, bytes) == [Archive(stem, "jar", members) EXCEPT !.bytes = bytes]
Image(image) == [BareFile("apex_payload", "img", "image") EXCEPT !.image = image]
Apex(stem, ext, member, packed, exotic) ==
  [Archive(stem, ext, <<member>>) EXCEPT !.packed = packed, !.shown = packed, !.exotic = exotic]

\* A directory in its inode: three entries of sixteen bytes fit, a fourth does not.
Ext4Files(last) == Ext4Dir(<<Entry("b", "jar", 7, TRUE), Entry("a", "jar", 6, TRUE)>> \o last)

\* Worked out once, however often Disk is mentioned.
MCFiles ==
  LET files ==
        [full |-> Dex("classes", Full),
         second |-> Dex("classes2", Short("I", "I.java", "Ma", Loop)),
         copy |-> Dex("classes", Short("A", "Copy.java", "Mb", Jumps)),
         bare |-> Dex("b", Container),
         broken |-> [Dex("classes", <<>>) EXCEPT !.ok = FALSE],
         resources |-> BareFile("resources", "arsc", "other"),
         fake |-> BareFile("classes", "dex", "other"),
         nolines |-> Dex("classes", CutOff("A", "lines")),
         nohandlers |-> Dex("classes", CutOff("I", "handlers")),
         services |-> Archive("services", "jar", <<"full", "resources", "second">>),
         other |-> Archive("other", "jar", <<"copy">>),
         bundle |-> Archive("other", "zip", <<"resources", "fake", "other", "services">>),
         quine |-> Archive("quine", "zip", <<"quine">>),
         onion |-> Archive("other", "zip", <<"layer">>),
         layer |-> Archive("other", "jar", <<"core">>),
         core |-> Archive("other", "apk", <<"copy", "pip">>),
         pip |-> Archive("other", "zip", <<"second">>),
         torn |-> [Archive("torn", "apk", <<>>) EXCEPT !.ok = FALSE],
         wrong |-> BareFile("torn", "jar", "other"),
         mixed |-> Archive("other", "aar", <<"copy", "broken", "second">>),
         missing |-> BareFile("gone", "jar", "missing"),
         garbage |-> BareFile("garbage", "", "other"),
         soong |-> [BareFile("out", "", "dir") EXCEPT !.soong = {"services", "other", "bare"}, !.entries = {"bundle"}],
         half |-> [BareFile("out", "", "dir") EXCEPT !.soong = {"services", "other"}, !.entries = {"bare", "torn"},
                                                       !.lost = {"services", "other", "torn"}],
         shut |-> [BareFile("shut", "", "dir") EXCEPT !.entries = {"other", "torn"}, !.lost = {"other", "torn"}],
         plain |-> [BareFile("lib", "", "dir") EXCEPT !.entries = {"other", "bare", "resources", "ext4apex"}],
         ja |-> Jar("a", <<"copy">>, TreeBytes),
         jb |-> Jar("b", <<"full">>, MapBytes),
         jc |-> Jar("c", <<"second">>, InlineBytes),
         jd |-> Jar("d", <<"copy">>, FileBytes(WithStored)),
         je |-> Jar("b", <<"full">>, FileBytes(Clusters)),
         jf |-> Jar("b", <<"full">>, FileBytes(Clusters \o MoreClusters)),
         jx |-> Jar("e", <<"second">>, Bytes(1, 4)),
         jw |-> Jar("d", <<"second">>, Bytes(98, 4)),
         ext4img |-> Image(Ext4Image(BlockDir)),
         fitimg |-> Image(Ext4Image(Ext4Files(<<Entry("d", "jar", 9, TRUE)>>))),
         wideimg |-> Image(Ext4Image(Ext4Files(<<Entry("c", "jar", 0, TRUE), Entry("d", "jar", 9, TRUE)>>))),
         inlineimg |-> Image(Ext4Image(Ext4Files(<<Entry("e", "jar", 8, TRUE)>>))),
         fullimg |-> Image(ErofsImage(FALSE)),
         packedimg |-> Image(ErofsImage(TRUE)),
         strange |-> Image([fs |-> "f2fs"]),
         ext4apex |-> Apex("a", "apex", "ext4img", <<"ja", "jb">>, FALSE),
         inlineapex |-> Apex("b", "apex", "inlineimg", <<"ja", "jb", "jx">>, TRUE),
         fitapex |-> Apex("c", "apex", "fitimg", <<"ja", "jb", "jw">>, FALSE),
         wideapex |-> [Apex("c", "apex", "wideimg", <<"ja", "jb", "jw">>, FALSE) EXCEPT !.shown = <<"ja", "jb">>],
         fullapex |-> Apex("c", "apex", "fullimg", <<"je", "jc", "jd">>, FALSE),
         original |-> Archive("original_apex", "", <<"packedimg">>),
         capex |-> Apex("d", "capex", "original", <<"jf", "jc", "jd">>, FALSE),
         strangeapex |-> Apex("e", "apex", "strange", <<"ja">>, TRUE)]
  IN  files

All == ToSet(MCAlphabet)

RunOn(given, scope, text, tool) == [given |-> given, scope |-> scope, text |-> text, tool |-> tool]

MCRuns ==
  {RunOn(given, All, text, "missing") : text \in BOOLEAN,
     given \in {<<"full">>, <<"bare">>, <<"bare", "other", "services">>, <<"bundle", "bare">>, <<"quine", "services">>, <<"onion", "services">>,
                <<"torn">>, <<"wrong">>, <<"mixed">>, <<"other", "missing">>, <<"resources">>, <<>>}}
    \cup {RunOn(<<dir, "second">>, scope, FALSE, "missing") :
            dir \in {"soong", "plain"}, scope \in {All, {"services"}, {"a"}}}
    \cup {RunOn(given, All, FALSE, "missing") : given \in {<<"shut">>, <<"shut", "second">>, <<"half", "full">>, <<"nolines", "nohandlers">>}}
    \cup {RunOn(<<apex>>, All, FALSE, tool) : tool \in {"missing", "works", "forced"},
            apex \in {"ext4apex", "inlineapex", "fitapex", "wideapex", "fullapex", "capex", "strangeapex"}}
=================================================================================
