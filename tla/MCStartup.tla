----------------------------- MODULE MCStartup -----------------------------
(* Images as rom_app.ld and data.s lay them out, with pages of four words,  *)
(* and lines as dist/CMakeLists.txt writes them, and some with mistakes,    *)
(* for TLC.                                                                 *)
EXTENDS Startup, TLC

Rox(size) == [type |-> "LOAD", offset |-> 0, vaddr |-> 0, memsz |-> size, align |-> 4, W |-> FALSE]
Rw(vaddr, size) == [type |-> "LOAD", offset |-> vaddr, vaddr |-> vaddr, memsz |-> size, align |-> 4, W |-> TRUE]
Dynamic(vaddr) == [type |-> "DYNAMIC", offset |-> vaddr, vaddr |-> vaddr, memsz |-> 1, align |-> 1, W |-> TRUE]
Phdr == [type |-> "PHDR", offset |-> 0, vaddr |-> 0, memsz |-> 1, align |-> 1, W |-> FALSE]

Rels(offsets, after) == [i \in 1 .. Len(offsets) + 1 |->
  IF i <= Len(offsets) THEN [info |-> "relative", offset |-> offsets[i]] ELSE [info |-> after, offset |-> 0]]

(* Flash is far above SRAM.                                                 *)
Flash(n) == 1000 + 100 * n

ImageAt(n, phdrs, rels, symbols) ==
  [valid |-> TRUE, base |-> Flash(n), entry |-> 2, phdrs |-> phdrs, rels |-> rels,
   tables |-> 1, symbols |-> symbols]

(* The stack ends where the UTCB begins, and so does __sp.                  *)
Program(got, utcb) == "__global_offset_table" :> got @@ "__sp" :> utcb @@ "__utcb" :> utcb

Kern == ImageAt(0, <<Phdr, Rox(4), Rw(6, 5), Dynamic(6)>>, Rels(<<7, 8>>, "other"),
                "__global_offset_table" :> 7 @@ "__L4_boot_info" :> 9)
Root == ImageAt(1, <<Phdr, Rox(5), Rw(10, 9), Dynamic(10)>>, Rels(<<11>>, "none"), Program(11, 16))
Sh   == ImageAt(2, <<Phdr, Rox(5), Rw(6, 11), Dynamic(6)>>, Rels(<<7, 8>>, "other"), Program(7, 12))
Init0 == ImageAt(3, <<Phdr, Rox(4), Rw(4, 6), Dynamic(4)>>, Rels(<<>>, "none"), Program(4, 8))
Cat  == ImageAt(4, <<Phdr, Rox(3), Rw(4, 6), Rox(3), Rw(12, 2), Dynamic(4)>>, Rels(<<5>>, "other"), Program(5, 8))
Old  == ImageAt(5, <<Phdr, Rox(4), Rw(4, 3), Dynamic(4)>>, Rels(<<5>>, "other"), "__sp" :> 6 @@ "__utcb" :> 5)
Note == [Old EXCEPT !.valid = FALSE]

MCKernFiles == {Kern, [Kern EXCEPT !.symbols = "__sp" :> 6], Note}
MCRootFiles == {Root, [Root EXCEPT !.symbols = "__sp" :> 6], Note}

MCImageOf == "sh" :> Sh @@ "init" :> Init0 @@ "cat" :> Cat @@ "old" :> Old @@ "note" :> Note @@
             [f \in {"root", "inittab", "bin", "sub"} |-> Note]
MCImages == MCKernFiles \cup MCRootFiles \cup {MCImageOf[f] : f \in DOMAIN MCImageOf}

Entry(name, file) == [name |-> name, file |-> file]

MCFiles == DOMAIN MCImageOf

MCEntries ==
  "root" :> <<Entry("bin", "bin"), Entry("init", "init"), Entry("note", "note")>> @@
  "bin"  :> <<Entry("sh", "sh"), Entry("old", "old"), Entry("sub", "sub")>> @@
  "sub"  :> <<Entry("cat", "cat")>> @@
  [f \in {"init", "sh", "cat", "old", "note", "inittab"} |-> <<>>]

Line(symbols, file) ==
  [symbols |-> symbols \o <<"newline">>, file |-> file, strays |-> FALSE]
Unended(line) == [line EXCEPT !.symbols = Front(@)]
Spawn == <<"spawn", ":", "/">>

MCLines ==
  { Line(Spawn \o <<"bin", "/", "sh">>, "sh"),
    Line(Spawn \o <<"init">>, "init"),
    Line(Spawn \o <<"note">>, "note"),
    Line(Spawn \o <<"bin", "/", "old">>, "old"),
    Line(Spawn \o <<"bin", "/", "sub", "/", "cat">>, "cat"),
    Line(Spawn \o <<"opt", "/", "sh">>, "none"),
    [Line(Spawn \o <<"bin", "/", "opt", "/", "sh">>, "none") EXCEPT !.strays = TRUE],
    Line(<<"spawn", ":", "sh">>, "none"),
    Line(<<"spawn", ":">>, "none"),
    Line(Spawn \o <<"bin", "/">>, "none"),
    Unended(Line(Spawn \o <<"init">>, "init")),
    Line(<<"once", ":", "/", "init">>, "init") }
=============================================================================
