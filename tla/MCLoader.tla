------------------------------ MODULE MCLoader ------------------------------
(* Archives with a wallpaper, a program and its libraries: in several orders, with
   segments that do and do not share sectors and pages, with a library missing,
   and with every hash table that a linker can make of two symbols.  *)
EXTENDS Loader

W == <<"w">>
S == <<"s">>
L == <<"l">>
K == <<"k">>

Seg(type, offset, vaddr, filesz, memsz) ==
  [type |-> type, offset |-> offset, vaddr |-> vaddr, filesz |-> filesz, memsz |-> memsz]

MCHash == [n \in {"f", "g", "x"} |-> CASE n = "f" -> 4 [] n = "g" -> 6 [] OTHER -> 3]

\* Names of the symbols of a library; entry 0 has none.
Symtab == <<"", "f", "g">>

\* Buckets and chains: every symbol is on the chain of its bucket, and no other is.
Chain(buckets, chains, b) ==
  LET first == buckets[b]  second == chains[first + 1] IN
  IF first = 0 THEN <<>> ELSE IF second = 0 THEN <<first>>
  ELSE IF chains[second + 1] = 0 THEN <<first, second>> ELSE <<first, second, 0>>

Tables ==
  {t \in UNION {[buckets : [1 .. n -> 0 .. 2], chains : [1 .. 3 -> 0 .. 2]] : n \in {1, 2, 3}} :
     /\ t.chains[1] = 0
     /\ \A b \in DOMAIN t.buckets :
          LET c == Chain(t.buckets, t.chains, b)
              own == {k \in 1 .. 2 : (MCHash[Symtab[k + 1]] % Len(t.buckets)) + 1 = b}
          IN  /\ {c[k] : k \in 1 .. Len(c)} = own
              /\ Len(c) <= 2 /\ (Len(c) = 2 => c[1] # c[2])}

Elf(segs, needed, rel, jmprel, pltgot, t) ==
  [phoff |-> 2, segs |-> segs, needed |-> needed, rel |-> rel, jmprel |-> jmprel,
   pltgot |-> pltgot, symtab |-> Symtab, values |-> <<0, 1, 7>>, buckets |-> t.buckets, chains |-> t.chains]

\* An entry of a table of relocations is at an address of its own.
Reloc(at, offset) == [at |-> at, offset |-> offset]
Call(name, at, offset) == [name |-> name, at |-> at, offset |-> offset]

Apart(o, n) ==
  << Seg("LOAD", 0, 88, 6, 6), Seg("LOAD", o, 97, n, 9), Seg("DYNAMIC", 8, 98, 2, 2) >>
Shared == << Seg("LOAD", 0, 88, 6, 6), Seg("LOAD", 6, 94, 3, 3), Seg("DYNAMIC", 7, 95, 2, 2) >>
Lib == << Seg("LOAD", 0, 0, 5, 5), Seg("DYNAMIC", 6, 9, 2, 2), Seg("LOAD", 5, 9, 6, 6) >>
NoDynamic == SubSeq(Lib, 1, 1) \o SubSeq(Lib, 3, 3)

Programs(needed) ==
  {[name |-> S, size |-> 13,
    elf |-> Elf(segs, needed, {}, <<Call("f", 5, 97), Call("g", 6, 92), Call("x", 7, 93)>>, 89,
                [buckets |-> <<0>>, chains |-> <<0, 0, 0>>])] : 
      segs \in {Apart(o, n) : o \in 6 .. 9, n \in 2 .. 4} \cup {Shared}}

Libs(name, segs, tables) ==
  {[name |-> name, size |-> 11, 
    elf |-> Elf(segs, <<>>, {Reloc(1, 3), Reloc(2, 10)}, <<Call("g", 4, 12)>>, 0, t)] :
     t \in tables}
NoSymbols(libs) == {[l EXCEPT !.elf.symtab = <<>>] : l \in libs}

Paper(n, tga) == [name |-> W, size |-> n, tga |-> tga, elf |-> NoElf]

\* One chunk, all but a byte of two, two, and three.
Papers == {Paper(n, TRUE) : n \in {7, 11, 12, 15, 18}}

OneTable == {CHOOSE t \in Tables : TRUE}

MCDisks ==
       {<<w, p, l>> : w \in Papers, p \in Programs(<<L>>), l \in Libs(L, Lib, Tables)}
  \cup {<<l, w, k, p>> : w \in Papers, p \in Programs(<<K, L>>), l \in Libs(L, Lib, OneTable),
                        k \in Libs(K, Lib, OneTable)}
  \cup {<<w, p, l>> : w \in Papers, p \in Programs(<<L>>),
                     l \in Libs(L, NoDynamic, OneTable) \cup NoSymbols(Libs(L, Lib, OneTable))}
  \cup {<<w, p>> : w \in Papers, p \in Programs(<<L>>) \cup Programs(<<>>)}
  \cup {<<w, p>> : w \in {Paper(9, FALSE), Paper(1, TRUE)}, p \in Programs(<<>>)}
  \cup {<<w, [p EXCEPT !.elf.phoff = 13]>> : w \in Papers, p \in Programs(<<>>)}
=============================================================================
