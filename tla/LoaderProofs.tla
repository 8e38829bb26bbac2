---------------------------- MODULE LoaderProofs ----------------------------
(***************************************************************************)
(* Proofs about TarFS and Loader, for every archive, sector size, page     *)
(* size and table of files: reads that start in the sector of the cursor   *)
(* are exact, the wallpaper is the file's bytes, open files are never      *)
(* handed out again, and what elf_exec() loads is right: every write is to *)
(* mapped memory, the memory of a module holds its file for good, its words *)
(* are relocated once, and calls go to the functions of their names.       *)
(*                                                                         *)
(* The invariants build on one another: FileInv (the tables of files),     *)
(* ModulesInv (the modules and where the reader is), MemoryInv (the pages  *)
(* of the libraries), GotInv, HeapInv (the heap ends below the program) and *)
(* BytesInv (the bytes of the segments).                                   *)
(***************************************************************************)
EXTENDS Loader, TLAPS, WellFoundedInduction

\* A set of numbers that is not empty has a least element.
LEMMA LeastExists ==
  ASSUME NEW S \in SUBSET Nat, S # {}
  PROVE  \E j \in S : \A k \in S : j <= k
  <1> DEFINE less == {ss \in Nat \X Nat : ss[1] < ss[2]}
  <1>1. IsWellFoundedOn(less, Nat)
    BY NatLessThanWellFounded DEF OpToRel
  <1>2. PICK j \in S : \A k \in S : ~ (<<k, j>> \in less)
    <2> HIDE DEF less
    <2> QED BY <1>1, WFMin
  <1>3. ASSUME NEW k \in S PROVE j <= k
    <2>1. j \in Nat /\ k \in Nat /\ ~ (<<k, j>> \in less)
      BY <1>2
    <2> QED BY <2>1
  <1> QED BY <1>3

-----------------------------------------------------------------------------
(* The archive *)

\* What the entries add up to is a number of sectors.
LEMMA EntrySectorsType ==
  ASSUME NEW e, e.size \in Nat
  PROVE  EntrySectors(e) \in Nat
  <1>1. PICK n \in Nat : e.size = n
    OBVIOUS
  <1>2. 1 + ((n + (SECTOR - 1)) \div SECTOR) \in Nat
    BY SectorAssumption
  <1>3. EntrySectors(e) = 1 + ((n + (SECTOR - 1)) \div SECTOR)
    BY <1>1 DEF EntrySectors
  <1> QED BY <1>2, <1>3

\* The steps of find_file_sector() through the first n entries.
Steps(s, n) ==
  /\ s \in [1 .. n -> Nat]
  /\ \A j \in 1 .. n : s[j] = IF j = 1 THEN 1 ELSE s[j - 1] + EntrySectors(disk[j - 1])

\* They can be taken to the end of the archive.
LEMMA StepsExist ==
  ASSUME Len(disk) \in Nat, \A k \in 1 .. Len(disk) : disk[k].size \in Nat
  PROVE  \A n \in 0 .. Len(disk) : \E s : Steps(s, n)
  <1> DEFINE bad == {n \in 0 .. Len(disk) : ~ \E s : Steps(s, n)}
  <1> SUFFICES ASSUME bad # {} PROVE FALSE
    OBVIOUS
  <1>1. bad \in SUBSET Nat
    OBVIOUS
  <1> HIDE DEF bad
  <1>2. PICK n \in bad : \A k \in bad : n <= k
    BY <1>1, LeastExists
  <1>3. n \in Nat /\ n <= Len(disk) /\ ~ \E s : Steps(s, n)
    BY <1>2 DEF bad
  <1>4. CASE n = 0
    <2>1. Steps([j \in 1 .. 0 |-> 0], 0)
      BY DEF Steps
    <2> QED BY <2>1, <1>3, <1>4
  <1>5. CASE n > 0
    <2>1. n - 1 \in 0 .. Len(disk) /\ n - 1 \notin bad
      BY <1>2, <1>3, <1>5
    <2>2. PICK s : Steps(s, n - 1)
      BY <2>1 DEF bad
    <2> DEFINE x == IF n = 1 THEN 1 ELSE s[n - 1] + EntrySectors(disk[n - 1])
               t == [j \in 1 .. n |-> IF j = n THEN x ELSE s[j]]
    <2>3. x \in Nat
      <3>1. CASE n = 1
        BY <3>1
      <3>2. CASE n > 1
        <4>1. s[n - 1] \in Nat
          BY <1>3, <2>2, <3>2 DEF Steps
        <4>2. EntrySectors(disk[n - 1]) \in Nat
          BY <1>3, <3>2, EntrySectorsType
        <4> QED BY <4>1, <4>2, <3>2
      <3> QED BY <3>1, <3>2, <1>3, <1>5
    <2>4. ASSUME NEW j \in 1 .. n, j # n
          PROVE  /\ t[j] = s[j] /\ s[j] \in Nat
                 /\ s[j] = IF j = 1 THEN 1 ELSE s[j - 1] + EntrySectors(disk[j - 1])
                 /\ j # 1 => t[j - 1] = s[j - 1]
      <3> HIDE DEF x
      <3>1. j \in 1 .. n - 1 /\ (j # 1 => j - 1 \in 1 .. n /\ j - 1 # n)
        BY <1>3, <2>4
      <3> QED BY <2>2, <2>4, <3>1 DEF Steps
    <2>5. t[n] = x /\ (n # 1 => t[n - 1] = s[n - 1])
      <3> HIDE DEF x
      <3> QED BY <1>3, <1>5
    <2>6. Steps(t, n)
      <3>1. ASSUME NEW j \in 1 .. n PROVE t[j] \in Nat
        BY <2>3, <2>4, <2>5, <3>1
      <3>2. ASSUME NEW j \in 1 .. n
            PROVE  t[j] = IF j = 1 THEN 1 ELSE t[j - 1] + EntrySectors(disk[j - 1])
        BY <2>4, <2>5, <3>2
      <3> HIDE DEF x
      <3>3. t \in [1 .. n -> Nat]
        BY <3>1
      <3> HIDE DEF t
      <3> QED BY <3>2, <3>3 DEF Steps
    <2> QED BY <2>6, <1>3
  <1> QED BY <1>3, <1>4, <1>5

\* Headers of entries follow one another, the first at sector 1.
LEMMA HeaderSectorNext ==
  ASSUME Len(disk) \in Nat, \A k \in 1 .. Len(disk) : disk[k].size \in Nat,
         NEW k \in 1 .. Len(disk)
  PROVE  HeaderSector(k) = IF k = 1 THEN 1 ELSE HeaderSector(k - 1) + EntrySectors(disk[k - 1])
  <1> DEFINE at[j \in 1 .. Len(disk)] ==
               IF j = 1 THEN 1 ELSE at[j - 1] + EntrySectors(disk[j - 1])
             Eq(f) == f = [j \in 1 .. Len(disk) |->
                             IF j = 1 THEN 1 ELSE f[j - 1] + EntrySectors(disk[j - 1])]
  <1>1. \A j : HeaderSector(j) = at[j]
    BY DEF HeaderSector
  <1>2. at = CHOOSE f : Eq(f)
    BY DEF at
  <1>3. \E f : Eq(f)
    <2>1. PICK s : Steps(s, Len(disk))
      BY StepsExist
    <2>2. s = [j \in 1 .. Len(disk) |-> s[j]]
      BY <2>1 DEF Steps
    <2>3. Eq(s)
      BY <2>1, <2>2 DEF Steps
    <2> QED BY <2>3
  <1>4. Eq(at)
    <2> HIDE DEF Eq, at
    <2> QED BY <1>2, <1>3
  <1>5. \A j \in 1 .. Len(disk) :
          at[j] = IF j = 1 THEN 1 ELSE at[j - 1] + EntrySectors(disk[j - 1])
    <2> HIDE DEF at
    <2> QED BY <1>4
  <1> HIDE DEF at, Eq
  <1> QED BY <1>1, <1>5

\* Sectors of headers are numbers.
LEMMA HeaderSectorType ==
  ASSUME Len(disk) \in Nat, \A k \in 1 .. Len(disk) : disk[k].size \in Nat,
         NEW k \in 1 .. Len(disk)
  PROVE  HeaderSector(k) \in Nat
  <1>1. \A j \in 1 .. Len(disk) :
          HeaderSector(j) = IF j = 1 THEN 1 ELSE HeaderSector(j - 1) + EntrySectors(disk[j - 1])
    BY HeaderSectorNext
  <1> DEFINE bad == {j \in 1 .. Len(disk) : HeaderSector(j) \notin Nat}
  <1> SUFFICES ASSUME bad # {} PROVE FALSE
    OBVIOUS
  <1>2. bad \in SUBSET Nat
    OBVIOUS
  <1> HIDE DEF bad
  <1>3. PICK j \in bad : \A i \in bad : j <= i
    BY <1>2, LeastExists
  <1>4. j \in 1 .. Len(disk) /\ HeaderSector(j) \notin Nat /\ j # 1
    BY <1>1, <1>3 DEF bad
  <1>5. j - 1 \in 1 .. Len(disk) /\ j - 1 \notin bad
    BY <1>3, <1>4
  <1>6. HeaderSector(j - 1) \in Nat /\ EntrySectors(disk[j - 1]) \in Nat
    BY <1>5, EntrySectorsType DEF bad
  <1> QED BY <1>1, <1>4, <1>6

-----------------------------------------------------------------------------
(* Sectors and bytes *)

\* A position in a file has a sector and an offset.
LEMMA Divide ==
  ASSUME NEW v \in Nat
  PROVE  /\ v \div SECTOR \in Nat /\ v % SECTOR \in 0 .. SECTOR - 1
         /\ v = (v \div SECTOR) * SECTOR + (v % SECTOR)
  BY SectorAssumption

\* No other sector and offset make the same position.
LEMMA DivideUnique ==
  ASSUME NEW q \in Nat, NEW r \in 0 .. SECTOR - 1
  PROVE  (q * SECTOR + r) \div SECTOR = q
  BY SectorAssumption

\* Sectors are counted in bytes one by one.
LEMMA Distribute ==
  ASSUME NEW a \in Nat, NEW b \in Nat
  PROVE  (a + b) * SECTOR = a * SECTOR + b * SECTOR /\ a * SECTOR \in Nat
  BY SectorAssumption

\* A TarFile with the given fields.
TarFile(hs, cs, c, sz) ==
  [header_sector |-> hs, current_sector |-> cs, cursor |-> c, size |-> sz]

Place(f, c, cs) == [f EXCEPT !.cursor = c, !.current_sector = cs]
Header(f, hs, sz) == [f EXCEPT !.header_sector = hs, !.size = sz]

\* What assignments to its fields make of it.
LEMMA Fields ==
  ASSUME NEW hs, NEW cs, NEW c, NEW sz, NEW x, NEW y
  PROVE  /\ TarFile(hs, cs, c, sz).header_sector = hs /\ TarFile(hs, cs, c, sz).size = sz
         /\ TarFile(hs, cs, c, sz).cursor = c /\ TarFile(hs, cs, c, sz).current_sector = cs
         /\ Place(TarFile(hs, cs, c, sz), x, y) = TarFile(hs, y, x, sz)
         /\ Header(TarFile(hs, cs, c, sz), x, y) = TarFile(x, cs, c, y)
  <1> DEFINE f == TarFile(hs, cs, c, sz)
  <1>1. f.header_sector = hs /\ f.size = sz /\ f.cursor = c /\ f.current_sector = cs
    BY DEF TarFile
  <1>2. [f EXCEPT !.cursor = x] = TarFile(hs, cs, x, sz)
    BY DEF TarFile
  <1>3. [TarFile(hs, cs, x, sz) EXCEPT !.current_sector = y] = TarFile(hs, y, x, sz)
    BY DEF TarFile
  <1>4. [f EXCEPT !.header_sector = x] = TarFile(x, cs, c, sz)
    BY DEF TarFile
  <1>5. [TarFile(x, cs, c, sz) EXCEPT !.size = y] = TarFile(x, cs, c, y)
    BY DEF TarFile
  <1> HIDE DEF f
  <1>6. Place(f, x, y) = [[f EXCEPT !.cursor = x] EXCEPT !.current_sector = y]
    BY DEF Place
  <1>7. Header(f, x, y) = [[f EXCEPT !.header_sector = x] EXCEPT !.size = y]
    BY DEF Header
  <1>8. Place(f, x, y) = TarFile(hs, y, x, sz) /\ Header(f, x, y) = TarFile(x, cs, c, y)
    BY <1>2, <1>3, <1>4, <1>5, <1>6, <1>7
  <1> QED BY <1>1, <1>8 DEF f

\* The current sector is the one of the cursor.
InPlace(f) ==
  \E hs, c, sz \in Nat : f = TarFile(hs, hs + 1 + (c \div SECTOR), c, sz)

\* read() returns the bytes at the cursor, wherever it starts and ends, if the
\* current sector is the one of the cursor.
THEOREM ReadExact ==
  ASSUME NEW f, InPlace(f), NEW len \in Nat
  PROVE  BytesRead(f, len) = [k \in 1 .. len |-> FileByte(f, f.cursor + k - 1)]
  <1>1. PICK hs \in Nat, c \in Nat, sz \in Nat : f = TarFile(hs, hs + 1 + (c \div SECTOR), c, sz)
    BY DEF InPlace
  <1>2. PICK q \in Nat, r \in 0 .. SECTOR - 1 :
          q = c \div SECTOR /\ r = c % SECTOR /\ c = q * SECTOR + r
    BY Divide
  <1>3. /\ f.header_sector = hs /\ f.current_sector = hs + 1 + q
        /\ f.cursor = c /\ f.cursor % SECTOR = r
    BY <1>1, <1>2 DEF TarFile
  <1>4. PICK S \in Nat : S = SECTOR /\ S > 0
    BY SectorAssumption
  <1>5. PICK h \in Nat, hS \in Nat, qS \in Nat :
          /\ h = hs + 1 /\ hS = h * SECTOR /\ qS = q * SECTOR
          /\ (h + q) * SECTOR = hS + qS /\ (h + q + 1) * SECTOR = hS + qS + S
    <2>1. (hs + 1) * SECTOR \in Nat /\ q * SECTOR \in Nat
      <3>1. hs + 1 \in Nat /\ q \in Nat
        OBVIOUS
      <3> QED BY <3>1, Distribute
    <2>2. ((hs + 1) + q) * SECTOR = (hs + 1) * SECTOR + q * SECTOR
      BY Distribute
    <2>3. ((hs + 1) + q + 1) * SECTOR = ((hs + 1) + q) * SECTOR + 1 * SECTOR
      <3>1. (hs + 1) + q \in Nat /\ 1 \in Nat
        OBVIOUS
      <3> QED BY <3>1, Distribute
    <2>4. 1 * SECTOR = S
      BY <1>4
    <2> QED BY <2>1, <2>2, <2>3, <2>4
  <1>6. ASSUME NEW k \in 1 .. len PROVE FileByte(f, f.cursor + k - 1) = hS + (c + k - 1)
    BY <1>3, <1>5 DEF FileByte, Addr
  <1> DEFINE first == FirstBytes(f, len)
             m(k) == k - first - 1
             byte(k) == IF k <= first THEN Addr(f.current_sector, (f.cursor % SECTOR) + k - 1)
                        ELSE Addr(SectorAfterFirst(f) + (m(k) \div SECTOR), m(k) % SECTOR)
  <1>7. /\ r = 0 => first = 0 /\ SectorAfterFirst(f) = h + q
        /\ r # 0 /\ r + len > S => first = S - r /\ SectorAfterFirst(f) = h + q + 1
        /\ r # 0 /\ r + len <= S => first = len
    BY <1>3, <1>4, <1>5 DEF FirstBytes, SectorAfterFirst
  <1>8. ASSUME NEW k \in 1 .. len PROVE byte(k) = hS + (c + k - 1)
    <2>0. first \in Nat /\ r \in Nat /\ r < S
      BY <1>4, <1>7, SectorAssumption
    <2>1. CASE k <= first
      <3>1. byte(k) = Addr(f.current_sector, (f.cursor % SECTOR) + k - 1)
        BY <2>1
      <3>2. Addr(f.current_sector, (f.cursor % SECTOR) + k - 1) = (h + q) * SECTOR + (r + k - 1)
        BY <1>3, <1>5 DEF Addr
      <3>3. (h + q) * SECTOR + (r + k - 1) = hS + (c + k - 1)
        <4>1. (h + q) * SECTOR = hS + qS /\ c = qS + r
          BY <1>2, <1>5
        <4> QED BY <4>1, <2>0
      <3> QED BY <3>1, <3>2, <3>3
    <2>2. CASE k > first
      <3> HIDE DEF first
      <3>1. PICK n \in Nat : n = m(k)
        BY <2>0, <2>2
      <3>2. PICK a \in Nat, b \in 0 .. SECTOR - 1 :
              a = n \div SECTOR /\ b = n % SECTOR /\ n = a * SECTOR + b
        BY Divide
      <3>3. byte(k) = Addr(SectorAfterFirst(f) + a, b)
        BY <2>0, <2>2, <3>1, <3>2
      <3>4. CASE r = 0
        <4>1. (h + q + a) * SECTOR = (h + q) * SECTOR + a * SECTOR /\ a * SECTOR \in Nat
          <5>1. h + q \in Nat
            OBVIOUS
          <5> QED BY <5>1, Distribute
        <4>2. byte(k) = (h + q + a) * SECTOR + b
          BY <1>7, <3>3, <3>4 DEF Addr
        <4>3. n = k - 1 /\ c = qS /\ first = 0
          <5>1. first = 0
            BY <1>7, <3>4
          <5>2. c = qS
            <6>1. c = q * SECTOR + 0 /\ q * SECTOR = qS
              BY <1>2, <1>5, <3>4
            <6> QED BY <6>1
          <5>3. n = k - 1
            BY <3>1, <5>1
          <5> QED BY <5>1, <5>2, <5>3
        <4>4. PICK aS \in Nat : aS = a * SECTOR
          BY <4>1
        <4>5. (h + q) * SECTOR = hS + qS
          BY <1>5
        <4>6. byte(k) = hS + qS + aS + b /\ n = aS + b
          BY <4>1, <4>2, <4>4, <4>5, <3>2
        <4>7. b \in Nat
          BY <1>4
        <4> HIDE DEF byte
        <4> QED BY <4>3, <4>6, <4>7
      <3>5. CASE r # 0
        <4>0. first = S - r /\ SectorAfterFirst(f) = h + q + 1
          BY <1>7, <2>0, <2>2, <3>5
        <4>1. (h + q + 1 + a) * SECTOR = (h + q + 1) * SECTOR + a * SECTOR /\ a * SECTOR \in Nat
          <5>1. h + q + 1 \in Nat
            OBVIOUS
          <5> QED BY <5>1, Distribute
        <4>2. byte(k) = (h + q + 1 + a) * SECTOR + b
          BY <3>3, <4>0 DEF Addr
        <4>3. n = (k - (S - r)) - 1 /\ c = qS + r
          BY <1>2, <1>5, <3>1, <4>0
        <4>4. PICK aS \in Nat : aS = a * SECTOR
          BY <4>1
        <4>5. (h + q + 1) * SECTOR = hS + qS + S
          BY <1>5
        <4>6. byte(k) = hS + qS + S + aS + b /\ n = aS + b
          BY <4>1, <4>2, <4>4, <4>5, <3>2
        <4>7. b \in Nat
          BY <1>4
        <4> HIDE DEF byte
        <4> QED BY <2>0, <4>3, <4>6, <4>7
      <3> QED BY <3>4, <3>5
    <2> QED BY <2>0, <2>1, <2>2
  <1>9. BytesRead(f, len) = [k \in 1 .. len |-> byte(k)]
    BY DEF BytesRead
  <1> HIDE DEF byte
  <1> QED BY <1>6, <1>8, <1>9

\* A read leaves the current sector in place, except one that starts inside a
\* sector and ends before its end.
LEMMA ReadKeepsPlace ==
  ASSUME NEW f, InPlace(f), NEW len \in Nat,
         f.cursor % SECTOR = 0 \/ (f.cursor % SECTOR) + len >= SECTOR
  PROVE  InPlace(AfterRead(f, len))
  <1>1. PICK hs \in Nat, c \in Nat, sz \in Nat : f = TarFile(hs, hs + 1 + (c \div SECTOR), c, sz)
    BY DEF InPlace
  <1>2. PICK q \in Nat, r \in 0 .. SECTOR - 1 :
          q = c \div SECTOR /\ r = c % SECTOR /\ c = q * SECTOR + r
    BY Divide
  <1>3. f.current_sector = hs + 1 + q /\ f.cursor = c /\ f.cursor % SECTOR = r
    BY <1>1, <1>2 DEF TarFile
  <1>4. PICK S \in Nat : S = SECTOR /\ S > 0
    BY SectorAssumption
  <1>5. r \in Nat /\ r < S /\ q * SECTOR \in Nat
    BY <1>4, Distribute
  <1>6. /\ r = 0 => FirstBytes(f, len) = 0 /\ SectorAfterFirst(f) = hs + 1 + q
        /\ r # 0 => FirstBytes(f, len) = S - r /\ SectorAfterFirst(f) = hs + 1 + q + 1
    BY <1>3, <1>4, <1>5 DEF FirstBytes, SectorAfterFirst
  <1> DEFINE rest == len - FirstBytes(f, len)
             p == IF r = 0 THEN q ELSE q + 1
  <1>7. rest \in Nat /\ p \in Nat /\ SectorAfterFirst(f) = hs + 1 + p
    BY <1>3, <1>4, <1>5, <1>6
  <1>8. c + len = p * SECTOR + rest
    <2>1. CASE r = 0
      BY <1>2, <1>5, <1>6, <2>1
    <2>2. CASE r # 0
      <3>1. (q + 1) * SECTOR = q * SECTOR + S
        <4>1. (q + 1) * SECTOR = q * SECTOR + 1 * SECTOR
          BY Distribute
        <4> QED BY <4>1, <1>4
      <3>2. PICK qS \in Nat : qS = q * SECTOR
        BY <1>5
      <3>3. c = qS + r /\ rest = len - (S - r) /\ p * SECTOR = qS + S
        BY <1>2, <1>6, <2>2, <3>1, <3>2
      <3> HIDE DEF rest, p
      <3> QED BY <1>5, <3>3
    <2> QED BY <2>1, <2>2
  <1> HIDE DEF rest, p
  <1>9. PICK a \in Nat, b \in 0 .. SECTOR - 1 :
          a = rest \div SECTOR /\ rest = a * SECTOR + b
    BY <1>7, Divide
  <1>10. (p + a) * SECTOR = p * SECTOR + a * SECTOR /\ p * SECTOR \in Nat /\ a * SECTOR \in Nat
    BY <1>7, Distribute
  <1>11. c + len = (p + a) * SECTOR + b
    <2>1. PICK pS \in Nat, aS \in Nat : pS = p * SECTOR /\ aS = a * SECTOR
      BY <1>10
    <2>2. c + len = pS + rest /\ rest = aS + b /\ (p + a) * SECTOR = pS + aS
      BY <1>8, <1>9, <1>10, <2>1
    <2>3. b \in Nat
      BY <1>4
    <2> QED BY <2>2, <2>3
  <1>12. (c + len) \div SECTOR = p + a
    <2>1. p + a \in Nat
      BY <1>7
    <2> QED BY <2>1, <1>11, DivideUnique
  <1>13. AfterRead(f, len) = TarFile(hs, (hs + 1 + p) + a, c + len, sz)
    <2> DEFINE cs == SectorAfterFirst(f) + ((len - FirstBytes(f, len)) \div SECTOR)
    <2>1. cs = (hs + 1 + p) + a
      BY <1>7, <1>9 DEF rest
    <2>2. AfterRead(f, len) = Place(f, c + len, cs)
      BY <1>3 DEF AfterRead, Place
    <2> HIDE DEF cs
    <2>3. Place(f, c + len, cs) = TarFile(hs, cs, c + len, sz)
      BY <1>1, Fields
    <2> QED BY <2>1, <2>2, <2>3
  <1>14. (hs + 1 + p) + a = hs + 1 + ((c + len) \div SECTOR)
    BY <1>7, <1>12
  <1>15. c + len \in Nat
    OBVIOUS
  <1> QED BY <1>13, <1>14, <1>15 DEF InPlace

\* open() leaves the cursor at the start of the file, and the first sector of its
\* data current.
LEMMA OpenedInPlace ==
  ASSUME disk \in Disks, NEW name, FindFile(name) # NULL
  PROVE  /\ InPlace(Opened(name)) /\ Opened(name).cursor = 0 /\ Opened(name).size > 0
         /\ FindFile(name) \in 1 .. Len(disk)
         /\ Opened(name).header_sector = HeaderSector(FindFile(name))
         /\ Opened(name).size = disk[FindFile(name)].size
  <1> DEFINE found == {k \in 1 .. Len(disk) : Matches(name, k)}
             k == FindFile(name)
  <1>1. Len(disk) \in Nat /\ \A i \in 1 .. Len(disk) : disk[i].size \in Nat \ {0}
    BY DisksAssumption
  <1>2. found # {} /\ found \in SUBSET Nat
    BY <1>1 DEF FindFile
  <1>3. PICK i \in found : \A j \in found : i <= j
    BY <1>2, LeastExists
  <1>4. i \in 1 .. Len(disk) /\ Matches(name, i) /\ \A j \in 1 .. i - 1 : ~ Matches(name, j)
    <2>1. ASSUME NEW j \in 1 .. i - 1, Matches(name, j) PROVE FALSE
      BY <1>1, <1>3, <2>1
    <2> QED BY <1>3, <2>1
  <1>5. k \in 1 .. Len(disk)
    BY <1>4 DEF FindFile
  <1>6. PICK hs \in Nat, sz \in Nat \ {0} : hs = HeaderSector(k) /\ sz = disk[k].size
    BY <1>1, <1>5, HeaderSectorType
  <1>7. 0 \div SECTOR = 0
    BY SectorAssumption
  <1>8. Opened(name) = TarFile(hs, hs + 1 + (0 \div SECTOR), 0, sz)
    <2> DEFINE g == TarFile(hs, 0, 0, sz)
    <2>1. Opened(name) = Seek(Header(FreeFile, hs, sz), 0)
      BY <1>6 DEF Opened, Header
    <2>2. Header(FreeFile, hs, sz) = g
      <3>1. FreeFile = TarFile(0, 0, 0, 0)
        BY DEF FreeFile, TarFile
      <3> QED BY <3>1, Fields
    <2>3. CanSeek(g, 0) /\ g.header_sector = hs
      BY DEF CanSeek, TarFile
    <2>4. Seek(g, 0) = Place(g, 0, hs + 1 + (0 \div SECTOR))
      BY <2>3 DEF Seek, Place
    <2>5. @ = TarFile(hs, hs + 1 + (0 \div SECTOR), 0, sz)
      BY Fields
    <2> QED BY <2>1, <2>2, <2>4, <2>5
  <1>9. InPlace(Opened(name))
    BY <1>8 DEF InPlace
  <1>10. /\ Opened(name).cursor = 0 /\ Opened(name).size > 0
         /\ Opened(name).header_sector = hs /\ Opened(name).size = sz
    BY <1>8 DEF TarFile
  <1> QED BY <1>5, <1>6, <1>9, <1>10

-----------------------------------------------------------------------------
(* The table of files *)

File == 0 .. MAX_FILES - 1
Handle == 0 .. MAX_PROC_FILES - 1

IsFile(f) == \E hs, cs, c, sz : f = TarFile(hs, cs, c, sz)

\* The task with its fields.
TaskIs(t, pc) == \E seg : t = [pc |-> pc, seg |-> seg]

\* Files are open from load_background_tga() on, and none is open before it.
FileInv ==
  /\ disk \in Disks
  /\ \E pc : TaskIs(task, pc)
  /\ files = [x \in File |-> files[x]] /\ \A x \in File : IsFile(files[x])
  /\ handles \in [Handle -> File \cup {NULL}]
  /\ task.pc = "tga_open" => /\ \A x \in File : files[x] = FreeFile
                             /\ \A h \in Handle : handles[h] = NULL
  /\ task.pc # "tga_open" => 0 \in File /\ files[0].size > 0
  /\ FilesApart

\* The same file, read or sought.
SameFile(f, e) == IsFile(e) /\ e.size = f.size /\ e.header_sector = f.header_sector

\* A step leaves open files open.
FilesLast ==
  /\ \A x \in File : files[x].size > 0 => SameFile(files[x], files'[x])
  /\ \A h \in Handle : handles[h] # NULL => handles'[h] = handles[h]

\* seek() and read() move within a file.
LEMMA ReadSameFile ==
  ASSUME NEW f, IsFile(f), NEW len
  PROVE  SameFile(f, AfterRead(f, len)) /\ SameFile(f, Moved(f, len))
  <1>1. PICK hs, cs, c, sz : f = TarFile(hs, cs, c, sz)
    BY DEF IsFile
  <1> DEFINE ns == SectorAfterFirst(f) + ((len - FirstBytes(f, len)) \div SECTOR)
  <1>2. AfterRead(f, len) = Place(f, f.cursor + len, ns)
    BY DEF AfterRead, Place
  <1> HIDE DEF ns
  <1>3. Place(f, f.cursor + len, ns) = TarFile(hs, ns, f.cursor + len, sz)
    BY <1>1, Fields
  <1>4. SameFile(f, AfterRead(f, len))
    BY <1>1, <1>2, <1>3, Fields DEF SameFile, IsFile
  <1>5. SameFile(f, f)
    BY DEF SameFile
  <1> QED BY <1>4, <1>5 DEF Moved

\* seek() changes the cursor and the current sector only.
LEMMA SeekSameFile ==
  ASSUME NEW f, IsFile(f), NEW offset
  PROVE  SameFile(f, Seek(f, offset))
  <1>1. PICK hs, cs, c, sz : f = TarFile(hs, cs, c, sz)
    BY DEF IsFile
  <1> DEFINE ns == f.header_sector + 1 + (offset \div SECTOR)
  <1>2. Seek(f, offset) = IF CanSeek(f, offset) THEN Place(f, offset, ns) ELSE f
    BY DEF Seek, Place
  <1> HIDE DEF ns
  <1>3. Place(f, offset, ns) = TarFile(hs, ns, offset, sz)
    BY <1>1, Fields
  <1> QED BY <1>1, <1>2, <1>3, Fields DEF SameFile, IsFile

\* alloc_file() returns the first file of size 0.
LEMMA AllocFileFree ==
  ASSUME FileInv, AllocFile # NULL
  PROVE  /\ AllocFile \in File /\ files[AllocFile].size = 0
         /\ 0 \in File /\ files[0].size = 0 => AllocFile = 0
  <1> DEFINE free == {f \in DOMAIN files : files[f].size = 0}
  <1>1. DOMAIN files = File
    BY DEF FileInv
  <1>2. free # {} /\ free \in SUBSET Nat /\ free \subseteq File
    BY <1>1 DEF AllocFile, File
  <1>3. PICK f \in free : \A g \in free : f <= g
    BY <1>2, LeastExists
  <1>4. AllocFile \in free /\ \A g \in free : AllocFile <= g
    BY <1>2, <1>3 DEF AllocFile
  <1>5. 0 \in File /\ files[0].size = 0 => AllocFile = 0
    <2> SUFFICES ASSUME 0 \in File, files[0].size = 0 PROVE AllocFile = 0
      OBVIOUS
    <2>1. AllocFile <= 0 /\ AllocFile \in Nat
      BY <1>1, <1>2, <1>4
    <2> QED BY <2>1
  <1> QED BY <1>2, <1>4, <1>5

\* alloc_proc_filehandle() returns a handle without a file.
LEMMA AllocHandleFree ==
  ASSUME FileInv, AllocHandle # NULL
  PROVE  AllocHandle \in Handle /\ handles[AllocHandle] = NULL
  <1> DEFINE free == {h \in DOMAIN handles : handles[h] = NULL}
  <1>1. DOMAIN handles = Handle
    BY DEF FileInv
  <1>2. free # {} /\ free \in SUBSET Nat /\ free \subseteq Handle
    BY <1>1 DEF AllocHandle, Handle
  <1>3. PICK h \in free : \A g \in free : h <= g
    BY <1>2, LeastExists
  <1>4. AllocHandle \in free
    BY <1>2, <1>3 DEF AllocHandle
  <1> QED BY <1>1, <1>4

\* A step that opens no file.
LEMMA FilesKept ==
  ASSUME FileInv, task.pc # "tga_open", disk' = disk, handles' = handles,
         NEW at, TaskIs(task', at), at # "tga_open",
         \/ files' = files
         \/ \E f, e : /\ files' = [files EXCEPT ![f] = e]
                      /\ f \in File => SameFile(files[f], e)
  PROVE  FileInv' /\ SameFile(files[0], files'[0]) /\ FilesLast
  <1>1. files' = [x \in File |-> files'[x]] /\ \A x \in File : SameFile(files[x], files'[x])
    <2>1. CASE files' = files
      BY <2>1 DEF FileInv, SameFile
    <2>2. ASSUME NEW f, NEW e, files' = [files EXCEPT ![f] = e],
                 f \in File => SameFile(files[f], e)
          PROVE  files' = [x \in File |-> files'[x]] /\ \A x \in File : SameFile(files[x], files'[x])
      <3>1. files' = [x \in File |-> files'[x]]
        BY <2>2 DEF FileInv
      <3>2. ASSUME NEW x \in File PROVE SameFile(files[x], files'[x])
        <4>1. files'[x] = IF x = f THEN e ELSE files[x]
          BY <2>2 DEF FileInv
        <4>2. SameFile(files[x], files[x])
          BY DEF SameFile, FileInv
        <4> QED BY <2>2, <4>1, <4>2
      <3> QED BY <3>1, <3>2
    <2> QED BY <2>1, <2>2
  <1>2. task'.pc = at
    BY DEF TaskIs
  <1>3. FilesApart'
    BY <1>1 DEF FileInv, FilesApart, SameFile
  <1>4. 0 \in File /\ files'[0].size > 0
    BY <1>1 DEF FileInv, SameFile
  <1>5. \A x \in File : IsFile(files'[x])
    BY <1>1 DEF SameFile
  <1>6. /\ disk' \in Disks
        /\ handles' \in [Handle -> File \cup {NULL}]
    BY DEF FileInv
  <1>7. FileInv'
    <2>1. \E pc : TaskIs(task', pc)
      OBVIOUS
    <2> QED BY <1>1, <1>2, <1>3, <1>4, <1>5, <1>6, <2>1 DEF FileInv
  <1> QED BY <1>1, <1>4, <1>7 DEF FilesLast

\* Goto() changes the label.
LEMMA GotoTask ==
  ASSUME FileInv, NEW at, Goto(at)
  PROVE  TaskIs(task', at) /\ task'.pc = at
  <1>1. PICK pc, seg : task = [pc |-> pc, seg |-> seg]
    BY DEF FileInv, TaskIs
  <1>2. task' = [pc |-> at, seg |-> seg]
    BY <1>1 DEF Goto
  <1> QED BY <1>2 DEF TaskIs

\* open() of the program or of a library: the file is one that nobody has, and
\* the handle too.
LEMMA OpenKeeps ==
  ASSUME FileInv, task.pc # "tga_open", NEW name, OpenModule(name)
  PROVE  FileInv' /\ SameFile(files[0], files'[0]) /\ FilesLast /\ task'.pc = "header"
  <1> DEFINE f == Opens(name)
             h == AllocHandle
  <1>1. /\ files' = IF f = NULL THEN files ELSE [files EXCEPT ![f] = Opened(name)]
        /\ handles' = IF h = NULL THEN handles ELSE [handles EXCEPT ![h] = f]
        /\ task' = [pc |-> "header", seg |-> 1] /\ disk' = disk
    BY DEF OpenModule
  <1>2. /\ disk \in Disks /\ files = [x \in File |-> files[x]]
        /\ \A x \in File : IsFile(files[x])
        /\ handles \in [Handle -> File \cup {NULL}]
        /\ 0 \in File /\ files[0].size > 0
    BY DEF FileInv
  <1>3. f # NULL => /\ f \in File /\ files[f].size = 0
                    /\ IsFile(Opened(name)) /\ Opened(name).size > 0
    <2> SUFFICES ASSUME f # NULL
                 PROVE  /\ f \in File /\ files[f].size = 0
                        /\ IsFile(Opened(name)) /\ Opened(name).size > 0
      OBVIOUS
    <2>1. FindFile(name) # NULL /\ f = AllocFile
      BY DEF Opens
    <2>2. InPlace(Opened(name)) /\ Opened(name).size > 0
      BY <1>2, <2>1, OpenedInPlace
    <2>3. IsFile(Opened(name))
      BY <2>2 DEF InPlace, IsFile
    <2> QED BY <2>1, <2>2, <2>3, AllocFileFree
  <1>4. h # NULL => h \in Handle /\ handles[h] = NULL
    BY AllocHandleFree
  <1> HIDE DEF f, h
  <1>5. files' = [x \in File |-> files'[x]]
    BY <1>1, <1>2
  <1>6. \A x \in File : files'[x] = IF f # NULL /\ x = f THEN Opened(name) ELSE files[x]
    BY <1>1, <1>2, <1>3
  <1>7. \A g \in Handle : handles'[g] = IF h # NULL /\ g = h THEN f ELSE handles[g]
    BY <1>1, <1>2, <1>4
  <1>8. handles' \in [Handle -> File \cup {NULL}]
    BY <1>1, <1>2, <1>3
  <1>9. DOMAIN handles = Handle /\ DOMAIN handles' = Handle
    BY <1>2, <1>8
  <1>10. ASSUME NEW g \in Handle, handles[g] # NULL
         PROVE  /\ handles[g] \in File /\ files[handles[g]].size > 0
                /\ f # NULL => handles[g] # f
    <2>1. handles[g] \in File /\ files[handles[g]].size > 0
      BY <1>2, <1>9, <1>10 DEF FileInv, FilesApart
    <2>2. ~ (0 > 0)
      OBVIOUS
    <2> QED BY <1>3, <2>1, <2>2
  <1>11. FilesApart'
    <2> SUFFICES ASSUME NEW g \in Handle, handles'[g] # NULL
                 PROVE  /\ handles'[g] # 0 /\ files'[handles'[g]].size > 0
                        /\ \A k \in Handle : k # g => handles'[k] # handles'[g]
      BY <1>9 DEF FilesApart
    <2>1. CASE h # NULL /\ g = h
      <3>1. handles'[g] = f /\ f # NULL
        BY <1>7, <2>1
      <3>2. f # 0 /\ files'[f].size > 0
        <4>1. ~ (0 > 0)
          OBVIOUS
        <4> QED BY <1>2, <1>3, <1>6, <3>1, <4>1
      <3>3. ASSUME NEW k \in Handle, k # g PROVE handles'[k] # f
        <4>1. handles'[k] = handles[k]
          BY <1>7, <2>1, <3>3
        <4> QED BY <1>10, <3>1, <4>1
      <3> QED BY <3>1, <3>2, <3>3
    <2>2. CASE ~ (h # NULL /\ g = h)
      <3>1. handles'[g] = handles[g]
        BY <1>7, <2>2
      <3>2. /\ handles[g] # 0 /\ handles[g] \in File /\ files[handles[g]].size > 0
            /\ f # NULL => handles[g] # f
            /\ \A k \in Handle : k # g => handles[k] # handles[g]
        BY <1>9, <1>10, <3>1 DEF FileInv, FilesApart
      <3>3. files'[handles[g]] = files[handles[g]]
        BY <1>6, <3>2
      <3>4. ASSUME NEW k \in Handle, k # g PROVE handles'[k] # handles[g]
        <4>1. CASE h # NULL /\ k = h
          BY <1>7, <3>1, <3>2, <4>1
        <4>2. CASE ~ (h # NULL /\ k = h)
          BY <1>7, <3>2, <3>4, <4>2
        <4> QED BY <4>1, <4>2
      <3> QED BY <3>1, <3>2, <3>3, <3>4
    <2> QED BY <2>1, <2>2
  <1>12. files'[0] = files[0]
    <2>1. ~ (0 > 0)
      OBVIOUS
    <2> QED BY <1>2, <1>3, <1>6, <2>1
  <1>13. TaskIs(task', "header") /\ task'.pc = "header"
    BY <1>1 DEF TaskIs
  <1>14. \A x \in File : IsFile(files'[x])
    BY <1>2, <1>3, <1>6
  <1>15. disk' \in Disks /\ 0 \in File /\ files'[0].size > 0
    BY <1>1, <1>2, <1>12
  <1>16. FileInv'
    <2>1. \E pc : TaskIs(task', pc)
      BY <1>13
    <2> QED BY <1>5, <1>8, <1>11, <1>13, <1>14, <1>15, <2>1 DEF FileInv
  <1>17. FilesLast
    <2>1. ASSUME NEW x \in File, files[x].size > 0 PROVE SameFile(files[x], files'[x])
      <3>1. ~ (0 > 0)
        OBVIOUS
      <3>2. files'[x] = files[x]
        BY <1>3, <1>6, <2>1, <3>1
      <3> QED BY <1>2, <3>2 DEF SameFile
    <2>2. \A g \in Handle : handles[g] # NULL => handles'[g] = handles[g]
      BY <1>4, <1>7
    <2> QED BY <2>1, <2>2 DEF FilesLast
  <1> QED BY <1>2, <1>12, <1>13, <1>16, <1>17 DEF SameFile

-----------------------------------------------------------------------------
(* The wallpaper *)

Reading == {"tga_open", "tga_header", "tga_chunk"}

\* While the wallpaper is read, the cursor of its file is behind the header and the
\* chunks so far, and the current sector is the cursor's.  A file without a whole
\* header has no chunk either.
ImageInv ==
  /\ image \in Seq(Int)
  /\ task.pc \in {"tga_open", "tga_header"} => image = <<>>
  /\ task.pc = "tga_header" => InPlace(files[0]) /\ files[0].cursor = 0
  /\ task.pc = "tga_chunk" =>
       /\ InPlace(files[0])
       /\ \/ files[0].cursor = TGAHEAD + Len(image)
          \/ image = <<>> /\ files[0].cursor = 0 /\ TGAHEAD > files[0].size
  /\ WallpaperExact

\* The entry of a file is found by its header alone.
LEMMA SameEntry ==
  ASSUME disk' = disk, files'[0].header_sector = files[0].header_sector
  PROVE  /\ Entry(0)' = Entry(0)
         /\ \A pos : FileByte(files'[0], pos) = FileByte(files[0], pos)
  <1>1. \A k : HeaderSector(k)' = HeaderSector(k)
    BY DEF HeaderSector, EntrySectors
  <1>2. Entry(0)' = Entry(0)
    BY <1>1 DEF Entry
  <1>3. \A pos : FileByte(files'[0], pos) = FileByte(files[0], pos)
    BY DEF FileByte
  <1> QED BY <1>2, <1>3

\* What is done after the wallpaper has been read does not change it.
LEMMA ImageKept ==
  ASSUME ImageInv, task.pc \notin Reading, task'.pc \notin Reading,
         disk' = disk, image' = image, SameFile(files[0], files'[0])
  PROVE  ImageInv'
  <1>1. Entry(0)' = Entry(0) /\ \A pos : FileByte(files'[0], pos) = FileByte(files[0], pos)
    BY SameEntry DEF SameFile
  <1>2. /\ \A k \in 1 .. Len(image) : image[k] = FileByte(files[0], TGAHEAD + k - 1)
        /\ disk[Entry(0)].tga => TGAHEAD + Len(image) + CHUNK > files[0].size
    BY DEF ImageInv, WallpaperExact, Reading
  <1>3. WallpaperExact'
    BY <1>1, <1>2 DEF WallpaperExact, SameFile
  <1> QED BY <1>3 DEF ImageInv, Reading

\* The steps of elf_exec() and of the program.
LEMMA LaterStep ==
  ASSUME FileInv,
         \/ OpenProgram \/ ReadHeaders \/ MapModule \/ LoadSegment \/ LinkModule
         \/ NeededLib \/ Enter \/ NoLibrary \/ \E i \in Calls : LookupSymbol(i)
  PROVE  /\ FileInv' /\ SameFile(files[0], files'[0]) /\ FilesLast
         /\ task.pc \notin Reading /\ task'.pc \notin Reading
         /\ disk' = disk /\ image' = image
  <1> USE DEF Reading
  <1>1. CASE OpenProgram
    <2>1. task.pc = "open" /\ OpenModule(Program)
      BY <1>1 DEF OpenProgram
    <2>2. disk' = disk /\ image' = image
      BY <2>1 DEF OpenModule
    <2> QED BY <2>1, <2>2, OpenKeeps
  <1>2. CASE NeededLib
    <2>1. PICK name : task.pc = "needed" /\ OpenModule(name)
      BY <1>2 DEF NeededLib
    <2>2. disk' = disk /\ image' = image
      BY <2>1 DEF OpenModule
    <2> QED BY <2>1, <2>2, OpenKeeps
  <1>3. CASE ReadHeaders
    <2> DEFINE f == FileOf(Current)
               read == IF f = NULL THEN FALSE ELSE Exact(files[f], 0, EHDR)
               elf == IF read THEN disk[Entry(f)].elf ELSE NoElf
               len == PHDR * Len(elf.segs)
               first == Moved(files[f], EHDR)
               sought == Seek(first, elf.phoff)
    <2>1. /\ task.pc = "header" /\ disk' = disk /\ image' = image /\ handles' = handles
          /\ \/ files' = files /\ Goto("map")
             \/ files' = [files EXCEPT ![f] = Moved(@, EHDR)] /\ Goto("frozen")
             \/ files' = [files EXCEPT ![f] = Moved(sought, len)] /\ Goto("map")
      BY <1>3 DEF ReadHeaders
    <2>2. f \in File => /\ SameFile(files[f], Moved(files[f], EHDR))
                        /\ SameFile(files[f], Moved(sought, len))
      <3> SUFFICES ASSUME f \in File
                   PROVE  /\ SameFile(files[f], Moved(files[f], EHDR))
                          /\ SameFile(files[f], Moved(sought, len))
        OBVIOUS
      <3> HIDE DEF f, elf, len
      <3>1. IsFile(files[f])
        BY DEF FileInv
      <3>2. SameFile(files[f], first)
        BY <3>1, ReadSameFile
      <3> HIDE DEF first
      <3>3. SameFile(first, sought)
        BY <3>2, SeekSameFile DEF SameFile
      <3> HIDE DEF sought
      <3>4. SameFile(sought, Moved(sought, len))
        BY <3>3, ReadSameFile DEF SameFile
      <3> QED BY <3>2, <3>3, <3>4 DEF SameFile, first
    <2> HIDE DEF f, len, sought
    <2>3. \/ files' = files
          \/ \E x, e : /\ files' = [files EXCEPT ![x] = e]
                       /\ x \in File => SameFile(files[x], e)
      BY <2>1, <2>2
    <2>4. PICK at \in {"map", "frozen"} : Goto(at)
      BY <2>1
    <2>5. TaskIs(task', at) /\ task'.pc = at
      BY <2>4, GotoTask
    <2>6. FileInv' /\ SameFile(files[0], files'[0]) /\ FilesLast
      <3> HIDE DEF Reading
      <3>1. at # "tga_open" /\ task.pc # "tga_open"
        BY <2>1
      <3> QED BY <2>1, <2>3, <2>5, <3>1, FilesKept
    <2> QED BY <2>1, <2>5, <2>6
  <1>4. CASE LoadSegment
    <2> DEFINE f == FileOf(Current)
               s == Current.elf.segs[task.seg]
               sought == Seek(files[f], s.offset)
    <2>1. /\ task.pc = "segment" /\ disk' = disk /\ image' = image /\ handles' = handles
          /\ task' = [task EXCEPT !.seg = @ + 1]
          /\ files' = files \/ files' = [files EXCEPT ![f] = Moved(sought, s.filesz)]
      BY <1>4 DEF LoadSegment
    <2>2. f \in File => SameFile(files[f], Moved(sought, s.filesz))
      <3> SUFFICES ASSUME f \in File PROVE SameFile(files[f], Moved(sought, s.filesz))
        OBVIOUS
      <3> HIDE DEF f, s
      <3>1. SameFile(files[f], sought)
        BY SeekSameFile DEF FileInv
      <3> HIDE DEF sought
      <3>2. SameFile(sought, Moved(sought, s.filesz))
        BY <3>1, ReadSameFile DEF SameFile
      <3> QED BY <3>1, <3>2 DEF SameFile
    <2> HIDE DEF f, s, sought
    <2>3. TaskIs(task', "segment") /\ task'.pc = "segment"
      <3>1. PICK pc, seg : task = [pc |-> pc, seg |-> seg]
        BY DEF FileInv, TaskIs
      <3>2. pc = "segment"
        BY <2>1, <3>1
      <3>3. task' = [pc |-> "segment", seg |-> seg + 1]
        BY <2>1, <3>1, <3>2
      <3> QED BY <3>3 DEF TaskIs
    <2>4. FileInv' /\ SameFile(files[0], files'[0]) /\ FilesLast
      <3>1. \/ files' = files
            \/ \E x, e : /\ files' = [files EXCEPT ![x] = e]
                         /\ x \in File => SameFile(files[x], e)
        BY <2>1, <2>2
      <3>2. task.pc # "tga_open" /\ "segment" # "tga_open"
        BY <2>1
      <3> QED BY <2>1, <2>3, <3>1, <3>2, FilesKept
    <2> QED BY <2>1, <2>3, <2>4
  <1>5. CASE MapModule \/ LinkModule \/ Enter \/ NoLibrary
    <2>1. /\ task.pc \in {"map", "segment", "needed", "running"}
          /\ disk' = disk /\ image' = image /\ handles' = handles /\ files' = files
          /\ \/ Goto("segment") \/ Goto("frozen") \/ Goto("needed") \/ Goto("running")
             \/ Goto("trap")
      BY <1>5 DEF MapModule, LinkModule, Enter, NoLibrary
    <2>2. PICK at \in {"segment", "frozen", "needed", "running", "trap"} : Goto(at)
      BY <2>1
    <2>3. TaskIs(task', at) /\ task'.pc = at
      BY <2>2, GotoTask
    <2>4. at # "tga_open" /\ task.pc # "tga_open"
      BY <2>1
    <2>5. FileInv' /\ SameFile(files[0], files'[0]) /\ FilesLast
      BY <2>1, <2>3, <2>4, FilesKept
    <2> QED BY <2>1, <2>3, <2>5
  <1>6. CASE \E i \in Calls : LookupSymbol(i)
    <2>1. /\ task.pc = "running" /\ task' = task
          /\ disk' = disk /\ image' = image /\ handles' = handles /\ files' = files
      BY <1>6 DEF LookupSymbol
    <2>2. TaskIs(task', "running")
      BY <2>1 DEF FileInv, TaskIs
    <2>3. task.pc # "tga_open" /\ "running" # "tga_open"
      BY <2>1
    <2>4. FileInv' /\ SameFile(files[0], files'[0]) /\ FilesLast
      BY <2>1, <2>2, <2>3, FilesKept
    <2> QED BY <2>1, <2>4
  <1> QED BY <1>1, <1>2, <1>3, <1>4, <1>5, <1>6

\* load_background_tga() opens its file, the first of the table.
LEMMA TgaOpenStep ==
  ASSUME FileInv, ImageInv, TgaOpen
  PROVE  FileInv' /\ ImageInv'
  <1> DEFINE f == Opens(Wallpaper)
  <1>1. /\ task.pc = "tga_open" /\ f # NULL /\ Goto("tga_header")
        /\ files' = [files EXCEPT ![f] = Opened(Wallpaper)]
        /\ disk' = disk /\ handles' = handles /\ image' = image
    BY DEF TgaOpen
  <1>2. FindFile(Wallpaper) # NULL /\ f = AllocFile
    BY <1>1 DEF Opens
  <1>3. /\ disk \in Disks /\ files = [x \in File |-> files[x]]
        /\ \A x \in File : files[x] = FreeFile /\ IsFile(files[x])
        /\ handles \in [Handle -> File \cup {NULL}]
        /\ \A h \in Handle : handles[h] = NULL
    BY <1>1 DEF FileInv
  <1>4. f = 0 /\ 0 \in File
    <2>1. f \in File
      BY <1>1, <1>2, AllocFileFree
    <2>2. 0 \in File
      BY <2>1, SectorAssumption DEF File
    <2>3. files[0].size = 0
      BY <1>3, <2>2 DEF FreeFile
    <2> QED BY <1>1, <1>2, <2>2, <2>3, AllocFileFree
  <1>5. /\ InPlace(Opened(Wallpaper)) /\ Opened(Wallpaper).cursor = 0
        /\ Opened(Wallpaper).size > 0
    BY <1>2, <1>3, OpenedInPlace
  <1> HIDE DEF f
  <1>6. /\ files' = [x \in File |-> files'[x]]
        /\ \A x \in File : files'[x] = IF x = 0 THEN Opened(Wallpaper) ELSE files[x]
    BY <1>1, <1>3, <1>4
  <1>7. TaskIs(task', "tga_header") /\ task'.pc = "tga_header"
    BY <1>1, GotoTask
  <1>8. IsFile(Opened(Wallpaper))
    BY <1>5 DEF InPlace, IsFile
  <1>9. \A x \in File : IsFile(files'[x])
    BY <1>3, <1>6, <1>8
  <1>10. FilesApart'
    BY <1>1, <1>3 DEF FilesApart
  <1>11. FileInv'
    <2>1. \E pc : TaskIs(task', pc)
      BY <1>7
    <2>2. 0 \in File /\ files'[0].size > 0
      BY <1>4, <1>5, <1>6
    <2>3. disk' \in Disks /\ handles' \in [Handle -> File \cup {NULL}]
      BY <1>1, <1>3
    <2> QED BY <1>6, <1>7, <1>9, <1>10, <2>1, <2>2, <2>3 DEF FileInv
  <1>12. ImageInv'
    <2>1. image' = <<>> /\ image' \in Seq(Int)
      BY <1>1 DEF ImageInv
    <2>2. InPlace(files'[0]) /\ files'[0].cursor = 0
      BY <1>4, <1>5, <1>6
    <2>3. WallpaperExact'
      BY <1>7, <2>1 DEF WallpaperExact
    <2> QED BY <1>7, <2>1, <2>2, <2>3 DEF ImageInv
  <1> QED BY <1>11, <1>12

\* A read moves the file of the wallpaper only.
LEMMA TgaRead ==
  ASSUME FileInv, task.pc # "tga_open", NEW len,
         files' = [files EXCEPT ![0] = AfterRead(files[0], len)],
         disk' = disk, handles' = handles, NEW at, TaskIs(task', at), at # "tga_open"
  PROVE  /\ FileInv' /\ SameFile(files[0], files'[0])
         /\ files'[0] = AfterRead(files[0], len)
  <1>1. 0 \in File /\ IsFile(files[0])
    BY DEF FileInv
  <1>2. SameFile(files[0], AfterRead(files[0], len))
    BY <1>1, ReadSameFile
  <1>3. \E x, e : files' = [files EXCEPT ![x] = e] /\ (x \in File => SameFile(files[x], e))
    BY <1>2
  <1>4. files'[0] = AfterRead(files[0], len)
    BY <1>1 DEF FileInv
  <1> QED BY <1>3, <1>4, FilesKept

\* The cursor after a read.
LEMMA CursorAfter ==
  ASSUME NEW f, IsFile(f), NEW len
  PROVE  AfterRead(f, len).cursor = f.cursor + len
  <1>1. PICK hs, cs, c, sz : f = TarFile(hs, cs, c, sz)
    BY DEF IsFile
  <1> DEFINE ns == SectorAfterFirst(f) + ((len - FirstBytes(f, len)) \div SECTOR)
  <1>2. AfterRead(f, len) = Place(f, f.cursor + len, ns)
    BY DEF AfterRead, Place
  <1> HIDE DEF ns
  <1> QED BY <1>1, <1>2, Fields

\* The header of the image: read at the start of the file, so that the place stays
\* right wherever the header ends.
LEMMA TgaHeaderStep ==
  ASSUME FileInv, ImageInv, TgaHeader
  PROVE  FileInv' /\ ImageInv'
  <1> DEFINE short == PastEnd(files[0], TGAHEAD)
  <1>1. PICK supported \in IF short THEN BOOLEAN ELSE {disk[Entry(0)].tga} :
          Goto(IF supported THEN "tga_chunk" ELSE "open")
    BY DEF TgaHeader
  <1>2. /\ task.pc = "tga_header" /\ disk' = disk /\ handles' = handles /\ image' = image
        /\ files' = IF short THEN files ELSE [files EXCEPT ![0] = AfterRead(files[0], TGAHEAD)]
    BY DEF TgaHeader
  <1> DEFINE at == IF supported THEN "tga_chunk" ELSE "open"
  <1>3. TaskIs(task', at) /\ task'.pc = at
    BY <1>1, GotoTask
  <1>4. at \in {"tga_chunk", "open"} /\ at # "tga_open"
    OBVIOUS
  <1>5. InPlace(files[0]) /\ files[0].cursor = 0 /\ image = <<>> /\ IsFile(files[0])
    BY <1>2 DEF ImageInv, InPlace, IsFile
  <1>6. TGAHEAD \in Nat /\ CHUNK \in Nat
    BY SizesAssumption
  <1>7. CASE short
    <2>1. FileInv' /\ SameFile(files[0], files'[0])
      BY <1>2, <1>3, <1>4, <1>7, FilesKept
    <2>2. TGAHEAD > files[0].size
      BY <1>5, <1>6, <1>7 DEF PastEnd
    <2>3. TGAHEAD + Len(image) + CHUNK > files[0].size
      <3>1. PICK sz \in Nat : sz = files[0].size
        <4>1. PICK hs \in Nat, c \in Nat, n \in Nat :
                files[0] = TarFile(hs, hs + 1 + (c \div SECTOR), c, n)
          BY <1>5 DEF InPlace
        <4> QED BY <4>1 DEF TarFile
      <3>2. Len(image) = 0
        BY <1>5
      <3> QED BY <1>6, <2>2, <3>1, <3>2
    <2>4. files' = files /\ image' = image
      BY <1>2, <1>7
    <2>5. image' = <<>> /\ Len(image') = 0
      BY <1>2, <1>5
    <2>6. WallpaperExact'
      <3>1. \A k \in 1 .. Len(image') : image'[k] = FileByte(files'[0], TGAHEAD + k - 1)
        BY <2>5
      <3>2. TGAHEAD + Len(image') + CHUNK > files'[0].size
        BY <2>3, <2>4
      <3> QED BY <3>1, <3>2 DEF WallpaperExact
    <2> HIDE DEF at
    <2> QED BY <1>2, <1>3, <1>4, <1>5, <2>1, <2>2, <2>4, <2>6 DEF ImageInv
  <1>8. CASE ~ short
    <2>1. files' = [files EXCEPT ![0] = AfterRead(files[0], TGAHEAD)]
      BY <1>2, <1>8
    <2>2. /\ FileInv' /\ SameFile(files[0], files'[0])
          /\ files'[0] = AfterRead(files[0], TGAHEAD)
      <3> HIDE DEF at
      <3> QED BY <1>2, <1>3, <1>4, <2>1, TgaRead
    <2>3. InPlace(files'[0])
      <3>1. files[0].cursor % SECTOR = 0
        BY <1>5, SectorAssumption
      <3> QED BY <1>5, <1>6, <2>2, <3>1, ReadKeepsPlace
    <2>4. Len(image') = 0 /\ image' = <<>>
      BY <1>2, <1>5
    <2>5. files'[0].cursor = TGAHEAD + Len(image')
      <3>1. files'[0].cursor = 0 + TGAHEAD
        BY <1>5, <2>2, CursorAfter
      <3> QED BY <1>6, <2>4, <3>1
    <2>6. WallpaperExact'
      <3>1. Entry(0)' = Entry(0)
        BY <1>2, <2>2, SameEntry DEF SameFile
      <3>2. supported = disk[Entry(0)].tga
        BY <1>8
      <3>3. task'.pc \notin {"tga_open", "tga_header", "tga_chunk"} => ~ disk'[Entry(0)'].tga
        BY <1>2, <1>3, <3>1, <3>2
      <3> QED BY <2>4, <3>3 DEF WallpaperExact
    <2>7. image' \in Seq(Int)
      BY <2>4
    <2> HIDE DEF at
    <2> QED BY <1>3, <1>4, <2>2, <2>3, <2>5, <2>6, <2>7 DEF ImageInv
  <1> QED BY <1>7, <1>8

\* A chunk of the image: it is no smaller than a sector, so that the place stays
\* right.
LEMMA TgaChunkStep ==
  ASSUME FileInv, ImageInv, TgaChunk
  PROVE  FileInv' /\ ImageInv'
  <1> DEFINE f == files[0]
  <1>1. /\ task.pc = "tga_chunk" /\ disk' = disk /\ handles' = handles
        /\ PastEnd(f, CHUNK) => Goto("open") /\ files' = files /\ image' = image
        /\ ~ PastEnd(f, CHUNK) => /\ files' = [files EXCEPT ![0] = AfterRead(f, CHUNK)]
                                  /\ image' = image \o BytesRead(f, CHUNK)
                                  /\ task' = task
    BY DEF TgaChunk
  <1>2. /\ InPlace(f) /\ image \in Seq(Int)
        /\ \/ f.cursor = TGAHEAD + Len(image)
           \/ image = <<>> /\ f.cursor = 0 /\ TGAHEAD > f.size
        /\ \A k \in 1 .. Len(image) : image[k] = FileByte(f, TGAHEAD + k - 1)
    BY <1>1 DEF ImageInv, WallpaperExact
  <1>3. PICK hs \in Nat, c \in Nat, sz \in Nat : f = TarFile(hs, hs + 1 + (c \div SECTOR), c, sz)
    BY <1>2 DEF InPlace
  <1>4. f.cursor = c /\ f.size = sz /\ f.header_sector = hs
    BY <1>3 DEF TarFile
  <1>5. TGAHEAD \in Nat /\ CHUNK \in Nat /\ SECTOR <= CHUNK /\ TGAHEAD <= CHUNK
    BY SizesAssumption
  <1>6. PICK n \in Nat : n = Len(image)
    BY <1>2
  <1>7. c = TGAHEAD + n \/ (image = <<>> /\ n = 0 /\ c = 0 /\ TGAHEAD > sz)
    BY <1>2, <1>4, <1>6
  <1>8. PastEnd(f, CHUNK) <=> c + CHUNK > sz
    BY <1>4 DEF PastEnd
  <1> HIDE DEF f
  <1>9. CASE PastEnd(f, CHUNK)
    <2>1. TaskIs(task', "open") /\ task'.pc = "open"
      BY <1>1, <1>9, GotoTask
    <2>2. FileInv'
      <3>1. task.pc # "tga_open" /\ "open" # "tga_open"
        BY <1>1
      <3> QED BY <1>1, <1>9, <2>1, <3>1, FilesKept
    <2>3. TGAHEAD + n + CHUNK > sz
      BY <1>5, <1>7, <1>8, <1>9
    <2>4. files' = files /\ image' = image
      BY <1>1, <1>9
    <2>5. WallpaperExact'
      <3>1. \A k \in 1 .. Len(image') : image'[k] = FileByte(files'[0], TGAHEAD + k - 1)
        BY <1>2, <2>4 DEF f
      <3>2. TGAHEAD + Len(image') + CHUNK > files'[0].size
        BY <1>4, <1>6, <2>3, <2>4 DEF f
      <3> QED BY <3>1, <3>2 DEF WallpaperExact
    <2> QED BY <1>2, <2>1, <2>2, <2>4, <2>5 DEF ImageInv
  <1>10. CASE ~ PastEnd(f, CHUNK)
    <2>1. c = TGAHEAD + n
      BY <1>5, <1>7, <1>8, <1>10
    <2>2. /\ files' = [files EXCEPT ![0] = AfterRead(f, CHUNK)]
          /\ image' = image \o BytesRead(f, CHUNK) /\ task' = task
      BY <1>1, <1>10
    <2>3. TaskIs(task', "tga_chunk") /\ task'.pc = "tga_chunk"
      BY <1>1, <2>2 DEF FileInv, TaskIs
    <2>4. FileInv' /\ SameFile(files[0], files'[0]) /\ files'[0] = AfterRead(f, CHUNK)
      <3>1. task.pc # "tga_open" /\ "tga_chunk" # "tga_open"
        BY <1>1
      <3>2. files' = [files EXCEPT ![0] = AfterRead(files[0], CHUNK)]
        BY <2>2 DEF f
      <3>3. files'[0] = AfterRead(files[0], CHUNK) /\ FileInv' /\ SameFile(files[0], files'[0])
        BY <1>1, <2>3, <3>1, <3>2, TgaRead
      <3> QED BY <3>3 DEF f
    <2>5. InPlace(files'[0])
      <3>1. (f.cursor % SECTOR) + CHUNK >= SECTOR
        <4>1. c % SECTOR \in 0 .. SECTOR - 1
          BY Divide
        <4> QED BY <1>4, <1>5, <4>1, SectorAssumption
      <3> QED BY <1>2, <1>5, <2>4, <3>1, ReadKeepsPlace
    <2> DEFINE bytes == [k \in 1 .. CHUNK |-> FileByte(f, c + k - 1)]
    <2>6. image' = image \o bytes
      <3>1. BytesRead(f, CHUNK) = [k \in 1 .. CHUNK |-> FileByte(f, f.cursor + k - 1)]
        BY <1>2, <1>5, ReadExact
      <3>2. BytesRead(f, CHUNK) = bytes
        BY <1>4, <3>1
      <3> QED BY <2>2, <3>2
    <2>7. PICK base \in Int : \A pos : FileByte(f, pos) = base + pos
      <3>1. (hs + 1) * SECTOR + 0 \in Int
        BY SectorAssumption
      <3>2. \A pos : FileByte(f, pos) = ((hs + 1) * SECTOR + 0) + pos
        BY <1>4 DEF FileByte, Addr
      <3> QED BY <3>1, <3>2
    <2>8. bytes \in Seq(Int) /\ Len(bytes) = CHUNK
      <3>1. bytes \in [1 .. CHUNK -> Int]
        BY <2>7
      <3> HIDE DEF bytes
      <3> QED BY <1>5, <3>1
    <2>9. \A k \in 1 .. CHUNK : bytes[k] = FileByte(f, c + k - 1)
      OBVIOUS
    <2> HIDE DEF bytes
    <2>10. /\ image' \in Seq(Int) /\ Len(image') = n + CHUNK
           /\ \A k \in 1 .. n : image'[k] = image[k]
           /\ \A k \in n + 1 .. n + CHUNK : image'[k] = bytes[k - n]
      <3>1. image \o bytes \in Seq(Int)
        BY <1>2, <2>8
      <3>a. image \in Seq(Int) /\ bytes \in Seq(Int)
        BY <1>2, <2>8
      <3>2. Len(image \o bytes) = n + CHUNK
        <4>1. Len(image \o bytes) = Len(image) + Len(bytes)
          BY <3>a
        <4> QED BY <4>1, <1>6, <2>8
      <3>3. ASSUME NEW k \in 1 .. n PROVE (image \o bytes)[k] = image[k]
        BY <1>5, <1>6, <2>8, <3>a
      <3>4. ASSUME NEW k \in n + 1 .. n + CHUNK PROVE (image \o bytes)[k] = bytes[k - n]
        BY <1>5, <1>6, <2>8, <3>a
      <3> QED BY <2>6, <3>1, <3>2, <3>3, <3>4
    <2>11. ASSUME NEW k \in 1 .. n + CHUNK PROVE image'[k] = FileByte(f, TGAHEAD + k - 1)
      <3>1. CASE k <= n
        BY <1>2, <1>6, <2>10, <3>1
      <3>2. CASE k > n
        <4>1. k - n \in 1 .. CHUNK /\ k \in n + 1 .. n + CHUNK
          BY <1>5, <3>2
        <4>2. image'[k] = FileByte(f, c + (k - n) - 1)
          BY <2>9, <2>10, <4>1
        <4>3. c + (k - n) - 1 = TGAHEAD + k - 1
          BY <1>5, <2>1, <4>1
        <4> QED BY <4>2, <4>3
      <3> QED BY <1>5, <3>1, <3>2
    <2>12. WallpaperExact'
      <3>1. \A pos : FileByte(files'[0], pos) = FileByte(f, pos)
        BY <2>4 DEF FileByte, SameFile, f
      <3>2. \A k \in 1 .. Len(image') : image'[k] = FileByte(files'[0], TGAHEAD + k - 1)
        BY <2>10, <2>11, <3>1
      <3> QED BY <2>3, <3>2 DEF WallpaperExact
    <2>13. files'[0].cursor = TGAHEAD + Len(image')
      <3>1. IsFile(f)
        BY <1>3 DEF IsFile
      <3>2. files'[0].cursor = c + CHUNK
        BY <1>4, <2>4, <3>1, CursorAfter
      <3> QED BY <1>5, <2>1, <2>10, <3>2
    <2> QED BY <2>3, <2>4, <2>5, <2>10, <2>12, <2>13 DEF ImageInv
  <1> QED BY <1>9, <1>10

\* The boot leaves no file open, and no image.
LEMMA LoaderInit == Init => FileInv /\ ImageInv
  <1> SUFFICES ASSUME Init PROVE FileInv /\ ImageInv
    OBVIOUS
  <1>1. /\ disk \in Disks /\ files = [f \in File |-> FreeFile]
        /\ handles = [h \in Handle |-> NULL] /\ image = <<>>
        /\ task = [pc |-> "tga_open", seg |-> 1]
    BY DEF Init, File, Handle
  <1>2. FreeFile = TarFile(0, 0, 0, 0)
    BY DEF FreeFile, TarFile
  <1>3. \A x \in File : files[x] = FreeFile /\ IsFile(files[x])
    BY <1>1, <1>2 DEF IsFile
  <1>4. \A h \in Handle : handles[h] = NULL
    BY <1>1
  <1>5. FilesApart
    BY <1>1, <1>4 DEF FilesApart
  <1>6. TaskIs(task, "tga_open") /\ task.pc = "tga_open"
    BY <1>1 DEF TaskIs
  <1>7. FileInv
    <2>1. \E pc : TaskIs(task, pc)
      BY <1>6
    <2>2. files = [x \in File |-> files[x]] /\ handles \in [Handle -> File \cup {NULL}]
      BY <1>1
    <2> QED BY <1>1, <1>3, <1>4, <1>5, <1>6, <2>1, <2>2 DEF FileInv
  <1>8. ImageInv
    <2>1. WallpaperExact
      BY <1>1, <1>6 DEF WallpaperExact
    <2> QED BY <1>1, <1>6, <2>1 DEF ImageInv
  <1> QED BY <1>7, <1>8

\* Every step keeps the table of files and the image.
LEMMA LoaderStep == FileInv /\ ImageInv /\ [Next]_vars => FileInv' /\ ImageInv'
  <1> SUFFICES ASSUME FileInv, ImageInv, [Next]_vars PROVE FileInv' /\ ImageInv'
    OBVIOUS
  <1>1. CASE UNCHANGED vars
    <2>1. UNCHANGED <<disk, files, handles, image, task>>
      BY <1>1 DEF vars
    <2>2. FileInv'
      BY <2>1 DEF FileInv, FilesApart
    <2>3. Entry(0)' = Entry(0)
      BY <2>1, SameEntry
    <2>4. ImageInv'
      BY <2>1, <2>3 DEF ImageInv, WallpaperExact
    <2> QED BY <2>2, <2>4
  <1>2. CASE TgaOpen
    BY <1>2, TgaOpenStep
  <1>3. CASE TgaHeader
    BY <1>3, TgaHeaderStep
  <1>4. CASE TgaChunk
    BY <1>4, TgaChunkStep
  <1>5. CASE \/ OpenProgram \/ ReadHeaders \/ MapModule \/ LoadSegment \/ LinkModule
             \/ NeededLib \/ Enter \/ NoLibrary \/ \E i \in Calls : LookupSymbol(i)
    <2>1. /\ FileInv' /\ SameFile(files[0], files'[0])
          /\ task.pc \notin Reading /\ task'.pc \notin Reading
          /\ disk' = disk /\ image' = image
      BY <1>5, LaterStep
    <2> QED BY <2>1, ImageKept
  <1> QED BY <1>1, <1>2, <1>3, <1>4, <1>5 DEF Next, Load

\* A TarFile is handed out again only while its size is 0: in an archive without
\* empty files, files that are open at the same time are different objects, and none
\* is the kernel's.
THEOREM FilesStayApart == Spec => []FilesApart
  <1>1. FileInv => FilesApart
    BY DEF FileInv
  <1> QED BY <1>1, LoaderInit, LoaderStep, PTL DEF Spec

\* The image in memory is what the file has behind its header, without the part of
\* a chunk at its end, for every size of file, header and sector.
THEOREM WallpaperIsFile == Spec => []WallpaperExact
  <1>1. ImageInv => WallpaperExact
    BY DEF ImageInv
  <1> QED BY <1>1, LoaderInit, LoaderStep, PTL DEF Spec

-----------------------------------------------------------------------------
(* The hash table of a library *)

WalkStep(elf, name, f, k) ==
  IF elf.symtab[k + 1] = name THEN k
  ELSE IF elf.chains[k + 1] = 0 THEN NULL ELSE f[elf.chains[k + 1]]

\* A symbol's place from the end of its chain.
IsRank(elf, rank) ==
  /\ rank \in [0 .. Len(elf.chains) - 1 -> 0 .. Len(elf.chains) - 1]
  /\ \A k \in 0 .. Len(elf.chains) - 1 :
       elf.chains[k + 1] # 0 => rank[elf.chains[k + 1]] < rank[k]

\* The walks from the symbols with a place below r.
Walks(elf, name, rank, f, r) ==
  LET D == {k \in 0 .. Len(elf.chains) - 1 : rank[k] < r} IN
  f = [k \in D |-> WalkStep(elf, name, f, k)]

\* There are such walks, since chains end.
LEMMA WalksExist ==
  ASSUME NEW elf, NEW name, Len(elf.chains) \in Nat, NEW rank, IsRank(elf, rank),
         \A k \in 1 .. Len(elf.chains) : elf.chains[k] \in 0 .. Len(elf.chains) - 1
  PROVE  \A r \in Nat : \E f : Walks(elf, name, rank, f, r)
  <1> DEFINE n == Len(elf.chains)
             D(r) == {k \in 0 .. n - 1 : rank[k] < r}
             bad == {r \in Nat : ~ \E f : Walks(elf, name, rank, f, r)}
  <1> SUFFICES ASSUME bad # {} PROVE FALSE
    OBVIOUS
  <1>1. bad \in SUBSET Nat
    OBVIOUS
  <1> HIDE DEF bad
  <1>2. PICK r \in bad : \A k \in bad : r <= k
    BY <1>1, LeastExists
  <1>3. r \in Nat /\ ~ \E f : Walks(elf, name, rank, f, r)
    BY <1>2 DEF bad
  <1>4. \A k \in 0 .. n - 1 : rank[k] \in Nat /\ elf.chains[k + 1] \in 0 .. n - 1
    BY DEF IsRank
  <1>5. CASE r = 0
    <2> DEFINE e == [k \in {} |-> NULL]
    <2>1. D(0) = {}
      BY <1>4
    <2>2. [k \in {} |-> WalkStep(elf, name, e, k)] = e
      OBVIOUS
    <2>3. Walks(elf, name, rank, e, 0)
      BY <2>1, <2>2 DEF Walks
    <2> QED BY <1>3, <1>5, <2>3
  <1>6. CASE r > 0
    <2>1. r - 1 \in Nat /\ r - 1 \notin bad
      BY <1>2, <1>3, <1>6
    <2>2. PICK f : Walks(elf, name, rank, f, r - 1)
      BY <2>1 DEF bad
    <2>3. f = [k \in D(r - 1) |-> WalkStep(elf, name, f, k)]
      BY <2>2 DEF Walks
    <2> DEFINE g == [k \in D(r) |-> WalkStep(elf, name, f, k)]
    <2>4. \A k \in D(r - 1) : k \in D(r) /\ g[k] = f[k]
      <3>1. D(r - 1) \subseteq D(r)
        BY <1>3, <1>4
      <3> HIDE DEF D
      <3> QED BY <2>3, <3>1
    <2>5. ASSUME NEW k \in D(r) PROVE WalkStep(elf, name, f, k) = WalkStep(elf, name, g, k)
      <3>1. CASE elf.chains[k + 1] = 0
        BY <3>1 DEF WalkStep
      <3>2. CASE elf.chains[k + 1] # 0
        <4>1. elf.chains[k + 1] \in D(r - 1)
          <5>1. k \in 0 .. n - 1 /\ rank[k] < r /\ rank[elf.chains[k + 1]] < rank[k]
            BY <3>2 DEF IsRank
          <5>2. PICK c \in 0 .. n - 1 : c = elf.chains[k + 1] /\ rank[c] \in Nat
            BY <1>4, <5>1
          <5>3. rank[k] \in Nat
            BY <1>4, <5>1
          <5>4. rank[c] < r - 1
            BY <1>3, <5>1, <5>2, <5>3
          <5> QED BY <5>2, <5>4
        <4>2. g[elf.chains[k + 1]] = f[elf.chains[k + 1]]
          BY <2>4, <4>1
        <4> HIDE DEF g
        <4> QED BY <4>2 DEF WalkStep
      <3> QED BY <3>1, <3>2
    <2>6. g = [k \in D(r) |-> WalkStep(elf, name, g, k)]
      <3>1. \A k \in D(r) : g[k] = WalkStep(elf, name, g, k)
        <4>1. \A k \in D(r) : g[k] = WalkStep(elf, name, f, k)
          OBVIOUS
        <4> HIDE DEF g, D
        <4> QED BY <2>5, <4>1
      <3>2. g = [k \in D(r) |-> g[k]]
        OBVIOUS
      <3> HIDE DEF g, D
      <3> QED BY <3>1, <3>2
    <2> QED BY <1>3, <2>6 DEF Walks
  <1> QED BY <1>3, <1>5, <1>6

\* getSymbolIndex() goes from symbol to symbol.
LEMMA WalkChainDef ==
  ASSUME NEW elf, NEW name, Len(elf.chains) \in Nat, NEW rank, IsRank(elf, rank),
         \A k \in 1 .. Len(elf.chains) : elf.chains[k] \in 0 .. Len(elf.chains) - 1
  PROVE  \A k \in 0 .. Len(elf.chains) - 1 :
           WalkChain(elf, name, k) =
             IF elf.symtab[k + 1] = name THEN k
             ELSE IF elf.chains[k + 1] = 0 THEN NULL
             ELSE WalkChain(elf, name, elf.chains[k + 1])
  <1> DEFINE D == 0 .. Len(elf.chains) - 1
             from[k \in D] == IF elf.symtab[k + 1] = name THEN k
                              ELSE IF elf.chains[k + 1] = 0 THEN NULL
                              ELSE from[elf.chains[k + 1]]
             Eq(f) == f = [k \in D |-> IF elf.symtab[k + 1] = name THEN k
                                       ELSE IF elf.chains[k + 1] = 0 THEN NULL
                                       ELSE f[elf.chains[k + 1]]]
  <1>1. \A k : WalkChain(elf, name, k) = from[k]
    BY DEF WalkChain
  <1>2. from = CHOOSE f : Eq(f)
    BY DEF from
  <1>3. \E f : Eq(f)
    <2>1. PICK f : Walks(elf, name, rank, f, Len(elf.chains))
      BY WalksExist
    <2>2. {k \in D : rank[k] < Len(elf.chains)} = D
      BY DEF IsRank
    <2>3. Eq(f)
      BY <2>1, <2>2 DEF Walks, WalkStep
    <2> QED BY <2>3
  <1>4. Eq(from)
    <2> HIDE DEF Eq, from
    <2> QED BY <1>2, <1>3
  <1>5. \A k \in D : from[k] = IF elf.symtab[k + 1] = name THEN k
                               ELSE IF elf.chains[k + 1] = 0 THEN NULL
                               ELSE from[elf.chains[k + 1]]
    <2> HIDE DEF from
    <2> QED BY <1>4
  <1> HIDE DEF from, Eq
  <1> QED BY <1>1, <1>5

\* What a walk returns is a symbol of that name.
LEMMA WalkSound ==
  ASSUME NEW elf, NEW name, Len(elf.chains) \in Nat, NEW rank, IsRank(elf, rank),
         \A k \in 1 .. Len(elf.chains) : elf.chains[k] \in 0 .. Len(elf.chains) - 1,
         NEW i \in 0 .. Len(elf.chains) - 1, WalkChain(elf, name, i) # NULL
  PROVE  /\ WalkChain(elf, name, i) \in 0 .. Len(elf.chains) - 1
         /\ elf.symtab[WalkChain(elf, name, i) + 1] = name
  <1> DEFINE n == Len(elf.chains)
             W(k) == WalkChain(elf, name, k)
             Bad(k) == W(k) # NULL /\ ~ (W(k) \in 0 .. n - 1 /\ elf.symtab[W(k) + 1] = name)
             bad == {rank[k] : k \in {j \in 0 .. n - 1 : Bad(j)}}
  <1> SUFFICES ASSUME Bad(i) PROVE FALSE
    OBVIOUS
  <1>1. bad \in SUBSET Nat /\ bad # {}
    BY DEF IsRank
  <1>2. PICK r \in bad : \A q \in bad : r <= q
    BY <1>1, LeastExists
  <1>3. PICK k \in 0 .. n - 1 : r = rank[k] /\ Bad(k)
    BY <1>2
  <1>4. W(k) = IF elf.symtab[k + 1] = name THEN k
               ELSE IF elf.chains[k + 1] = 0 THEN NULL ELSE W(elf.chains[k + 1])
    BY <1>3, WalkChainDef
  <1>5. elf.symtab[k + 1] # name /\ elf.chains[k + 1] # 0 /\ W(k) = W(elf.chains[k + 1])
    BY <1>3, <1>4
  <1>6. elf.chains[k + 1] \in 0 .. n - 1 /\ rank[elf.chains[k + 1]] < rank[k]
    BY <1>3, <1>5 DEF IsRank
  <1>7. Bad(elf.chains[k + 1])
    BY <1>3, <1>5
  <1>8. rank[elf.chains[k + 1]] \in bad
    BY <1>6, <1>7
  <1>9. r <= rank[elf.chains[k + 1]]
    BY <1>2, <1>8
  <1> QED BY <1>3, <1>6, <1>9 DEF IsRank

\* The walk from the bucket of a name finds a symbol of that name, if there is one.
LEMMA SymbolFound ==
  ASSUME NEW elf, IsHashTable(elf), NEW name, Hash[name] \in Nat, name # elf.symtab[1]
  PROVE  /\ SymbolIndex(elf, name) = NULL =>
              \A k \in 1 .. Len(elf.symtab) : elf.symtab[k] # name
         /\ SymbolIndex(elf, name) # NULL =>
              /\ SymbolIndex(elf, name) + 1 \in 1 .. Len(elf.symtab)
              /\ elf.symtab[SymbolIndex(elf, name) + 1] = name
  <1> DEFINE n == Len(elf.chains)
             b == elf.buckets[HashOf(elf, name)]
             First(k) == elf.buckets[HashOf(elf, elf.symtab[k + 1])]
             W(k) == WalkChain(elf, name, k)
  <1>1. /\ n \in Nat \ {0} /\ Len(elf.symtab) = n /\ Len(elf.buckets) \in Nat \ {0}
        /\ \A c \in 1 .. Len(elf.buckets) : elf.buckets[c] \in 0 .. n - 1
        /\ \A k \in 1 .. n : elf.chains[k] \in 0 .. n - 1
        /\ \A k \in 1 .. n - 1 :
             k = First(k) \/ \E j \in 1 .. n - 1 : elf.chains[j + 1] = k /\ First(j) = First(k)
    BY DEF IsHashTable
  <1>2. PICK rank : IsRank(elf, rank)
    BY DEF IsHashTable, IsRank
  <1>3. b \in 0 .. n - 1
    <2>1. PICK h \in Nat, l \in Nat \ {0} : h = Hash[name] /\ l = Len(elf.buckets)
      BY <1>1
    <2>2. (h % l) + 1 \in 1 .. l
      BY <2>1
    <2> QED BY <1>1, <2>1, <2>2 DEF HashOf
  <1>4. SymbolIndex(elf, name) = W(b)
    BY DEF SymbolIndex
  <1>5. \A k \in 0 .. n - 1 :
          W(k) = IF elf.symtab[k + 1] = name THEN k
                 ELSE IF elf.chains[k + 1] = 0 THEN NULL ELSE W(elf.chains[k + 1])
    BY <1>1, <1>2, WalkChainDef
  <1>6. ASSUME W(b) # NULL
        PROVE  W(b) + 1 \in 1 .. Len(elf.symtab) /\ elf.symtab[W(b) + 1] = name
    <2>1. W(b) \in 0 .. n - 1 /\ elf.symtab[W(b) + 1] = name
      BY <1>1, <1>2, <1>3, <1>6, WalkSound
    <2> HIDE DEF W
    <2> QED BY <1>1, <2>1
  <1>7. ASSUME NEW m \in 1 .. Len(elf.symtab), elf.symtab[m] = name PROVE W(b) # NULL
    <2> DEFINE on == {j \in 1 .. n - 1 : First(j) = b /\ W(j) # NULL}
               far == {n - rank[j] : j \in on}
    <2>1. PICK k \in 1 .. n - 1 : m = k + 1
      <3>1. m # 1
        BY <1>7
      <3> QED BY <1>1, <3>1
    <2>2. k \in on
      <3>1. First(k) = b
        BY <1>7, <2>1
      <3>2. W(k) = k /\ k # NULL
        BY <1>5, <1>7, <2>1 DEF NULL
      <3> QED BY <3>1, <3>2
    <2>a. \A j \in 1 .. n - 1 : rank[j] \in 0 .. n - 1
      <3>1. n \in Nat \ {0} /\ rank \in [0 .. n - 1 -> 0 .. n - 1]
        BY <1>1, <1>2 DEF IsRank
      <3> HIDE DEF n
      <3> QED BY <3>1
    <2>b. \A j \in on : j \in 1 .. n - 1
      OBVIOUS
    <2>3. far \in SUBSET Nat /\ far # {}
      <3> HIDE DEF on
      <3>1. \A j \in on : n - rank[j] \in Nat
        BY <1>1, <2>a, <2>b
      <3> QED BY <2>2, <3>1
    <2>4. PICK r \in far : \A q \in far : r <= q
      BY <2>3, LeastExists
    <2>5. PICK j \in on : r = n - rank[j]
      BY <2>4
    <2>6. CASE j = First(j)
      BY <2>5, <2>6
    <2>7. CASE j # First(j)
      <3>1. PICK i \in 1 .. n - 1 : elf.chains[i + 1] = j /\ First(i) = First(j)
        BY <1>1, <2>5, <2>7
      <3>2. W(i) # NULL
        <4>1. i \in 0 .. n - 1 /\ i # NULL /\ j # 0
          BY <1>1, <2>5 DEF NULL
        <4>2. W(i) = i \/ W(i) = W(j)
          BY <1>5, <3>1, <4>1
        <4> QED BY <2>5, <4>1, <4>2
      <3>3. i \in on
        BY <2>5, <3>1, <3>2
      <3>4. r <= n - rank[i]
        BY <2>4, <3>3
      <3>5. rank[j] < rank[i]
        <4>1. i \in 0 .. n - 1 /\ elf.chains[i + 1] # 0
          BY <1>1, <2>5, <3>1
        <4> QED BY <1>2, <3>1, <4>1 DEF IsRank
      <3>6. rank[i] \in Int /\ rank[j] \in Int /\ n \in Int
        <4>1. n \in Nat \ {0} /\ j \in 1 .. n - 1
          BY <1>1, <2>b, <2>5
        <4> HIDE DEF n, on
        <4> QED BY <2>a, <3>1, <4>1
      <3> QED BY <2>5, <3>4, <3>5, <3>6
    <2> QED BY <2>6, <2>7
  <1> QED BY <1>4, <1>6, <1>7

-----------------------------------------------------------------------------
(* The size of a module *)

\* What a segment makes of the minimum and the maximum so far.
ExtentNext(s, e) ==
  IF s.vaddr < e.lo THEN [e EXCEPT !.lo = s.vaddr]
  ELSE IF s.vaddr + s.memsz > e.hi THEN [e EXCEPT !.hi = s.vaddr + s.memsz]
  ELSE e

Extents(segs, t, n) ==
  t = [i \in 0 .. n |-> IF i = 0 THEN [lo |-> 2^WIDTH - 1, hi |-> 0]
                        ELSE ExtentNext(segs[i], t[i - 1])]

\* The loop of mapLoadableSegments() can be followed to its end.
LEMMA ExtentsExist ==
  ASSUME NEW segs
  PROVE  \A n \in Nat : \E t : Extents(segs, t, n)
  <1> DEFINE start == [lo |-> 2^WIDTH - 1, hi |-> 0]
             bad == {n \in Nat : ~ \E t : Extents(segs, t, n)}
  <1> SUFFICES ASSUME bad # {} PROVE FALSE
    OBVIOUS
  <1>1. bad \in SUBSET Nat
    OBVIOUS
  <1> HIDE DEF bad
  <1>2. PICK n \in bad : \A k \in bad : n <= k
    BY <1>1, LeastExists
  <1>3. n \in Nat /\ ~ \E t : Extents(segs, t, n)
    BY <1>2 DEF bad
  <1>4. CASE n = 0
    <2> HIDE DEF start
    <2> DEFINE t == [i \in 0 .. 0 |-> start]
    <2>1. \A i \in 0 .. 0 : i = 0
      OBVIOUS
    <2>2. t = [i \in 0 .. 0 |-> IF i = 0 THEN start ELSE ExtentNext(segs[i], t[i - 1])]
      <3>1. \A i \in 0 .. 0 : (IF i = 0 THEN start ELSE ExtentNext(segs[i], t[i - 1])) = start
        BY <2>1
      <3> QED BY <3>1
    <2>3. Extents(segs, t, 0)
      BY <2>2 DEF Extents, start
    <2> QED BY <1>3, <1>4, <2>3
  <1>5. CASE n > 0
    <2>1. n - 1 \in Nat /\ n - 1 \notin bad
      BY <1>2, <1>3, <1>5
    <2>2. PICK s : Extents(segs, s, n - 1)
      BY <2>1 DEF bad
    <2> HIDE DEF start
    <2> DEFINE New(f, i) == IF i = 0 THEN start ELSE ExtentNext(segs[i], f[i - 1])
               t == [i \in 0 .. n |-> New(s, i)]
    <2>3. s = [i \in 0 .. n - 1 |-> New(s, i)]
      BY <2>2 DEF Extents, start
    <2>4. \A i \in 0 .. n - 1 : i \in 0 .. n /\ t[i] = s[i]
      <3>1. \A i \in 0 .. n - 1 : i \in 0 .. n
        BY <1>3
      <3> HIDE DEF New
      <3> QED BY <2>3, <3>1
    <2>5. ASSUME NEW i \in 0 .. n PROVE New(s, i) = New(t, i)
      <3>1. CASE i = 0
        BY <3>1
      <3>2. CASE i > 0
        <4>1. i - 1 \in 0 .. n - 1
          BY <1>3, <3>2
        <4>2. t[i - 1] = s[i - 1]
          BY <2>4, <4>1
        <4> HIDE DEF t
        <4> QED BY <4>2
      <3> QED BY <1>3, <3>1, <3>2
    <2>6. t = [i \in 0 .. n |-> New(t, i)]
      <3>1. \A i \in 0 .. n : t[i] = New(s, i)
        OBVIOUS
      <3>2. t = [i \in 0 .. n |-> t[i]]
        OBVIOUS
      <3> HIDE DEF t, New
      <3> QED BY <2>5, <3>1, <3>2
    <2>7. Extents(segs, t, n)
      BY <2>6 DEF Extents, start
    <2> QED BY <1>3, <2>7
  <1> QED BY <1>3, <1>4, <1>5

\* What the loop computes is what it has after the last segment.
LEMMA ExtentDef ==
  ASSUME NEW segs, Len(segs) \in Nat
  PROVE  \E t : Extents(segs, t, Len(segs)) /\ Extent(segs) = t[Len(segs)]
  <1> DEFINE to[i \in 0 .. Len(segs)] ==
        IF i = 0 THEN [lo |-> 2^WIDTH - 1, hi |-> 0]
        ELSE IF segs[i].vaddr < to[i - 1].lo
        THEN [to[i - 1] EXCEPT !.lo = segs[i].vaddr]
        ELSE IF segs[i].vaddr + segs[i].memsz > to[i - 1].hi
        THEN [to[i - 1] EXCEPT !.hi = segs[i].vaddr + segs[i].memsz]
        ELSE to[i - 1]
  <1>1. Extent(segs) = to[Len(segs)]
    BY DEF Extent
  <1>2. to = CHOOSE f : Extents(segs, f, Len(segs))
    BY DEF to, Extents, ExtentNext
  <1>3. \E f : Extents(segs, f, Len(segs))
    BY ExtentsExist
  <1> HIDE DEF to
  <1> QED BY <1>1, <1>2, <1>3

\* A library begins at 0, and no segment ends behind its end.
LEMMA LibraryExtent ==
  ASSUME NEW e, WellFormed(e), IsLibrary(e.elf)
  PROVE  \E h \in 0 .. 2^WIDTH - 1 :
           /\ Extent(e.elf.segs) = [lo |-> 0, hi |-> h]
           /\ \A i \in 1 .. Len(e.elf.segs) :
                e.elf.segs[i].vaddr + e.elf.segs[i].memsz <= h
  <1> DEFINE segs == e.elf.segs
             n == Len(segs)
             End(i) == segs[i].vaddr + segs[i].memsz
  <1>1. PICK W \in Nat \ {0, 1} : W = 2^WIDTH
    BY SizesAssumption
  <1>2. /\ n \in Nat /\ n > 1 /\ segs[1].vaddr = 0
        /\ \E i \in 2 .. n : segs[1].memsz <= End(i)
        /\ \A i \in 1 .. n : segs[i].vaddr \in Nat /\ segs[i].memsz \in Nat /\ End(i) < W
    BY <1>1 DEF WellFormed, IsLibrary
  <1>3. PICK t : Extents(segs, t, n) /\ Extent(segs) = t[n]
    BY <1>2, ExtentDef
  <1>4. /\ t[0] = [lo |-> W - 1, hi |-> 0]
        /\ \A i \in 1 .. n : t[i] = ExtentNext(segs[i], t[i - 1])
    <2>1. \A i \in 0 .. n : t[i] = IF i = 0 THEN [lo |-> W - 1, hi |-> 0]
                                   ELSE ExtentNext(segs[i], t[i - 1])
      BY <1>1, <1>3 DEF Extents
    <2> HIDE DEF segs, n
    <2> QED BY <1>2, <2>1
  <1> HIDE DEF segs, n, End
  <1> DEFINE Good(i) == \E h \in 0 .. W - 1 : /\ t[i] = [lo |-> 0, hi |-> h]
                                              /\ \A j \in 2 .. i : End(j) <= h
             bad == {i \in 1 .. n : ~ Good(i)}
  <1>5. bad = {}
    <2> SUFFICES ASSUME bad # {} PROVE FALSE
      OBVIOUS
    <2>1. PICK i \in bad : \A k \in bad : i <= k
      <3>1. bad \in SUBSET Nat
        OBVIOUS
      <3> HIDE DEF bad
      <3> QED BY <3>1, LeastExists
    <2>2. i \in 1 .. n /\ ~ Good(i)
      BY <2>1
    <2>3. CASE i = 1
      <3>1. t[1] = ExtentNext(segs[1], [lo |-> W - 1, hi |-> 0])
        BY <1>2, <1>4
      <3>2. segs[1].vaddr < [lo |-> W - 1, hi |-> 0].lo
        BY <1>1, <1>2
      <3>3. t[1] = [lo |-> 0, hi |-> 0]
        BY <1>2, <3>1, <3>2 DEF ExtentNext
      <3>4. Good(1)
        BY <1>1, <3>3
      <3> QED BY <2>2, <2>3, <3>4
    <2>4. CASE i > 1
      <3>1. i - 1 \in 1 .. n /\ i - 1 \notin bad
        BY <1>2, <2>1, <2>2, <2>4
      <3>2. PICK h \in 0 .. W - 1 : /\ t[i - 1] = [lo |-> 0, hi |-> h]
                                    /\ \A j \in 2 .. i - 1 : End(j) <= h
        BY <3>1
      <3>3. t[i] = ExtentNext(segs[i], [lo |-> 0, hi |-> h])
        BY <1>4, <2>2, <3>2
      <3>4. segs[i].vaddr \in Nat /\ End(i) \in Nat /\ End(i) < W
        BY <1>2, <2>2 DEF End
      <3>5. \A j \in 2 .. i : j \in 2 .. i - 1 \/ j = i
        BY <1>2, <2>2
      <3>6. CASE End(i) > h
        <4>1. t[i] = [lo |-> 0, hi |-> End(i)]
          BY <3>3, <3>4, <3>6 DEF ExtentNext, End
        <4>2. End(i) \in 0 .. W - 1
          BY <1>1, <3>4
        <4>3. ASSUME NEW j \in 2 .. i PROVE End(j) <= End(i)
          <5>1. CASE j = i
            BY <3>4, <5>1
          <5>2. CASE j \in 2 .. i - 1
            <6>1. j \in 1 .. n
              BY <1>2, <2>2, <5>2
            <6>2. End(j) \in Nat
              BY <1>2, <6>1 DEF End
            <6>3. End(j) <= h
              BY <3>2, <5>2
            <6> QED BY <3>4, <3>6, <6>2, <6>3
          <5> QED BY <3>5, <5>1, <5>2
        <4> QED BY <2>2, <4>1, <4>2, <4>3
      <3>7. CASE ~ (End(i) > h)
        <4>1. t[i] = [lo |-> 0, hi |-> h]
          BY <3>3, <3>4, <3>7 DEF ExtentNext, End
        <4>2. \A j \in 2 .. i : End(j) <= h
          BY <3>2, <3>4, <3>5, <3>7
        <4> QED BY <2>2, <4>1, <4>2
      <3> QED BY <3>6, <3>7
    <2> QED BY <1>2, <2>2, <2>3, <2>4
  <1>6. PICK h \in 0 .. W - 1 : t[n] = [lo |-> 0, hi |-> h] /\ \A j \in 2 .. n : End(j) <= h
    <2>1. n \in 1 .. n /\ n \notin bad
      BY <1>2, <1>5
    <2> QED BY <2>1
  <1>7. PICK k \in 2 .. n : segs[1].memsz <= End(k)
    BY <1>2
  <1>8. End(1) <= h
    <2>1. End(1) = segs[1].memsz /\ segs[1].memsz \in Nat /\ End(k) \in Nat
      BY <1>2, <1>7 DEF End
    <2> QED BY <1>6, <1>7, <2>1
  <1>9. \A i \in 1 .. n : End(i) <= h
    BY <1>2, <1>6, <1>8
  <1> QED BY <1>1, <1>3, <1>6, <1>9 DEF segs, n, End

\* Pages hold what they are for.
LEMMA PagesHold ==
  ASSUME NEW b \in Nat
  PROVE  Pages(b) \in Nat /\ Pages(b) * PAGE \in Nat /\ b <= Pages(b) * PAGE
  <1>1. PICK P \in Nat \ {0} : P = PAGE
    BY SizesAssumption
  <1>2. PICK v \in Nat : v = b + P - 1
    BY <1>1
  <1>3. v \div P \in Nat /\ v % P \in 0 .. P - 1 /\ v = (v \div P) * P + (v % P)
    BY <1>1, <1>2
  <1>4. PICK q \in Nat, r \in 0 .. P - 1 : q = v \div P /\ v = q * P + r
    BY <1>3
  <1>5. q * P \in Nat
    BY <1>1, <1>4
  <1>6. Pages(b) = q
    BY <1>1, <1>2, <1>4 DEF Pages
  <1>7. b <= q * P
    BY <1>1, <1>2, <1>4, <1>5
  <1> QED BY <1>1, <1>5, <1>6, <1>7

\* The memory of a library holds its segments.
LEMMA LibraryFits ==
  ASSUME NEW e, WellFormed(e), IsLibrary(e.elf)
  PROVE  /\ ModulePages(e.elf.segs) * PAGE \in Nat
         /\ \A i \in 1 .. Len(e.elf.segs) :
              e.elf.segs[i].vaddr + e.elf.segs[i].memsz <= ModulePages(e.elf.segs) * PAGE
  <1> DEFINE segs == e.elf.segs
  <1>1. PICK h \in 0 .. 2^WIDTH - 1 :
           /\ Extent(segs) = [lo |-> 0, hi |-> h]
           /\ \A i \in 1 .. Len(segs) : segs[i].vaddr + segs[i].memsz <= h
    BY LibraryExtent
  <1>2. PICK W \in Nat \ {0, 1} : W = 2^WIDTH
    BY SizesAssumption
  <1>3. (h - 0) % W = h
    <2>1. PICK x \in Nat : x = h /\ x < W
      BY <1>1, <1>2
    <2>2. x % W = x
      BY <1>2, <2>1
    <2>3. h - 0 = x
      BY <2>1
    <2> QED BY <2>1, <2>2, <2>3
  <1>4. ModulePages(segs) = Pages(h) + 1
    BY <1>1, <1>2, <1>3 DEF ModulePages
  <1>5. PICK p \in Nat : p = Pages(h) /\ p * PAGE \in Nat /\ h <= p * PAGE
    BY <1>1, <1>2, PagesHold
  <1>6. PICK P \in Nat : P = PAGE
    BY SizesAssumption
  <1>7. (p + 1) * P = p * P + P
    BY <1>5, <1>6
  <1>8. ModulePages(segs) * PAGE \in Nat /\ h <= ModulePages(segs) * PAGE
    BY <1>1, <1>4, <1>5, <1>6, <1>7
  <1>9. PICK m \in Nat : m = ModulePages(segs) * PAGE /\ h <= m
    BY <1>8
  <1>10. \A i \in 1 .. Len(segs) : segs[i].vaddr + segs[i].memsz <= m
    <2>1. \A i \in 1 .. Len(segs) : segs[i].vaddr \in Nat /\ segs[i].memsz \in Nat
      BY DEF WellFormed
    <2> HIDE DEF segs
    <2> QED BY <1>1, <1>2, <1>9, <2>1
  <1> QED BY <1>9, <1>10

\* A header that was never read gets pages, too.
LEMMA NoModuleFits == ModulePages(NoElf.segs) * PAGE \in Nat
  <1>1. NoElf.segs = <<>> /\ Len(<<>>) = 0
    BY DEF NoElf
  <1>2. PICK W \in Nat \ {0, 1} : W = 2^WIDTH
    BY SizesAssumption
  <1>3. Extent(<<>>) = [lo |-> W - 1, hi |-> 0]
    <2>1. PICK t : Extents(<<>>, t, 0) /\ Extent(<<>>) = t[0]
      <3>1. Len(<<>>) \in Nat
        BY <1>1
      <3>2. PICK t : Extents(<<>>, t, Len(<<>>)) /\ Extent(<<>>) = t[Len(<<>>)]
        BY <3>1, ExtentDef
      <3> QED BY <1>1, <3>2
    <2> QED BY <1>2, <2>1 DEF Extents
  <1>4. PICK x \in Nat : x = (0 - (W - 1)) % W
    BY <1>2
  <1>5. ModulePages(<<>>) = Pages(x) + 1
    BY <1>2, <1>3, <1>4 DEF ModulePages
  <1>6. Pages(x) \in Nat
    BY PagesHold
  <1>7. PICK P \in Nat, p \in Nat : P = PAGE /\ p = Pages(x)
    BY <1>6, SizesAssumption
  <1>8. (p + 1) * P \in Nat
    OBVIOUS
  <1> QED BY <1>1, <1>5, <1>7, <1>8

-----------------------------------------------------------------------------
(* Entries of the archive *)

\* open() finds the first entry with the name.
LEMMA FoundFirst ==
  ASSUME disk \in Disks, NEW name, FindFile(name) # NULL
  PROVE  IsFound(disk, name, FindFile(name))
  <1> DEFINE found == {k \in 1 .. Len(disk) : Matches(name, k)}
             Is(k) == Matches(name, k) /\ \A j \in 1 .. k - 1 : ~ Matches(name, j)
  <1>1. Len(disk) \in Nat
    BY DisksAssumption
  <1>2. found # {} /\ found \in SUBSET Nat
    BY <1>1 DEF FindFile
  <1>3. PICK i \in found : \A j \in found : i <= j
    BY <1>2, LeastExists
  <1>4. i \in 1 .. Len(disk) /\ Is(i)
    <2>1. ASSUME NEW j \in 1 .. i - 1, Matches(name, j) PROVE FALSE
      BY <1>1, <1>3, <2>1
    <2> QED BY <1>3, <2>1
  <1>5. FindFile(name) = CHOOSE k \in 1 .. Len(disk) : Is(k)
    BY <1>2 DEF FindFile
  <1>6. FindFile(name) \in 1 .. Len(disk) /\ Is(FindFile(name))
    <2> HIDE DEF Is
    <2> QED BY <1>4, <1>5
  <1> QED BY <1>6 DEF IsFound, Matches

\* Headers lie behind one another.
LEMMA HeadersApart ==
  ASSUME disk \in Disks, NEW j \in 1 .. Len(disk), NEW k \in 1 .. Len(disk), j < k
  PROVE  HeaderSector(j) < HeaderSector(k)
  <1>1. Len(disk) \in Nat /\ \A i \in 1 .. Len(disk) : disk[i].size \in Nat
    BY DisksAssumption
  <1>2. \A i \in 1 .. Len(disk) : HeaderSector(i) \in Nat
    BY <1>1, HeaderSectorType
  <1>3. \A i \in 2 .. Len(disk) : HeaderSector(i - 1) < HeaderSector(i)
    <2>1. SUFFICES ASSUME NEW i \in 2 .. Len(disk) PROVE HeaderSector(i - 1) < HeaderSector(i)
      OBVIOUS
    <2>2. i - 1 \in 1 .. Len(disk) /\ i \in 1 .. Len(disk)
      BY <1>1
    <2>3. HeaderSector(i) = HeaderSector(i - 1) + EntrySectors(disk[i - 1])
      BY <1>1, HeaderSectorNext
    <2>4. EntrySectors(disk[i - 1]) \in Nat /\ EntrySectors(disk[i - 1]) > 0
      <3>1. PICK n \in Nat : n = disk[i - 1].size
        BY <1>1, <2>2
      <3>2. (n + SECTOR - 1) \div SECTOR \in Nat
        BY SectorAssumption
      <3>3. EntrySectors(disk[i - 1]) = 1 + ((n + SECTOR - 1) \div SECTOR)
        BY <3>1 DEF EntrySectors
      <3> QED BY <3>2, <3>3
    <2> QED BY <1>2, <2>2, <2>3, <2>4
  <1> DEFINE bad == {i \in 1 .. Len(disk) : j < i /\ ~ (HeaderSector(j) < HeaderSector(i))}
  <1> SUFFICES ASSUME bad # {} PROVE FALSE
    OBVIOUS
  <1>4. bad \in SUBSET Nat
    BY <1>1
  <1> HIDE DEF bad
  <1>5. PICK i \in bad : \A m \in bad : i <= m
    BY <1>4, LeastExists
  <1>6. i \in 1 .. Len(disk) /\ j < i /\ ~ (HeaderSector(j) < HeaderSector(i))
    BY <1>5 DEF bad
  <1>7. i \in 2 .. Len(disk) /\ i - 1 \in 1 .. Len(disk)
    BY <1>1, <1>6
  <1>8. HeaderSector(i - 1) < HeaderSector(i)
    BY <1>3, <1>7
  <1>9. CASE j = i - 1
    BY <1>6, <1>8, <1>9
  <1>10. CASE j < i - 1
    <2>1. i - 1 \notin bad
      BY <1>5, <1>7
    <2>2. HeaderSector(j) < HeaderSector(i - 1)
      BY <1>7, <1>10, <2>1 DEF bad
    <2> QED BY <1>2, <1>6, <1>7, <1>8, <2>2
  <1> QED BY <1>1, <1>6, <1>9, <1>10

\* The header of a file tells which entry it is.
LEMMA EntryOfFile ==
  ASSUME disk \in Disks, NEW k \in 1 .. Len(disk), NEW f,
         files[f].header_sector = HeaderSector(k)
  PROVE  Entry(f) = k
  <1>1. Len(disk) \in Nat /\ \A i \in 1 .. Len(disk) : disk[i].size \in Nat
    BY DisksAssumption
  <1>2. \A i \in 1 .. Len(disk) : HeaderSector(i) \in Nat
    BY <1>1, HeaderSectorType
  <1>3. ASSUME NEW i \in 1 .. Len(disk), HeaderSector(i) = HeaderSector(k) PROVE i = k
    <2>1. CASE i < k
      BY <1>2, <1>3, <2>1, HeadersApart
    <2>2. CASE k < i
      BY <1>2, <1>3, <2>2, HeadersApart
    <2> QED BY <1>1, <2>1, <2>2
  <1> QED BY <1>3 DEF Entry

-----------------------------------------------------------------------------
(* The program and its libraries *)

Elfs == {NoElf} \cup UNION {{d[k].elf : k \in 1 .. Len(d)} : d \in Disks}

Module(fh, elf, base, done) == [fh |-> fh, elf |-> elf, base |-> base, done |-> done]
Modules == {Module(fh, elf, base, done) :
              fh \in Handle \cup {NULL}, elf \in Elfs, base \in Nat, done \in BOOLEAN}

\* What assignments to the fields of a module make of it.
LEMMA ModuleFields ==
  ASSUME NEW fh, NEW elf, NEW base, NEW done, NEW m, m = Module(fh, elf, base, done), NEW x
  PROVE  /\ m.fh = fh /\ m.elf = elf /\ m.base = base /\ m.done = done
         /\ [m EXCEPT !.elf = x] = Module(fh, x, base, done)
         /\ [m EXCEPT !.base = x] = Module(fh, elf, x, done)
         /\ [m EXCEPT !.done = x] = Module(fh, elf, base, x)
  BY DEF Module

\* A module is what its fields are.
LEMMA ModuleIs ==
  ASSUME NEW m \in Modules
  PROVE  /\ m = Module(m.fh, m.elf, m.base, m.done)
         /\ m.fh \in Handle \cup {NULL} /\ m.elf \in Elfs /\ m.base \in Nat /\ m.done \in BOOLEAN
  <1>1. PICK fh \in Handle \cup {NULL}, elf \in Elfs, base \in Nat, done \in BOOLEAN :
          m = Module(fh, elf, base, done)
    BY DEF Modules
  <1>2. m.fh = fh /\ m.elf = elf /\ m.base = base /\ m.done = done
    BY <1>1, ModuleFields
  <1> QED BY <1>1, <1>2

\* Any such fields make a module.
LEMMA ModuleMade ==
  ASSUME NEW fh \in Handle \cup {NULL}, NEW elf \in Elfs, NEW base \in Nat, NEW done \in BOOLEAN
  PROVE  Module(fh, elf, base, done) \in Modules
  BY DEF Modules

\* A change of the last module changes no other.
LEMMA LastChanged ==
  ASSUME modules \in Seq(Modules), Len(modules) > 0, NEW m \in Modules,
         NEW ms, ms = [modules EXCEPT ![Len(modules)] = m]
  PROVE  /\ ms \in Seq(Modules) /\ Len(ms) = Len(modules) /\ ms[Len(modules)] = m
         /\ \A n \in 1 .. Len(modules) : n < Len(modules) => ms[n] = modules[n]
  <1>1. Len(modules) \in Nat /\ \A n \in 1 .. Len(modules) : modules[n] \in Modules
    OBVIOUS
  <1>2. ms \in Seq(Modules) /\ Len(ms) = Len(modules)
    BY <1>1
  <1>3. ms[Len(modules)] = m
    BY <1>1
  <1>4. \A n \in 1 .. Len(modules) : n < Len(modules) => ms[n] = modules[n]
    BY <1>1
  <1> QED BY <1>2, <1>3, <1>4

\* Another module is opened.
LEMMA LastAppended ==
  ASSUME modules \in Seq(Modules), NEW m \in Modules, NEW ms, ms = Append(modules, m)
  PROVE  /\ ms \in Seq(Modules) /\ Len(ms) = Len(modules) + 1 /\ ms[Len(modules) + 1] = m
         /\ \A n \in 1 .. Len(modules) : ms[n] = modules[n]
  OBVIOUS

\* The name by which module n was opened.
NameOf(n) == IF n = 1 THEN Program ELSE modules[1].elf.needed[n - 1]

\* The file of module n is entry k of the archive.
FromEntry(n, k) ==
  /\ IsFound(disk, NameOf(n), k)
  /\ FileOf(modules[n]) \in File
  /\ files[FileOf(modules[n])].header_sector = HeaderSector(k)
  /\ files[FileOf(modules[n])].size = disk[k].size

Early == {"tga_open", "tga_header", "tga_chunk", "open"}
After == {"map", "segment", "needed", "running", "trap"}

\* The headers of module n have been read.
HeadersRead(n) == n < Len(modules) \/ task.pc \in After

TaskOK ==
  /\ modules \in Seq(Modules)
  /\ task.seg \in Nat \ {0}
  /\ task.pc \in Early \cup {"header", "frozen"} \cup After
  /\ task.pc \in Early <=> modules = <<>>
  /\ task.pc \in {"header", "map"} => task.seg = 1

\* Modules are loaded one after the other, as the program needs them.
InTurn ==
  /\ \A n \in 1 .. Len(modules) :
       modules[n].done <=> (n < Len(modules) \/ task.pc \in {"needed", "running", "trap"})
  /\ \A n \in 2 .. Len(modules) : n - 1 <= Len(modules[1].elf.needed)

\* What has been read is what the archive has, or there is no such file.
HeadersRight ==
  \A n \in 1 .. Len(modules) : HeadersRead(n) =>
    \/ \E k \in 1 .. Len(disk) : FromEntry(n, k) /\ modules[n].elf = disk[k].elf
    \/ FileOf(modules[n]) = NULL /\ modules[n].elf = NoElf /\ ~ modules[n].done

\* Before its headers are read, the file is at its start.
AtStart ==
  task.pc = "header" =>
    /\ Current.elf = NoElf /\ Current.base = 0
    /\ \/ FileOf(Current) = NULL
       \/ /\ \E k \in 1 .. Len(disk) : FromEntry(Len(modules), k)
          /\ InPlace(files[FileOf(Current)]) /\ files[FileOf(Current)].cursor = 0

ModulesInv == TaskOK /\ InTurn /\ HeadersRight /\ AtStart

\* What the archive has in the place of the program or of a library is one.
LEMMA EntryKnown ==
  ASSUME FileInv, ModulesInv, NEW n \in 1 .. Len(modules), NEW k, FromEntry(n, k)
  PROVE  /\ k \in 1 .. Len(disk) /\ WellFormed(disk[k]) /\ disk[k].elf \in Elfs
         /\ HeaderSector(k) \in Nat /\ disk[k].size \in Nat \ {0}
         /\ n > 1 => /\ IsLibrary(disk[k].elf)
                     /\ disk[k].elf.symtab # <<>> =>
                          IsHashTable(disk[k].elf) /\ CanCall(modules[1].elf, disk[k].elf)
  <1>1. disk \in Disks
    BY DEF FileInv
  <1>2. k \in 1 .. Len(disk) /\ IsFound(disk, NameOf(n), k)
    BY DEF FromEntry, IsFound
  <1>3. Len(disk) \in Nat /\ \A i \in 1 .. Len(disk) : disk[i].size \in Nat \ {0}
    BY <1>1, DisksAssumption
  <1>4. disk[k].elf \in Elfs
    BY <1>1, <1>2 DEF Elfs
  <1>5. HeaderSector(k) \in Nat
    BY <1>2, <1>3, HeaderSectorType
  <1>6. modules \in Seq(Modules) /\ Len(modules) \in Nat
    BY DEF ModulesInv, TaskOK
  <1>7. CASE n = 1
    <2>1. IsFound(disk, Program, k)
      BY <1>2, <1>7 DEF NameOf
    <2>2. WellFormed(disk[k])
      BY <1>1, <1>2, <2>1, DisksAssumption
    <2>3. ~ (n > 1)
      BY <1>7
    <2> QED BY <1>2, <1>3, <1>4, <1>5, <2>2, <2>3
  <1>8. CASE n > 1
    <2>1. 1 \in 1 .. Len(modules) /\ 1 < Len(modules) /\ n \in 2 .. Len(modules)
      BY <1>6, <1>8
    <2>2. modules[1].done /\ HeadersRead(1)
      BY <2>1 DEF ModulesInv, InTurn, HeadersRead
    <2>3. PICK j \in 1 .. Len(disk) : FromEntry(1, j) /\ modules[1].elf = disk[j].elf
      BY <2>1, <2>2 DEF ModulesInv, HeadersRight
    <2>4. IsFound(disk, Program, j)
      BY <2>3 DEF FromEntry, NameOf
    <2>5. n - 1 \in 1 .. Len(disk[j].elf.needed)
      <3>1. n - 1 <= Len(disk[j].elf.needed)
        BY <2>1, <2>3 DEF ModulesInv, InTurn
      <3>2. n - 1 \in Nat /\ n - 1 >= 1 
        BY <2>1
      <3> QED BY <1>1, <2>3, <2>4, <3>1, <3>2, DisksAssumption
    <2>6. IsFound(disk, disk[j].elf.needed[n - 1], k)
      BY <1>2, <1>8, <2>3 DEF NameOf
    <2>7. /\ WellFormed(disk[k]) /\ IsLibrary(disk[k].elf)
          /\ disk[k].elf.symtab # <<>> =>
               IsHashTable(disk[k].elf) /\ CanCall(disk[j].elf, disk[k].elf)
      BY <1>1, <1>2, <2>3, <2>4, <2>5, <2>6, DisksAssumption
    <2> QED BY <1>2, <1>3, <1>4, <1>5, <2>3, <2>7
  <1> QED BY <1>6, <1>7, <1>8

\* A module keeps its open file.
LEMMA FileKept ==
  ASSUME FileInv, ModulesInv, FilesLast, NEW n \in 1 .. Len(modules),
         modules'[n].fh = modules[n].fh, FileOf(modules[n]) # NULL
  PROVE  /\ FileOf(modules[n])' = FileOf(modules[n]) /\ FileOf(modules[n]) \in File
         /\ SameFile(files[FileOf(modules[n])], files'[FileOf(modules[n])])
  <1> DEFINE h == modules[n].fh
  <1>1. modules[n] \in Modules
    BY DEF ModulesInv, TaskOK
  <1>2. h \in Handle /\ FileOf(modules[n]) = handles[h] /\ handles[h] # NULL
    BY <1>1, ModuleIs DEF FileOf
  <1>3. handles'[h] = handles[h] /\ handles[h] \in File /\ files[handles[h]].size > 0
    BY <1>2 DEF FileInv, FilesApart, FilesLast
  <1>4. h # NULL
    BY <1>2 DEF Handle, NULL
  <1>5. FileOf(modules[n])' = handles'[h]
    BY <1>4 DEF FileOf
  <1> QED BY <1>2, <1>3, <1>5 DEF FilesLast

\* It stays the same entry's.
LEMMA FromKept ==
  ASSUME FileInv, ModulesInv, FilesLast, disk' = disk, NEW n \in 1 .. Len(modules),
         modules'[n].fh = modules[n].fh, n = 1 \/ modules'[1].elf = modules[1].elf,
         NEW k, FromEntry(n, k)
  PROVE  FromEntry(n, k)'
  <1>1. FileOf(modules[n]) \in File /\ FileOf(modules[n]) # NULL
    BY DEF FromEntry, File, NULL
  <1>2. /\ FileOf(modules[n])' = FileOf(modules[n])
        /\ SameFile(files[FileOf(modules[n])], files'[FileOf(modules[n])])
    BY <1>1, FileKept
  <1>3. NameOf(n)' = NameOf(n)
    BY DEF NameOf
  <1>4. HeaderSector(k)' = HeaderSector(k)
    BY DEF HeaderSector, EntrySectors
  <1>5. IsFound(disk, NameOf(n), k)'
    BY <1>3 DEF FromEntry, IsFound
  <1> QED BY <1>1, <1>2, <1>4, <1>5 DEF FromEntry, SameFile

\* Nothing is loaded while the wallpaper is.
LEMMA EarlyStep ==
  ASSUME FileInv, ModulesInv, TgaOpen \/ TgaHeader \/ TgaChunk
  PROVE  ModulesInv' /\ modules = <<>> /\ modules' = <<>> /\ task'.pc \in Early
  <1>1. task.pc \in Early /\ modules = <<>> /\ modules' = modules
    BY DEF TgaOpen, TgaHeader, TgaChunk, Early, ModulesInv, TaskOK
  <1>2. task' = task \/ \E at \in Early : Goto(at)
    BY DEF TgaOpen, TgaHeader, TgaChunk, Early
  <1>3. task'.pc \in Early /\ task'.seg = task.seg
    <2>1. PICK pc, seg : task = [pc |-> pc, seg |-> seg]
      BY DEF FileInv, TaskIs
    <2>2. CASE task' = task
      BY <1>1, <2>2
    <2>3. ASSUME NEW at \in Early, Goto(at) PROVE task'.pc \in Early /\ task'.seg = task.seg
      <3>1. task' = [pc |-> at, seg |-> seg]
        BY <2>1, <2>3 DEF Goto
      <3> QED BY <2>1, <3>1
    <2> QED BY <1>2, <2>2, <2>3
  <1>4. Len(modules') = 0 /\ task'.pc # "header" /\ task'.pc # "map"
    BY <1>1, <1>3 DEF Early
  <1>5. TaskOK'
    BY <1>1, <1>3, <1>4 DEF TaskOK, ModulesInv
  <1>6. 1 .. 0 = {} /\ 2 .. 0 = {}
    OBVIOUS
  <1>7. InTurn' /\ HeadersRight' /\ AtStart'
    BY <1>4, <1>6 DEF InTurn, HeadersRight, AtStart
  <1> QED BY <1>1, <1>3, <1>5, <1>7 DEF ModulesInv

\* open() of the program or of a library.
LEMMA OpenStep ==
  ASSUME FileInv, ModulesInv, OpenProgram \/ NeededLib
  PROVE  /\ ModulesInv' /\ Len(modules') = Len(modules) + 1 /\ task'.pc = "header"
         /\ \A n \in 1 .. Len(modules) : modules'[n] = modules[n]
         /\ modules'[Len(modules) + 1].base = 0
         /\ modules # <<>> => task.pc = "needed"
  <1> DEFINE name == IF modules = <<>> THEN Program ELSE modules[1].elf.needed[Len(modules)]
             f == Opens(name)
             h == AllocHandle
             m == Module(h, NoElf, 0, FALSE)
  <1>0. modules \in Seq(Modules)
    BY DEF ModulesInv, TaskOK
  <1>1. PICK N \in Nat : N = Len(modules) /\ modules \in Seq(Modules)
    BY <1>0
  <1>2. /\ OpenModule(name) /\ task.pc \in {"open", "needed"}
        /\ modules # <<>> => task.pc = "needed" /\ N <= Len(modules[1].elf.needed)
    BY <1>1 DEF OpenProgram, NeededLib, ModulesInv, TaskOK, Early
  <1>3. FileInv' /\ FilesLast /\ disk' = disk
    BY LaterStep
  <1>4. /\ files' = IF f = NULL THEN files ELSE [files EXCEPT ![f] = Opened(name)]
        /\ handles' = IF h = NULL THEN handles ELSE [handles EXCEPT ![h] = f]
        /\ modules' = Append(modules, m)
        /\ task' = [pc |-> "header", seg |-> 1]
    BY <1>2 DEF OpenModule, Module
  <1>5. m \in Modules
    <2>1. NoElf \in Elfs
      BY DEF Elfs
    <2>2. h \in Handle \cup {NULL}
      BY AllocHandleFree
    <2> HIDE DEF h
    <2> QED BY <2>1, <2>2, ModuleMade
  <1> HIDE DEF m
  <1>6. /\ modules' \in Seq(Modules) /\ Len(modules') = N + 1 /\ modules'[N + 1] = m
        /\ \A n \in 1 .. N : modules'[n] = modules[n]
    BY <1>1, <1>4, <1>5, LastAppended
  <1>7. task'.pc = "header" /\ task'.seg = 1
    BY <1>4
  <1>8. TaskOK'
    <2>1. modules' # <<>>
      BY <1>1, <1>6
    <2> QED BY <1>6, <1>7, <2>1 DEF TaskOK, Early
  <1>9. m.fh = h /\ m.elf = NoElf /\ m.base = 0 /\ m.done = FALSE
    <2>1. m = Module(h, NoElf, 0, FALSE)
      BY DEF m
    <2> HIDE DEF h
    <2> QED BY <2>1 DEF Module
  <1>10. ASSUME NEW n \in 1 .. N
         PROVE  /\ modules[n].done /\ n < N + 1 /\ modules # <<>>
                /\ 1 \in 1 .. N /\ modules'[1] = modules[1] /\ modules'[n] = modules[n]
    <2>1. modules # <<>> /\ 1 \in 1 .. N /\ n < N + 1
      BY <1>1
    <2> QED BY <1>1, <1>2, <1>6, <2>1 DEF ModulesInv, InTurn
  <1>11. InTurn'
    <2>1. ASSUME NEW n \in 1 .. N + 1
          PROVE  modules'[n].done <=> (n < N + 1 \/ task'.pc \in {"needed", "running", "trap"})
      <3>1. CASE n \in 1 .. N
        BY <1>10, <3>1
      <3>2. CASE n = N + 1
        BY <1>1, <1>6, <1>7, <1>9, <3>2
      <3> QED BY <1>1, <3>1, <3>2
    <2>2. ASSUME NEW n \in 2 .. N + 1 PROVE n - 1 <= Len(modules'[1].elf.needed)
      <3>1. 1 \in 1 .. N
        BY <1>1, <2>2
      <3>2. modules # <<>> /\ modules'[1] = modules[1]
        BY <1>10, <3>1
      <3>3. CASE n \in 2 .. N
        BY <1>1, <3>2, <3>3 DEF ModulesInv, InTurn
      <3>4. CASE n = N + 1
        BY <1>1, <1>2, <3>2, <3>4
      <3> QED BY <1>1, <3>3, <3>4
    <2> QED BY <1>6, <2>1, <2>2 DEF InTurn
  <1>12. HeadersRight'
    <2> SUFFICES ASSUME NEW n \in 1 .. N + 1, HeadersRead(n)'
                 PROVE  \E k \in 1 .. Len(disk') : FromEntry(n, k)' /\ modules'[n].elf = disk'[k].elf
      BY <1>6 DEF HeadersRight
    <2>1. n \in 1 .. N
      BY <1>1, <1>6, <1>7 DEF HeadersRead, After
    <2>2. /\ modules[n].done /\ modules'[1] = modules[1] /\ modules'[n] = modules[n]
          /\ modules # <<>>
      BY <1>10, <2>1
    <2>3. HeadersRead(n)
      BY <1>2, <2>2 DEF HeadersRead, After
    <2>4. PICK k \in 1 .. Len(disk) : FromEntry(n, k) /\ modules[n].elf = disk[k].elf
      BY <1>1, <2>1, <2>2, <2>3 DEF ModulesInv, HeadersRight
    <2>5. FromEntry(n, k)'
      BY <1>1, <1>3, <2>1, <2>2, <2>4, FromKept
    <2> QED BY <1>3, <2>2, <2>4, <2>5
  <1>13. AtStart'
    <2>1. Current' = m
      BY <1>6 DEF Current
    <2>2. CASE h = NULL
      <3>1. FileOf(Current)' = NULL
        BY <1>9, <2>1, <2>2 DEF FileOf
      <3> QED BY <1>9, <2>1, <3>1 DEF AtStart
    <2>3. CASE h # NULL /\ f = NULL
      <3>1. handles'[h] = NULL
        BY <1>4, <2>3, AllocHandleFree DEF FileInv
      <3>2. FileOf(Current)' = NULL
        BY <1>9, <2>1, <3>1 DEF FileOf
      <3> QED BY <1>9, <2>1, <3>2 DEF AtStart
    <2>4. CASE h # NULL /\ f # NULL
      <3>0. PICK k : k = FindFile(name)
        OBVIOUS
      <3>1. k # NULL /\ f = AllocFile
        BY <2>4, <3>0 DEF Opens
      <3>2. f \in File /\ h \in Handle
        BY <2>4, <3>1, AllocFileFree, AllocHandleFree
      <3>3. handles'[h] = f /\ files'[f] = Opened(name)
        BY <1>4, <2>4, <3>2 DEF FileInv
      <3>4. FileOf(Current)' = f
        BY <1>9, <2>1, <2>4, <3>3 DEF FileOf
      <3>5. disk \in Disks
        BY DEF FileInv
      <3>6. /\ InPlace(Opened(name)) /\ Opened(name).cursor = 0 /\ k \in 1 .. Len(disk)
            /\ Opened(name).header_sector = HeaderSector(k) /\ Opened(name).size = disk[k].size
            /\ IsFound(disk, name, k)
        BY <3>0, <3>1, <3>5, OpenedInPlace, FoundFirst
      <3>7. name = NameOf(N + 1)'
        <4>1. CASE modules = <<>>
          BY <1>1, <4>1 DEF NameOf
        <4>2. CASE modules # <<>>
          <5>1. 1 \in 1 .. N
            BY <1>1, <4>2
          <5>2. modules'[1] = modules[1] /\ N + 1 # 1 /\ (N + 1) - 1 = N
            BY <1>1, <1>6, <5>1
          <5> QED BY <1>1, <4>2, <5>2 DEF NameOf
        <4> QED BY <4>1, <4>2
      <3> HIDE DEF f, h, name
      <3>8. HeaderSector(k)' = HeaderSector(k)
        BY <1>3 DEF HeaderSector, EntrySectors
      <3>9. IsFound(disk', NameOf(N + 1)', k)
        BY <1>3, <3>6, <3>7
      <3>10. FromEntry(N + 1, k)'
        <4>1. FileOf(modules[N + 1])' = f
          BY <1>6, <2>1, <3>4
        <4> QED BY <1>3, <3>2, <3>3, <3>6, <3>8, <3>9, <4>1 DEF FromEntry
      <3> QED BY <1>3, <1>6, <1>9, <2>1, <3>3, <3>4, <3>6, <3>10 DEF AtStart
    <2> QED BY <2>2, <2>3, <2>4
  <1>14. ModulesInv'
    BY <1>8, <1>11, <1>12, <1>13 DEF ModulesInv
  <1> QED BY <1>1, <1>2, <1>6, <1>7, <1>9, <1>14

\* seek() makes the sector of its offset current, wherever the cursor was.
LEMMA SoughtInPlace ==
  ASSUME NEW f, IsFile(f), f.header_sector \in Nat, f.size \in Nat,
         NEW offset \in Nat, offset < f.size
  PROVE  /\ InPlace(Seek(f, offset)) /\ Seek(f, offset).cursor = offset
         /\ SameFile(f, Seek(f, offset))
  <1>1. PICK hs, cs, c, sz : f = TarFile(hs, cs, c, sz)
    BY DEF IsFile
  <1>2. f.header_sector = hs /\ f.size = sz
    BY <1>1, Fields
  <1>3. hs \in Nat /\ sz \in Nat
    BY <1>2
  <1>4. CanSeek(f, offset)
    BY <1>2, <1>3 DEF CanSeek
  <1>5. Seek(f, offset) = Place(f, offset, hs + 1 + (offset \div SECTOR))
    BY <1>2, <1>4 DEF Seek, Place
  <1>6. @ = TarFile(hs, hs + 1 + (offset \div SECTOR), offset, sz)
    BY <1>1, Fields
  <1>7. InPlace(Seek(f, offset))
    BY <1>3, <1>5, <1>6 DEF InPlace
  <1>8. Seek(f, offset).cursor = offset
    BY <1>5, <1>6 DEF TarFile
  <1> QED BY <1>7, <1>8, SeekSameFile

\* A read within the file brings the bytes there.
LEMMA ReadThere ==
  ASSUME NEW f, InPlace(f), NEW len \in Nat, f.cursor \in Nat, f.size \in Nat,
         f.cursor + len <= f.size
  PROVE  Exact(f, f.cursor, len)
  <1>1. ~ PastEnd(f, len)
    BY DEF PastEnd
  <1>2. BytesRead(f, len) = [k \in 1 .. len |-> FileByte(f, f.cursor + k - 1)]
    BY ReadExact
  <1> QED BY <1>1, <1>2 DEF Exact, Arrives

\* The headers that are read are those of the file.
LEMMA HeadersStep ==
  ASSUME FileInv, ModulesInv, ReadHeaders
  PROVE  /\ ModulesInv' /\ Len(modules') = Len(modules)
         /\ \A n \in 1 .. Len(modules) : /\ modules'[n].base = modules[n].base
                                         /\ n < Len(modules) => modules'[n] = modules[n]
         /\ task.pc = "header" /\ task'.pc \in {"map", "frozen"}
  <1>0. modules \in Seq(Modules) /\ modules # <<>> /\ task.pc = "header"
    BY DEF ModulesInv, TaskOK, ReadHeaders, Early
  <1>1. PICK N \in Nat : N = Len(modules) /\ N > 0 /\ N \in 1 .. Len(modules)
    BY <1>0
  <1>2. FileInv' /\ FilesLast /\ disk' = disk
    BY LaterStep
  <1>3. PICK f : f = FileOf(Current) /\ f = FileOf(modules[N])
    BY <1>1 DEF Current
  <1>4. /\ modules[N] \in Modules /\ modules[N].elf = NoElf
        /\ ~ modules[N].done /\ Current = modules[N]
    BY <1>0, <1>1 DEF ModulesInv, AtStart, InTurn, Current
  <1>5. \A n \in 1 .. N : n < N => modules[n].done
    BY <1>1 DEF ModulesInv, InTurn
  <1>6. PICK seg : task = [pc |-> "header", seg |-> seg] /\ seg = 1
    <2>1. PICK pc, seg : task = [pc |-> pc, seg |-> seg]
      BY DEF FileInv, TaskIs
    <2>2. pc = "header" /\ seg = 1
      BY <1>0, <2>1 DEF ModulesInv, TaskOK
    <2> QED BY <2>1, <2>2
  \* The step, in short.
  <1>7. PICK e \in Elfs, at \in {"map", "frozen"} :
          /\ Goto(at) /\ modules' = [modules EXCEPT ![N] = [modules[N] EXCEPT !.elf = e]]
          /\ at = "map" =>
               \/ f = NULL /\ e = NoElf
               \/ \E k \in 1 .. Len(disk) : FromEntry(N, k) /\ e = disk[k].elf
    <2>1. CASE f = NULL
      <3>1. Goto("map") /\ modules' = modules
        BY <1>3, <2>1 DEF ReadHeaders
      <3>2. NoElf \in Elfs
        BY DEF Elfs
      <3>3. modules[N] = Module(modules[N].fh, NoElf, modules[N].base, modules[N].done)
        BY <1>4, ModuleIs
      <3>4. [modules[N] EXCEPT !.elf = NoElf] = modules[N]
        BY <3>3, ModuleFields
      <3>5. [modules EXCEPT ![N] = modules[N]] = modules
        BY <1>0, <1>1
      <3> QED BY <2>1, <3>1, <3>2, <3>4, <3>5
    <2>2. CASE f # NULL
      <3>1. PICK k \in 1 .. Len(disk) : FromEntry(N, k)
        BY <1>0, <1>1, <1>3, <2>2 DEF ModulesInv, AtStart
      <3>2. InPlace(files[f]) /\ files[f].cursor = 0
        BY <1>0, <1>3, <2>2 DEF ModulesInv, AtStart
      <3>3. /\ WellFormed(disk[k]) /\ disk[k].elf \in Elfs /\ disk \in Disks
            /\ HeaderSector(k) \in Nat /\ disk[k].size \in Nat \ {0}
        BY <1>1, <3>1, EntryKnown DEF FileInv
      <3>4. f \in File /\ files[f].header_sector = HeaderSector(k) /\ files[f].size = disk[k].size
        BY <1>3, <3>1 DEF FromEntry
      <3>5. Entry(f) = k
        BY <3>3, <3>4, EntryOfFile
      <3>6. Exact(files[f], 0, EHDR)
        <4>1. EHDR \in Nat /\ EHDR <= disk[k].size
          BY <3>3, SizesAssumption DEF WellFormed
        <4>2. files[f].cursor + EHDR <= files[f].size /\ files[f].cursor \in Nat
          BY <3>2, <3>3, <3>4, <4>1
        <4> QED BY <3>2, <3>3, <3>4, <4>1, <4>2, ReadThere
      <3> DEFINE elf == disk[k].elf
                 len == PHDR * Len(elf.segs)
                 first == Moved(files[f], EHDR)
                 sought == Seek(first, elf.phoff)
      <3>7. CASE ~ CanSeek(files[f], elf.phoff)
        <4>1. Goto("frozen") /\ modules' = modules
          BY <1>3, <2>2, <3>5, <3>6, <3>7 DEF ReadHeaders
        <4>2. NoElf \in Elfs
          BY DEF Elfs
        <4>3. modules[N] = Module(modules[N].fh, NoElf, modules[N].base, modules[N].done)
          BY <1>4, ModuleIs
        <4>4. [modules[N] EXCEPT !.elf = NoElf] = modules[N]
          BY <4>3, ModuleFields
        <4>5. [modules EXCEPT ![N] = modules[N]] = modules
          BY <1>0, <1>1
        <4> QED BY <4>1, <4>2, <4>4, <4>5
      <3>8. CASE CanSeek(files[f], elf.phoff)
        <4>1. /\ Goto("map")
              /\ modules' = [modules EXCEPT ![Len(modules)].elf =
                               IF Exact(sought, elf.phoff, len) THEN elf ELSE NoElf]
          BY <1>3, <2>2, <3>5, <3>6, <3>8 DEF ReadHeaders
        <4>2. /\ elf.phoff \in Nat /\ len \in Nat
              /\ elf.phoff < disk[k].size /\ elf.phoff + len <= disk[k].size
          <5>1. elf.phoff \in Nat /\ Len(elf.segs) \in Nat
            BY <3>3 DEF WellFormed
          <5>2. elf.phoff < disk[k].size
            BY <3>4, <3>8 DEF CanSeek
          <5>3. elf.phoff + len <= disk[k].size
            BY <3>3, <5>2 DEF WellFormed
          <5>4. len \in Nat
            <6>1. PICK a \in Nat, b \in Nat : a = PHDR /\ b = Len(elf.segs)
              BY <5>1, SizesAssumption
            <6>2. a * b \in Nat
              OBVIOUS
            <6> QED BY <6>1, <6>2
          <5> QED BY <5>1, <5>2, <5>3, <5>4
        <4>3. SameFile(files[f], first)
          <5>1. IsFile(files[f])
            BY <3>4 DEF FileInv
          <5> QED BY <5>1, ReadSameFile
        <4>4. /\ IsFile(first) /\ first.header_sector = HeaderSector(k)
              /\ first.size = disk[k].size
          <5> HIDE DEF first
          <5> QED BY <3>4, <4>3 DEF SameFile
        <4> HIDE DEF first, len, elf
        <4>5. /\ InPlace(sought) /\ sought.cursor = elf.phoff /\ SameFile(first, sought)
          BY <3>3, <4>2, <4>4, SoughtInPlace
        <4> HIDE DEF sought
        <4>6. sought.size = disk[k].size
          BY <4>4, <4>5 DEF SameFile
        <4>7. Exact(sought, elf.phoff, len)
          BY <3>3, <4>2, <4>5, <4>6, ReadThere
        <4>8. modules' = [modules EXCEPT ![N] = [modules[N] EXCEPT !.elf = elf]]
          BY <1>1, <4>1, <4>7
        <4> QED BY <3>1, <3>3, <4>1, <4>8 DEF elf
      <3> QED BY <3>7, <3>8
    <2> QED BY <2>1, <2>2
  <1>8. PICK m \in Modules : /\ m = [modules[N] EXCEPT !.elf = e] /\ m.elf = e
                             /\ m.fh = modules[N].fh /\ m.base = modules[N].base
                             /\ ~ m.done
    <2>1. /\ modules[N] = Module(modules[N].fh, NoElf, modules[N].base, modules[N].done)
          /\ modules[N].fh \in Handle \cup {NULL} /\ modules[N].base \in Nat
          /\ modules[N].done \in BOOLEAN
      BY <1>4, ModuleIs
    <2>2. [modules[N] EXCEPT !.elf = e] = Module(modules[N].fh, e, modules[N].base, modules[N].done)
      BY <2>1, ModuleFields
    <2>3. Module(modules[N].fh, e, modules[N].base, modules[N].done) \in Modules
      BY <2>1, ModuleMade
    <2> QED BY <1>4, <2>2, <2>3, ModuleFields
  <1>9. /\ modules' \in Seq(Modules) /\ Len(modules') = N /\ modules'[N] = m
        /\ \A n \in 1 .. N : n < N => modules'[n] = modules[n]
    BY <1>0, <1>1, <1>7, <1>8, LastChanged
  <1>10. task'.pc = at /\ task'.seg = 1
    BY <1>6, <1>7 DEF Goto
  <1>11. TaskOK'
    <2>1. modules' # <<>>
      BY <1>1, <1>9
    <2> QED BY <1>7, <1>9, <1>10, <2>1 DEF TaskOK, Early, After
  <1>12. InTurn'
    <2>1. ASSUME NEW n \in 1 .. N PROVE modules'[n].done <=> n < N
      <3>1. CASE n < N
        BY <1>5, <1>9, <3>1
      <3>2. CASE n = N
        <4>1. ~ modules'[n].done
          BY <1>8, <1>9, <3>2
        <4>2. ~ (n < N)
          BY <1>1, <3>2
        <4> QED BY <4>1, <4>2
      <3> QED BY <1>1, <3>1, <3>2
    <2>2. at \notin {"needed", "running", "trap"}
      BY <1>7
    <2>3. \A n \in 2 .. N : n - 1 <= Len(modules'[1].elf.needed)
      <3>1. ASSUME NEW n \in 2 .. N PROVE n - 1 <= Len(modules'[1].elf.needed)
        <4>1. 1 \in 1 .. N /\ 1 < N
          OBVIOUS
        <4> QED BY <1>1, <1>9, <4>1 DEF ModulesInv, InTurn
      <3> QED BY <3>1
    <2> QED BY <1>9, <1>10, <2>1, <2>2, <2>3 DEF InTurn
  <1>13. ASSUME NEW n \in 1 .. N, NEW k, FromEntry(n, k) PROVE FromEntry(n, k)'
    <2>1. modules'[n].fh = modules[n].fh
      <3>1. CASE n < N
        BY <1>9, <3>1
      <3>2. CASE n = N
        BY <1>8, <1>9, <3>2
      <3> QED BY <1>1, <3>1, <3>2
    <2>2. n = 1 \/ modules'[1].elf = modules[1].elf
      BY <1>1, <1>9
    <2> QED BY <1>1, <1>2, <1>13, <2>1, <2>2, FromKept
  <1>14. HeadersRight'
    <2> SUFFICES ASSUME NEW n \in 1 .. N, HeadersRead(n)'
                 PROVE  \/ \E k \in 1 .. Len(disk') : FromEntry(n, k)' /\ modules'[n].elf = disk'[k].elf
                        \/ /\ FileOf(modules[n])' = NULL /\ modules'[n].elf = NoElf
                           /\ ~ modules'[n].done
      BY <1>9 DEF HeadersRight
    <2>1. CASE n < N
      <3>1. HeadersRead(n) /\ modules[n].done /\ modules'[n] = modules[n]
        BY <1>1, <1>5, <1>9, <2>1 DEF HeadersRead
      <3>2. PICK k \in 1 .. Len(disk) : FromEntry(n, k) /\ modules[n].elf = disk[k].elf
        BY <1>1, <3>1 DEF ModulesInv, HeadersRight
      <3> QED BY <1>2, <1>13, <3>1, <3>2
    <2>2. CASE n = N
      <3>1. at = "map"
        BY <1>7, <1>9, <1>10, <2>2 DEF HeadersRead, After
      <3>2. CASE f = NULL /\ e = NoElf
        <4>1. handles' = handles
          BY DEF ReadHeaders
        <4>2. FileOf(modules[n])' = NULL
          BY <1>3, <1>8, <1>9, <2>2, <3>2, <4>1 DEF FileOf
        <4> QED BY <1>8, <1>9, <2>2, <3>2, <4>2
      <3>3. CASE \E k \in 1 .. Len(disk) : FromEntry(N, k) /\ e = disk[k].elf
        BY <1>2, <1>8, <1>9, <1>13, <2>2, <3>3
      <3> QED BY <1>7, <3>1, <3>2, <3>3
    <2> QED BY <1>1, <2>1, <2>2
  <1>15. AtStart'
    BY <1>7, <1>10 DEF AtStart
  <1>16. ModulesInv'
    BY <1>11, <1>12, <1>14, <1>15 DEF ModulesInv
  <1>17. ASSUME NEW n \in 1 .. N PROVE modules'[n].base = modules[n].base
    <2>1. CASE n < N
      BY <1>9, <2>1
    <2>2. CASE n = N
      BY <1>8, <1>9, <2>2
    <2> QED BY <1>1, <2>1, <2>2
  <1> QED BY <1>0, <1>1, <1>7, <1>9, <1>10, <1>16, <1>17

\* A module with a new address.
LEMMA ModuleBased ==
  ASSUME NEW m \in Modules, NEW base \in Nat, NEW x, x = [m EXCEPT !.base = base]
  PROVE  /\ x \in Modules /\ x.fh = m.fh /\ x.elf = m.elf /\ x.base = base /\ x.done = m.done
         /\ base = m.base => x = m
  <1>1. PICK fh \in Handle \cup {NULL}, elf \in Elfs, b \in Nat, d \in BOOLEAN :
          m = Module(fh, elf, b, d)
    BY DEF Modules
  <1>2. Module(fh, elf, base, d) \in Modules
    BY ModuleMade
  <1>3. /\ x = Module(fh, elf, base, d) /\ m.fh = fh /\ m.elf = elf /\ m.base = b /\ m.done = d
    BY <1>1, ModuleFields
  <1>4. x.fh = fh /\ x.elf = elf /\ x.base = base /\ x.done = d
    BY <1>3, ModuleFields
  <1> QED BY <1>1, <1>2, <1>3, <1>4

\* A module that is linked.
LEMMA ModuleLinked ==
  ASSUME NEW m \in Modules, NEW done \in BOOLEAN, NEW x, x = [m EXCEPT !.done = done]
  PROVE  /\ x \in Modules /\ x.fh = m.fh /\ x.elf = m.elf /\ x.base = m.base /\ x.done = done
         /\ done = m.done => x = m
  <1>1. PICK fh \in Handle \cup {NULL}, elf \in Elfs, b \in Nat, d \in BOOLEAN :
          m = Module(fh, elf, b, d)
    BY DEF Modules
  <1>2. Module(fh, elf, b, done) \in Modules
    BY ModuleMade
  <1>3. /\ x = Module(fh, elf, b, done) /\ m.fh = fh /\ m.elf = elf /\ m.base = b /\ m.done = d
    BY <1>1, ModuleFields
  <1>4. x.fh = fh /\ x.elf = elf /\ x.base = b /\ x.done = done
    BY <1>3, ModuleFields
  <1> QED BY <1>1, <1>2, <1>3, <1>4

\* A step on a module whose headers have been read.
LEMMA ModulesKept ==
  ASSUME FileInv, ModulesInv, FilesLast, disk' = disk, handles' = handles,
         NEW N \in Nat, N = Len(modules), N > 0, modules' \in Seq(Modules), Len(modules') = N,
         \A n \in 1 .. N : n < N => modules'[n] = modules[n],
         modules'[N].fh = modules[N].fh, modules'[N].elf = modules[N].elf,
         task.pc \in After, task'.pc \in After \cup {"frozen"}, task'.pc # "map",
         task'.seg \in Nat \ {0},
         modules'[N].done <=> task'.pc \in {"needed", "running", "trap"},
         modules'[N].done => modules[N].done \/ modules[N].elf # NoElf
  PROVE  ModulesInv'
  <1>1. ASSUME NEW n \in 1 .. N
        PROVE  /\ modules'[n].fh = modules[n].fh /\ modules'[n].elf = modules[n].elf
               /\ n < N => modules'[n].done /\ modules[n].done
    <2>1. CASE n < N
      <3>1. modules[n].done
        BY <2>1 DEF ModulesInv, InTurn
      <3> QED BY <2>1, <3>1
    <2>2. CASE n = N
      BY <2>2
    <2> QED BY <2>1, <2>2
  <1>2. 1 \in 1 .. N /\ modules'[1].elf = modules[1].elf
    BY <1>1
  <1>3. TaskOK'
    <2>1. modules' # <<>>
      OBVIOUS
    <2> QED BY <2>1 DEF TaskOK, Early, After
  <1>4. InTurn'
    <2>1. ASSUME NEW n \in 1 .. N
          PROVE  modules'[n].done <=> (n < N \/ task'.pc \in {"needed", "running", "trap"})
      <3>1. CASE n < N
        BY <1>1, <3>1
      <3>2. CASE n = N
        BY <3>2
      <3> QED BY <3>1, <3>2
    <2>2. \A n \in 2 .. N : n - 1 <= Len(modules'[1].elf.needed)
      BY <1>2 DEF ModulesInv, InTurn
    <2> QED BY <2>1, <2>2 DEF InTurn
  <1>5. HeadersRight'
    <2> SUFFICES ASSUME NEW n \in 1 .. N, HeadersRead(n)'
                 PROVE  \/ \E k \in 1 .. Len(disk') : FromEntry(n, k)' /\ modules'[n].elf = disk'[k].elf
                        \/ /\ FileOf(modules[n])' = NULL /\ modules'[n].elf = NoElf
                           /\ ~ modules'[n].done
      BY DEF HeadersRight
    <2>1. HeadersRead(n) /\ n \in 1 .. Len(modules)
      BY DEF HeadersRead
    <2>2. ASSUME NEW k \in 1 .. Len(disk), FromEntry(n, k), modules[n].elf = disk[k].elf
          PROVE  FromEntry(n, k)' /\ modules'[n].elf = disk'[k].elf
      <3>1. FromEntry(n, k)'
        BY <1>1, <1>2, <2>1, <2>2, FromKept
      <3> QED BY <1>1, <2>2, <3>1
    <2>3. CASE FileOf(modules[n]) = NULL /\ modules[n].elf = NoElf /\ ~ modules[n].done
      <3>1. n = N
        BY <1>1, <2>3
      <3>2. FileOf(modules[n])' = NULL
        BY <1>1, <2>3 DEF FileOf
      <3> QED BY <1>1, <2>3, <3>1, <3>2
    <2> QED BY <2>1, <2>2, <2>3 DEF ModulesInv, HeadersRight
  <1>6. AtStart'
    BY DEF AtStart, After
  <1> QED BY <1>3, <1>4, <1>5, <1>6 DEF ModulesInv

\* mapLoadableSegments() gives a library its address.
LEMMA MapStep ==
  ASSUME FileInv, ModulesInv, MapModule, NEW N \in Nat, N = Len(modules),
         brk \in Nat
  PROVE  /\ ModulesInv' /\ N > 0 /\ Len(modules') = N
         /\ \A n \in 1 .. N : n < N => modules'[n] = modules[n]
         /\ modules'[N].elf = modules[N].elf /\ modules'[N].fh = modules[N].fh
         /\ modules'[N].base = IF N = 1 THEN modules[N].base ELSE brk
         /\ ~ modules[N].done /\ ~ modules'[N].done
         /\ task.pc = "map" /\ task'.pc = "segment" /\ task'.seg = 1
  <1>1. modules \in Seq(Modules) /\ modules # <<>> /\ task.pc = "map" /\ task.seg = 1
    BY DEF ModulesInv, TaskOK, MapModule, Early
  <1>2. N > 0 /\ N \in 1 .. Len(modules) /\ modules[N] \in Modules
    BY <1>1
  <1>3. FileInv' /\ FilesLast /\ disk' = disk
    BY LaterStep
  <1>4. handles' = handles /\ Goto("segment")
    BY DEF MapModule
  <1>5. task'.pc = "segment" /\ task'.seg = 1
    <2>1. PICK pc, seg : task = [pc |-> pc, seg |-> seg]
      BY DEF FileInv, TaskIs
    <2> QED BY <1>1, <1>4, <2>1 DEF Goto
  <1> DEFINE b == IF N = 1 THEN modules[N].base ELSE brk
  <1>6. modules[N].base \in Nat /\ modules[N].done \in BOOLEAN
    BY <1>2, ModuleIs
  <1>7. modules' = [modules EXCEPT ![N] = [modules[N] EXCEPT !.base = b]]
    <2>1. CASE N = 1
      <3>1. modules' = modules /\ b = modules[N].base
        BY <2>1 DEF MapModule, IsProgram
      <3>2. [modules[N] EXCEPT !.base = modules[N].base] = modules[N]
        BY <1>2, <1>6, ModuleBased
      <3>3. [modules EXCEPT ![N] = modules[N]] = modules
        BY <1>1, <1>2
      <3> QED BY <3>1, <3>2, <3>3
    <2>2. CASE N # 1
      BY <2>2 DEF MapModule, IsProgram
    <2> QED BY <2>1, <2>2
  <1>8. b \in Nat
    BY <1>6
  <1> HIDE DEF b
  <1>9. ~ modules[N].done
    BY <1>1, <1>2 DEF ModulesInv, InTurn
  <1>10. PICK m \in Modules : /\ m = [modules[N] EXCEPT !.base = b] /\ m.elf = modules[N].elf
                              /\ m.fh = modules[N].fh /\ m.base = b /\ ~ m.done
    <2>1. PICK m : m = [modules[N] EXCEPT !.base = b]
      OBVIOUS
    <2>2. /\ m \in Modules /\ m.elf = modules[N].elf /\ m.fh = modules[N].fh /\ m.base = b
          /\ m.done = modules[N].done
      BY <1>2, <1>6, <1>8, <2>1, ModuleBased
    <2> QED BY <1>9, <2>1, <2>2
  <1>11. /\ modules' \in Seq(Modules) /\ Len(modules') = N /\ modules'[N] = m
         /\ \A n \in 1 .. N : n < N => modules'[n] = modules[n]
    BY <1>1, <1>2, <1>7, <1>10, LastChanged
  <1>12. ModulesInv'
    <2>1. /\ task.pc \in After /\ task'.pc \in After /\ task'.pc # "map" /\ task'.seg \in Nat \ {0}
          /\ task'.pc \notin {"needed", "running", "trap"}
      BY <1>1, <1>5 DEF After
    <2>2. ~ modules'[N].done
      BY <1>10, <1>11
    <2> QED BY <1>2, <1>3, <1>4, <1>10, <1>11, <2>1, <2>2, ModulesKept
  <1> QED BY <1>1, <1>2, <1>5, <1>9, <1>10, <1>11, <1>12 DEF b

\* What the relocations of a library change.
Named(elf) == RelWords(elf) \cup SlotWords(elf)

\* The memory and the faults after a module is linked.
Linked(m, program) ==
  /\ mem' = IF program THEN mem
            ELSE Adjusted(Adjusted(mem, RelWords(m.elf), m.base), SlotWords(m.elf), m.base)
  /\ fault' = (fault \/ \E o \in (IF program THEN {} ELSE Named(m.elf)) : m.base + o \notin DOMAIN mem)

\* A module is linked only if it has a dynamic segment and symbols.
LEMMA LinkStep ==
  ASSUME FileInv, ModulesInv, LinkModule, NEW N \in Nat, N = Len(modules)
  PROVE  /\ ModulesInv' /\ N > 0 /\ Len(modules') = N
         /\ \A n \in 1 .. N : n < N => modules'[n] = modules[n]
         /\ modules'[N].elf = modules[N].elf /\ modules'[N].fh = modules[N].fh
         /\ modules'[N].base = modules[N].base /\ ~ modules[N].done
         /\ task.pc = "segment"
         /\ \/ /\ task'.pc = "frozen" /\ mem' = mem /\ fault' = fault /\ ~ modules'[N].done
            \/ /\ task'.pc = "needed" /\ modules'[N].done /\ modules[N].elf # NoElf
               /\ modules[N].elf.symtab # <<>> /\ Linked(modules[N], N = 1)
  <1>1. modules \in Seq(Modules) /\ modules # <<>> /\ task.pc = "segment" /\ task.seg \in Nat \ {0}
    BY DEF ModulesInv, TaskOK, LinkModule, Early
  <1>2. N > 0 /\ N \in 1 .. Len(modules) /\ modules[N] \in Modules
    BY <1>1
  <1>3. FileInv' /\ FilesLast /\ disk' = disk
    BY LaterStep
  <1>4. handles' = handles
    BY DEF LinkModule
  <1>5. ~ modules[N].done
    BY <1>1, <1>2 DEF ModulesInv, InTurn
  <1>6. modules[N].base \in Nat /\ modules[N].done \in BOOLEAN
    BY <1>2, ModuleIs
  <1>7. PICK at \in {"frozen", "needed"}, done \in BOOLEAN :
          /\ Goto(at) /\ (done <=> at = "needed")
          /\ modules' = [modules EXCEPT ![N] = [modules[N] EXCEPT !.done = done]]
          /\ done => /\ modules[N].elf # NoElf /\ modules[N].elf.symtab # <<>>
                     /\ Linked(modules[N], N = 1)
          /\ ~ done => mem' = mem /\ fault' = fault
    <2>1. CASE ~ HasDynamic(modules[N].elf) \/ modules[N].elf.symtab = <<>>
      <3>1. Goto("frozen") /\ mem' = mem /\ fault' = fault /\ modules' = modules
        BY <2>1 DEF LinkModule, Current
      <3>2. [modules[N] EXCEPT !.done = FALSE] = modules[N]
        <4>1. modules[N].done = FALSE
          BY <1>5, <1>6
        <4> QED BY <1>2, <1>6, <4>1, ModuleLinked
      <3>3. [modules EXCEPT ![N] = modules[N]] = modules
        BY <1>1, <1>2
      <3> QED BY <3>1, <3>2, <3>3
    <2>2. CASE HasDynamic(modules[N].elf) /\ modules[N].elf.symtab # <<>>
      <3>1. /\ Goto("needed") /\ Linked(modules[N], N = 1)
            /\ modules' = [modules EXCEPT ![N] = [modules[N] EXCEPT !.done = TRUE]]
        BY <2>2 DEF LinkModule, Current, IsProgram, Linked, Named
      <3>2. modules[N].elf # NoElf
        <4>1. Len(NoElf.segs) = 0 /\ 1 .. 0 = {}
          BY DEF NoElf
        <4>2. ~ HasDynamic(NoElf)
          BY <4>1 DEF HasDynamic
        <4> QED BY <2>2, <4>2
      <3> QED BY <2>2, <3>1, <3>2
    <2> QED BY <2>1, <2>2
  <1>8. PICK m \in Modules : /\ m = [modules[N] EXCEPT !.done = done] /\ m.elf = modules[N].elf
                             /\ m.fh = modules[N].fh /\ m.base = modules[N].base /\ m.done = done
    <2>1. PICK m : m = [modules[N] EXCEPT !.done = done]
      OBVIOUS
    <2>2. /\ m \in Modules /\ m.elf = modules[N].elf /\ m.fh = modules[N].fh
          /\ m.base = modules[N].base /\ m.done = done
      BY <1>2, <1>6, <2>1, ModuleLinked
    <2> QED BY <2>1, <2>2
  <1>9. /\ modules' \in Seq(Modules) /\ Len(modules') = N /\ modules'[N] = m
        /\ \A n \in 1 .. N : n < N => modules'[n] = modules[n]
    BY <1>1, <1>2, <1>7, <1>8, LastChanged
  <1>10. task'.pc = at /\ task'.seg \in Nat \ {0}
    <2>1. PICK pc, seg : task = [pc |-> pc, seg |-> seg]
      BY DEF FileInv, TaskIs
    <2>2. task' = [pc |-> at, seg |-> seg]
      BY <1>7, <2>1 DEF Goto
    <2> QED BY <1>1, <2>1, <2>2
  <1>11. modules'[N].done = done
    BY <1>8, <1>9
  <1>12. ModulesInv'
    <2>1. /\ task.pc \in After /\ task'.pc \in After \cup {"frozen"} /\ task'.pc # "map"
          /\ modules'[N].done <=> task'.pc \in {"needed", "running", "trap"}
      BY <1>1, <1>7, <1>10, <1>11 DEF After
    <2>2. modules'[N].done => modules[N].elf # NoElf
      BY <1>7, <1>11
    <2> QED BY <1>2, <1>3, <1>4, <1>8, <1>9, <1>10, <2>1, <2>2, ModulesKept
  <1>13. \/ /\ task'.pc = "frozen" /\ mem' = mem /\ fault' = fault /\ ~ modules'[N].done
         \/ /\ task'.pc = "needed" /\ modules'[N].done /\ modules[N].elf # NoElf
            /\ modules[N].elf.symtab # <<>> /\ Linked(modules[N], N = 1)
    BY <1>7, <1>10, <1>11
  <1> QED BY <1>1, <1>2, <1>5, <1>8, <1>9, <1>12, <1>13

\* The steps that change no module.
LEMMA OtherStep ==
  ASSUME FileInv, ModulesInv,
         LoadSegment \/ Enter \/ NoLibrary \/ \E i \in Calls : LookupSymbol(i)
  PROVE  /\ ModulesInv' /\ modules' = modules /\ modules # <<>>
         /\ LoadSegment => task.pc = "segment" /\ task'.pc = "segment" /\ task'.seg = task.seg + 1
         /\ Enter => task.pc = "needed" /\ task'.pc = "running"
         /\ (\E i \in Calls : LookupSymbol(i)) => task.pc = "running" /\ task'.pc = "running"
         /\ NoLibrary => task.pc = "running" /\ task'.pc = "trap"
  <1>1. modules' = modules /\ handles' = handles /\ task.pc \in {"segment", "needed", "running"}
    BY DEF LoadSegment, Enter, NoLibrary, LookupSymbol
  <1>2. modules \in Seq(Modules) /\ modules # <<>> /\ task.seg \in Nat \ {0}
    BY <1>1 DEF ModulesInv, TaskOK, Early
  <1>3. PICK N \in Nat : N = Len(modules) /\ N > 0 /\ N \in 1 .. Len(modules)
    BY <1>2
  <1>4. FileInv' /\ FilesLast /\ disk' = disk
    BY LaterStep
  <1>5. PICK pc, seg : task = [pc |-> pc, seg |-> seg]
    BY DEF FileInv, TaskIs
  <1>6. LoadSegment => task.pc = "segment" /\ task'.pc = "segment" /\ task'.seg = task.seg + 1
    <2>1. LoadSegment => task.pc = "segment" /\ task' = [task EXCEPT !.seg = @ + 1]
      BY DEF LoadSegment
    <2> QED BY <1>5, <2>1
  <1>7. Enter => task.pc = "needed" /\ task'.pc = "running" /\ task'.seg = task.seg
    <2>1. Enter => task.pc = "needed" /\ task' = [task EXCEPT !.pc = "running"]
      BY DEF Enter, Goto
    <2> QED BY <1>5, <2>1
  <1>12. NoLibrary => task.pc = "running" /\ task'.pc = "trap" /\ task'.seg = task.seg
    <2>1. NoLibrary => task.pc = "running" /\ task' = [task EXCEPT !.pc = "trap"]
      BY DEF NoLibrary, Goto
    <2> QED BY <1>5, <2>1
  <1>8. (\E i \in Calls : LookupSymbol(i)) => task.pc = "running" /\ task' = task
    BY DEF LookupSymbol
  <1>9. /\ task'.pc \in After \cup {"frozen"} /\ task'.pc # "map" /\ task.pc \in After
        /\ task'.seg \in Nat \ {0}
        /\ task'.pc \in {"needed", "running", "trap"} <=> task.pc \in {"needed", "running", "trap"}
    BY <1>2, <1>6, <1>7, <1>8, <1>12 DEF After
  <1>10. modules[N].done <=> task.pc \in {"needed", "running", "trap"}
    BY <1>3 DEF ModulesInv, InTurn
  <1>11. ModulesInv'
    <2>1. /\ modules' \in Seq(Modules) /\ Len(modules') = N
          /\ \A n \in 1 .. N : n < N => modules'[n] = modules[n]
          /\ modules'[N].fh = modules[N].fh /\ modules'[N].elf = modules[N].elf
      BY <1>1, <1>2, <1>3
    <2>2. /\ modules'[N].done <=> task'.pc \in {"needed", "running", "trap"}
          /\ modules'[N].done => modules[N].done
      BY <1>1, <1>9, <1>10
    <2> QED BY <1>1, <1>3, <1>4, <1>9, <2>1, <2>2, ModulesKept
  <1> QED BY <1>1, <1>2, <1>6, <1>7, <1>8, <1>11, <1>12

-----------------------------------------------------------------------------
(* The memory of the process *)

Cell(byte, plus) == [byte |-> byte, plus |-> plus]

IsCells(m) == \A a \in DOMAIN m : m[a] = Cell(m[a].byte, m[a].plus)

\* What relocation adds to a cell does not change its byte.
LEMMA CellFields ==
  ASSUME NEW b, NEW p, NEW c, c = Cell(b, p), NEW x
  PROVE  c.byte = b /\ c.plus = p /\ [c EXCEPT !.plus = x] = Cell(b, x)
  BY DEF Cell

\* Memory o is m with these cells in it.
Replaces(o, m, cells) ==
  /\ DOMAIN o = DOMAIN m \cup DOMAIN cells /\ IsCells(o)
  /\ \A a \in DOMAIN cells : o[a] = cells[a]
  /\ \A a \in DOMAIN m : a \notin DOMAIN cells => o[a] = m[a]

\* Later pages and bytes replace earlier ones.
LEMMA OverlayIs ==
  ASSUME NEW m, NEW cells, IsCells(m), IsCells(cells)
  PROVE  Replaces(Overlay(m, cells), m, cells)
  <1>0. PICK o : o = Overlay(m, cells)
    OBVIOUS
  <1>1. o = [a \in DOMAIN m \cup DOMAIN cells |-> IF a \in DOMAIN cells THEN cells[a] ELSE m[a]]
    BY <1>0 DEF Overlay
  <1>2. /\ DOMAIN o = DOMAIN m \cup DOMAIN cells
        /\ \A a \in DOMAIN cells : o[a] = cells[a]
        /\ \A a \in DOMAIN m : a \notin DOMAIN cells => o[a] = m[a]
    BY <1>1
  <1>3. ASSUME NEW a \in DOMAIN o PROVE o[a] = Cell(o[a].byte, o[a].plus)
    <2>1. CASE a \in DOMAIN cells
      BY <1>2, <2>1 DEF IsCells
    <2>2. CASE a \in DOMAIN m /\ a \notin DOMAIN cells
      BY <1>2, <2>2 DEF IsCells
    <2> QED BY <1>2, <1>3, <2>1, <2>2
  <1>4. IsCells(o)
    BY <1>3 DEF IsCells
  <1>5. Replaces(o, m, cells)
    BY <1>2, <1>4 DEF Replaces
  <1> QED BY <1>0, <1>5

\* New pages hold no byte of a file, and nothing that was relocated.
LEMMA FreshIs ==
  ASSUME NEW from, NEW pages
  PROVE  /\ DOMAIN FreshPages(from, pages) = from .. from + pages * PAGE - 1
         /\ \A a \in DOMAIN FreshPages(from, pages) : FreshPages(from, pages)[a].plus = 0
         /\ IsCells(FreshPages(from, pages))
  <1> DEFINE p == FreshPages(from, pages)
  <1>1. p = [a \in from .. from + pages * PAGE - 1 |-> Wild]
    BY DEF FreshPages
  <1>2. Wild = Cell(NULL, 0)
    BY DEF Wild, Word, Cell
  <1>3. Wild.byte = NULL /\ Wild.plus = 0
    BY <1>2, CellFields
  <1> HIDE DEF p
  <1>4. DOMAIN p = from .. from + pages * PAGE - 1
    BY <1>1
  <1>5. \A a \in DOMAIN p : p[a] = Wild
    BY <1>1
  <1>6. IsCells(p)
    BY <1>2, <1>3, <1>5 DEF IsCells
  <1> QED BY <1>3, <1>4, <1>5, <1>6 DEF p

\* Cells c are bytes of file f, from position pos on.
Brought(c, at, len, f, pos) ==
  /\ DOMAIN c = at .. at + len - 1 /\ IsCells(c)
  /\ \A a \in at .. at + len - 1 : c[a].byte = FileByte(f, pos + (a - at)) /\ c[a].plus = 0

\* What is read in whole arrives in whole.
LEMMA CellsAre ==
  ASSUME NEW at \in Nat, NEW len \in Nat, NEW f, NEW pos \in Nat, f.header_sector \in Nat,
         Exact(f, pos, len)
  PROVE  Brought(Cells(at, Arrives(f, len)), at, len, f, pos)
  <1>0. PICK bytes : bytes = Arrives(f, len) /\ bytes = [j \in 1 .. len |-> FileByte(f, pos + j - 1)]
    BY DEF Exact
  <1>1. PICK base \in Int : \A p : FileByte(f, p) = base + p
    <2>1. PICK hs \in Nat : hs = f.header_sector
      OBVIOUS
    <2>2. (hs + 1) * SECTOR + 0 \in Int
      BY SectorAssumption
    <2>3. \A p : FileByte(f, p) = ((hs + 1) * SECTOR + 0) + p
      BY <2>1 DEF FileByte, Addr
    <2> QED BY <2>2, <2>3
  <1>2. Len(bytes) = len
    <2>1. bytes \in [1 .. len -> Int]
      BY <1>0, <1>1
    <2> QED BY <2>1
  <1>3. PICK c : c = Cells(at, bytes)
    OBVIOUS
  <1>4. c = [a \in at .. at + len - 1 |-> Cell(bytes[a - at + 1], 0)]
    BY <1>2, <1>3 DEF Cells, Cell
  <1>5. DOMAIN c = at .. at + len - 1
    BY <1>4
  <1>6. ASSUME NEW a \in at .. at + len - 1
        PROVE  c[a].byte = FileByte(f, pos + (a - at)) /\ c[a].plus = 0 /\ c[a] = Cell(c[a].byte, 0)
    <2>1. a - at + 1 \in 1 .. len /\ pos + (a - at + 1) - 1 = pos + (a - at)
      OBVIOUS
    <2>2. bytes[a - at + 1] = FileByte(f, pos + (a - at + 1) - 1)
      BY <1>0, <2>1
    <2>3. c[a] = Cell(bytes[a - at + 1], 0)
      BY <1>4
    <2>4. c[a].byte = bytes[a - at + 1] /\ c[a].plus = 0
      BY <2>3, CellFields
    <2> QED BY <2>1, <2>2, <2>3, <2>4
  <1>7. IsCells(c)
    BY <1>5, <1>6 DEF IsCells
  <1>8. Brought(c, at, len, f, pos)
    BY <1>5, <1>6, <1>7 DEF Brought
  <1> QED BY <1>0, <1>3, <1>8

\* adjustRelocations(): the words at these offsets, and no other.
LEMMA AdjustedIs ==
  ASSUME NEW m, IsCells(m), NEW offsets, NEW base
  PROVE  /\ DOMAIN Adjusted(m, offsets, base) = DOMAIN m /\ IsCells(Adjusted(m, offsets, base))
         /\ \A a \in DOMAIN m :
              /\ Adjusted(m, offsets, base)[a].byte = m[a].byte
              /\ a - base \in offsets => Adjusted(m, offsets, base)[a].plus = m[a].plus + base
              /\ a - base \notin offsets => Adjusted(m, offsets, base)[a].plus = m[a].plus
  <1> DEFINE r == Adjusted(m, offsets, base)
  <1>1. r = [a \in DOMAIN m |-> IF a - base \in offsets THEN [m[a] EXCEPT !.plus = @ + base] ELSE m[a]]
    BY DEF Adjusted
  <1> HIDE DEF r
  <1>2. DOMAIN r = DOMAIN m
    BY <1>1
  <1>3. ASSUME NEW a \in DOMAIN m
        PROVE  /\ r[a].byte = m[a].byte /\ r[a] = Cell(r[a].byte, r[a].plus)
               /\ a - base \in offsets => r[a].plus = m[a].plus + base
               /\ a - base \notin offsets => r[a].plus = m[a].plus
    <2>1. PICK b, p : m[a] = Cell(b, p)
      BY DEF IsCells
    <2>2. m[a].byte = b /\ m[a].plus = p
      BY <2>1, CellFields
    <2>3. CASE a - base \in offsets
      <3>1. r[a] = [m[a] EXCEPT !.plus = m[a].plus + base]
        BY <1>1, <2>3
      <3>2. r[a] = Cell(b, p + base)
        BY <2>1, <2>2, <3>1, CellFields
      <3>3. r[a].byte = b /\ r[a].plus = p + base
        BY <3>2, CellFields
      <3> QED BY <2>2, <2>3, <3>2, <3>3
    <2>4. CASE a - base \notin offsets
      <3>1. r[a] = m[a]
        BY <1>1, <2>4
      <3> QED BY <2>1, <2>2, <2>4, <3>1
    <2> QED BY <2>3, <2>4
  <1>4. IsCells(r)
    BY <1>2, <1>3 DEF IsCells
  <1> QED BY <1>2, <1>3, <1>4 DEF r

\* A segment is read from the file of its module, in whole.
LEMMA SegmentRead ==
  ASSUME FileInv, ModulesInv, LoadSegment, NEW N \in Nat, N = Len(modules),
         NEW s, s = modules[N].elf.segs[task.seg], s.type = "LOAD",
         NEW f, f = FileOf(modules[N])
  PROVE  /\ task.seg \in 1 .. Len(modules[N].elf.segs)
         /\ s.vaddr \in Nat /\ s.filesz \in Nat \ {0} /\ s.offset \in Nat
         /\ s.memsz \in Nat /\ s.filesz <= s.memsz
         /\ f \in File /\ files[f].header_sector \in Nat
         /\ SameFile(files[f], Seek(files[f], s.offset))
         /\ Exact(Seek(files[f], s.offset), s.offset, s.filesz)
         /\ \E k \in 1 .. Len(disk) : FromEntry(N, k) /\ modules[N].elf = disk[k].elf
  <1>1. /\ task.pc = "segment" /\ task.seg <= Len(modules[N].elf.segs) /\ task.seg \in Nat \ {0}
        /\ modules \in Seq(Modules) /\ modules # <<>>
    BY DEF LoadSegment, Current, ModulesInv, TaskOK, Early
  <1>2. N \in 1 .. Len(modules) /\ HeadersRead(N)
    BY <1>1 DEF HeadersRead, After
  <1>3. modules[N].elf # NoElf
    <2>1. Len(NoElf.segs) = 0
      BY DEF NoElf
    <2> QED BY <1>1, <2>1
  <1>4. PICK k \in 1 .. Len(disk) : FromEntry(N, k) /\ modules[N].elf = disk[k].elf
    BY <1>2, <1>3 DEF ModulesInv, HeadersRight
  <1>5. /\ WellFormed(disk[k]) /\ HeaderSector(k) \in Nat /\ disk[k].size \in Nat \ {0}
    BY <1>2, <1>4, EntryKnown
  <1>6. task.seg \in 1 .. Len(modules[N].elf.segs)
    <2>1. Len(modules[N].elf.segs) \in Nat
      BY <1>4, <1>5 DEF WellFormed
    <2> QED BY <1>1, <2>1
  <1>7. /\ s.vaddr \in Nat /\ s.filesz \in Nat \ {0} /\ s.offset \in Nat /\ s.memsz \in Nat
        /\ s.filesz <= s.memsz /\ s.offset + s.filesz <= disk[k].size
    <2>1. /\ s.vaddr \in Nat /\ s.filesz \in Nat /\ s.offset \in Nat /\ s.memsz \in Nat
          /\ s.filesz > 0 /\ s.filesz <= s.memsz /\ s.offset + s.filesz <= disk[k].size
      BY <1>4, <1>5, <1>6 DEF WellFormed
    <2> QED BY <2>1
  <1>8. /\ f \in File /\ files[f].header_sector = HeaderSector(k) /\ files[f].size = disk[k].size
        /\ IsFile(files[f])
    BY <1>4 DEF FromEntry, FileInv
  <1> DEFINE sought == Seek(files[f], s.offset)
  <1>9. InPlace(sought) /\ sought.cursor = s.offset /\ SameFile(files[f], sought)
    <2>1. s.offset < files[f].size
      <3>1. \A o \in Nat, z \in Nat, l \in Nat : l > 0 /\ o + l <= z => o < z
        OBVIOUS
      <3>2. s.filesz > 0 /\ s.filesz \in Nat
        BY <1>7
      <3> QED BY <1>5, <1>7, <1>8, <3>1, <3>2
    <2> QED BY <1>5, <1>7, <1>8, <2>1, SoughtInPlace
  <1> HIDE DEF sought
  <1>10. Exact(sought, s.offset, s.filesz)
    <2>1. sought.size = disk[k].size
      BY <1>8, <1>9 DEF SameFile
    <2> QED BY <1>5, <1>7, <1>9, <2>1, ReadThere
  <1> QED BY <1>4, <1>5, <1>6, <1>7, <1>8, <1>9, <1>10 DEF sought

Space(n) == ModulePages(modules[n].elf.segs) * PAGE
Reach(n) == modules[n].base .. modules[n].base + Space(n) - 1

\* A library has pages.
Placed(n) == n < Len(modules) \/ task.pc \in {"segment", "needed", "running", "trap"}

Relocated(n) ==
  \A a \in Reach(n) :
    mem[a].plus = IF modules[n].done /\ a - modules[n].base \in Named(modules[n].elf)
                  THEN modules[n].base ELSE 0

InMemory(n) ==
  /\ HeapStart <= modules[n].base /\ modules[n].base + Space(n) <= brk
  /\ Reach(n) \subseteq DOMAIN mem
  /\ Relocated(n)

\* Libraries have pages of their own, one after the other.
MemoryInv ==
  /\ brk \in Nat /\ HeapStart <= brk
  /\ IsCells(mem)
  /\ modules # <<>> => modules[1].base = 0
  /\ \A n \in 2 .. Len(modules) : Placed(n) => InMemory(n)
  /\ \A n, m \in 2 .. Len(modules) : n < m /\ Placed(m) =>
       modules[n].base + Space(n) <= modules[m].base
  /\ InBounds

\* The size of a library is a number of bytes, that of its segments and words.
LEMMA SpaceType ==
  ASSUME FileInv, ModulesInv, NEW n \in 2 .. Len(modules), HeadersRead(n)
  PROVE  /\ modules[n].base \in Nat /\ Space(n) \in Nat
         /\ modules[n].elf # NoElf =>
              /\ IsLibrary(modules[n].elf)
              /\ \A i \in 1 .. Len(modules[n].elf.segs) :
                   /\ modules[n].elf.segs[i].vaddr \in Nat /\ modules[n].elf.segs[i].memsz \in Nat
                   /\ modules[n].elf.segs[i].vaddr + modules[n].elf.segs[i].memsz <= Space(n)
  <1>1. modules \in Seq(Modules) /\ Len(modules) \in Nat
    BY DEF ModulesInv, TaskOK
  <1>2. n \in 1 .. Len(modules) /\ n > 1 /\ modules[n] \in Modules
    BY <1>1
  <1>3. modules[n].base \in Nat
    BY <1>2, ModuleIs
  <1>4. CASE modules[n].elf = NoElf
    <2>1. Space(n) \in Nat
      BY <1>4, NoModuleFits DEF Space
    <2> QED BY <1>3, <1>4, <2>1
  <1>5. CASE modules[n].elf # NoElf
    <2>1. PICK k \in 1 .. Len(disk) : FromEntry(n, k) /\ modules[n].elf = disk[k].elf
      BY <1>2, <1>5 DEF ModulesInv, HeadersRight
    <2>2. WellFormed(disk[k]) /\ IsLibrary(disk[k].elf)
      BY <1>2, <2>1, EntryKnown
    <2>3. /\ ModulePages(disk[k].elf.segs) * PAGE \in Nat
          /\ \A i \in 1 .. Len(disk[k].elf.segs) :
               disk[k].elf.segs[i].vaddr + disk[k].elf.segs[i].memsz
                 <= ModulePages(disk[k].elf.segs) * PAGE
      BY <2>2, LibraryFits
    <2>4. Space(n) = ModulePages(disk[k].elf.segs) * PAGE
      BY <2>1 DEF Space
    <2>5. \A i \in 1 .. Len(disk[k].elf.segs) :
            disk[k].elf.segs[i].vaddr \in Nat /\ disk[k].elf.segs[i].memsz \in Nat
      BY <2>2 DEF WellFormed
    <2> QED BY <1>3, <2>1, <2>2, <2>3, <2>4, <2>5
  <1> QED BY <1>4, <1>5

\* A library is below the next address that alloc() hands out.
LEMMA ReachIs ==
  ASSUME FileInv, ModulesInv, MemoryInv, NEW n \in 2 .. Len(modules), Placed(n)
  PROVE  /\ modules[n].base \in Nat /\ Space(n) \in Nat
         /\ \A a \in Reach(n) : /\ a \in Nat /\ modules[n].base <= a
                                /\ a < modules[n].base + Space(n) /\ a < brk
         /\ \A a \in Int : modules[n].base <= a /\ a < modules[n].base + Space(n) => a \in Reach(n)
  <1>1. HeadersRead(n)
    BY DEF Placed, HeadersRead, After
  <1>2. modules[n].base \in Nat /\ Space(n) \in Nat
    BY <1>1, SpaceType
  <1>3. brk \in Nat /\ modules[n].base + Space(n) <= brk
    BY DEF MemoryInv, InMemory
  <1>4. PICK b \in Nat, s \in Nat, e \in Nat : b = modules[n].base /\ s = Space(n) /\ e = brk
    BY <1>2, <1>3
  <1>5. Reach(n) = b .. b + s - 1 /\ b + s <= e
    BY <1>3, <1>4 DEF Reach
  <1>6. /\ \A a \in b .. b + s - 1 : a \in Nat /\ b <= a /\ a < b + s /\ a < e
        /\ \A a \in Int : b <= a /\ a < b + s => a \in b .. b + s - 1
    BY <1>5
  <1> QED BY <1>2, <1>4, <1>5, <1>6

\* A step that leaves the memory and what is in it.
LEMMA MemoryKept ==
  ASSUME MemoryInv, ModulesInv, ModulesInv', mem' = mem, brk' = brk, fault' => fault,
         modules' # <<>> => modules'[1].base = 0,
         \A n \in 2 .. Len(modules') : Placed(n)' =>
           /\ n <= Len(modules) /\ Placed(n) /\ modules'[n].base = modules[n].base
           /\ modules'[n].elf = modules[n].elf /\ (modules'[n].done <=> modules[n].done)
  PROVE  MemoryInv'
  <1>1. Len(modules) \in Nat /\ Len(modules') \in Nat
    BY DEF ModulesInv, TaskOK
  <1>2. ASSUME NEW n \in 2 .. Len(modules'), Placed(n)'
        PROVE  /\ InMemory(n)' /\ n \in 2 .. Len(modules) /\ Placed(n)
               /\ modules'[n].base = modules[n].base /\ Space(n)' = Space(n)
    <2>1. /\ n \in 2 .. Len(modules) /\ Placed(n) /\ modules'[n].base = modules[n].base
          /\ modules'[n].elf = modules[n].elf /\ (modules'[n].done <=> modules[n].done)
      BY <1>1, <1>2
    <2>2. InMemory(n)
      BY <2>1 DEF MemoryInv
    <2>3. Space(n)' = Space(n)
      BY <2>1 DEF Space
    <2>4. Reach(n)' = Reach(n)
      BY <2>1, <2>3 DEF Reach
    <2>5. Relocated(n)'
      BY <2>1, <2>2, <2>4 DEF Relocated, InMemory
    <2> QED BY <2>1, <2>2, <2>3, <2>4, <2>5 DEF InMemory
  <1>3. ASSUME NEW n \in 2 .. Len(modules'), NEW m \in 2 .. Len(modules'), n < m, Placed(m)'
        PROVE  modules'[n].base + Space(n)' <= modules'[m].base
    <2>1. Placed(n)'
      BY <1>1, <1>3 DEF Placed
    <2> QED BY <1>2, <1>3, <2>1 DEF MemoryInv
  <1> QED BY <1>2, <1>3 DEF MemoryInv, InBounds

\* The steps that map, load or relocate nothing.
LEMMA MemorySteps ==
  ASSUME FileInv, ModulesInv, MemoryInv,
         \/ TgaOpen \/ TgaHeader \/ TgaChunk \/ OpenProgram \/ NeededLib \/ ReadHeaders
         \/ NoLibrary
  PROVE  ModulesInv' /\ MemoryInv'
  <1>0. Len(modules) \in Nat
    BY DEF ModulesInv, TaskOK
  <1>1. mem' = mem /\ brk' = brk /\ fault' = fault
    BY DEF TgaOpen, TgaHeader, TgaChunk, OpenProgram, NeededLib, OpenModule, ReadHeaders,
           NoLibrary
  <1>2. CASE TgaOpen \/ TgaHeader \/ TgaChunk
    <2>1. ModulesInv' /\ modules' = <<>>
      BY <1>2, EarlyStep
    <2>2. 2 .. Len(modules') = {}
      BY <2>1
    <2> QED BY <1>1, <2>1, <2>2, MemoryKept
  <1>3. CASE OpenProgram \/ NeededLib
    <2>1. PICK N \in Nat : N = Len(modules)
      BY <1>0
    <2>2. /\ ModulesInv' /\ Len(modules') = N + 1 /\ task'.pc = "header"
          /\ \A n \in 1 .. N : modules'[n] = modules[n]
          /\ modules'[N + 1].base = 0 /\ (modules # <<>> => task.pc = "needed")
      BY <1>3, <2>1, OpenStep
    <2>3. modules'[1].base = 0
      <3>1. CASE N = 0
        BY <2>2, <3>1
      <3>2. CASE N > 0
        <4>1. modules # <<>> /\ 1 \in 1 .. N
          BY <2>1, <3>2
        <4> QED BY <2>2, <4>1 DEF MemoryInv
      <3> QED BY <3>1, <3>2
    <2>4. ASSUME NEW n \in 2 .. Len(modules'), Placed(n)'
          PROVE  /\ n <= Len(modules) /\ Placed(n) /\ modules'[n].base = modules[n].base
                 /\ modules'[n].elf = modules[n].elf /\ (modules'[n].done <=> modules[n].done)
      <3>1. n < N + 1
        BY <2>2, <2>4 DEF Placed
      <3>2. n \in 1 .. N /\ modules # <<>>
        BY <2>1, <2>2, <3>1
      <3>3. Placed(n)
        BY <2>2, <3>2 DEF Placed
      <3> QED BY <2>1, <2>2, <3>2, <3>3
    <2> QED BY <1>1, <2>2, <2>3, <2>4, MemoryKept
  <1>4. CASE ReadHeaders
    <2>1. PICK N \in Nat : N = Len(modules)
      BY <1>0
    <2>2. /\ ModulesInv' /\ Len(modules') = N /\ task'.pc \in {"map", "frozen"}
          /\ \A n \in 1 .. N : modules'[n].base = modules[n].base /\ (n < N => modules'[n] = modules[n])
      BY <1>4, <2>1, HeadersStep
    <2>3. modules' # <<>> => modules'[1].base = 0
      <3>1. modules' # <<>> => 1 \in 1 .. N /\ modules # <<>>
        BY <2>1, <2>2 DEF ModulesInv, TaskOK
      <3> QED BY <2>2, <3>1 DEF MemoryInv
    <2>4. ASSUME NEW n \in 2 .. Len(modules'), Placed(n)'
          PROVE  /\ n <= Len(modules) /\ Placed(n) /\ modules'[n].base = modules[n].base
                 /\ modules'[n].elf = modules[n].elf /\ (modules'[n].done <=> modules[n].done)
      <3>1. n < N /\ n \in 1 .. N
        BY <2>2, <2>4 DEF Placed
      <3>2. Placed(n)
        BY <2>1, <3>1 DEF Placed
      <3> QED BY <2>1, <2>2, <3>1, <3>2
    <2> QED BY <1>1, <2>2, <2>3, <2>4, MemoryKept
  <1>5. CASE NoLibrary
    <2>1. /\ ModulesInv' /\ modules' = modules /\ modules # <<>>
          /\ task.pc = "running" /\ task'.pc = "trap"
      BY <1>5, OtherStep
    <2>2. modules'[1].base = 0
      BY <2>1 DEF MemoryInv
    <2>3. \A n \in 2 .. Len(modules') : Placed(n)
      BY <2>1 DEF Placed
    <2>4. \A n \in 2 .. Len(modules') : n <= Len(modules)
      BY <1>0, <2>1
    <2> QED BY <1>1, <2>1, <2>2, <2>3, <2>4, MemoryKept
  <1> QED BY <1>2, <1>3, <1>4, <1>5

\* New pages are above all others that alloc() has handed out.
LEMMA MemoryMapped ==
  ASSUME FileInv, ModulesInv, MemoryInv, MapModule
  PROVE  ModulesInv' /\ MemoryInv'
  <1>0. Len(modules) \in Nat /\ brk \in Nat /\ HeapStart \in Nat
    BY SizesAssumption DEF ModulesInv, TaskOK, MemoryInv
  <1>1. PICK N \in Nat : N = Len(modules)
    BY <1>0
  <1>2. /\ ModulesInv' /\ N > 0 /\ Len(modules') = N
        /\ \A n \in 1 .. N : n < N => modules'[n] = modules[n]
        /\ modules'[N].elf = modules[N].elf
        /\ modules'[N].base = IF N = 1 THEN modules[N].base ELSE brk
        /\ ~ modules[N].done /\ ~ modules'[N].done
        /\ task.pc = "map" /\ task'.pc = "segment"
    BY <1>0, <1>1, MapStep
  <1>3. modules'[1].base = 0
    <2>1. modules # <<>> /\ 1 \in 1 .. N
      BY <1>1, <1>2
    <2>2. modules[1].base = 0
      BY <2>1 DEF MemoryInv
    <2> QED BY <1>2, <2>1, <2>2
  <1>4. fault' = fault
    BY DEF MapModule
  <1>5. CASE N = 1
    <2>1. mem' = mem /\ brk' = brk
      BY <1>1, <1>5 DEF MapModule, IsProgram
    <2>2. 2 .. Len(modules') = {}
      BY <1>2, <1>5
    <2> QED BY <1>2, <1>3, <1>4, <2>1, <2>2, MemoryKept
  <1>6. CASE N > 1
    <2> DEFINE pages == ModulePages(modules[N].elf.segs)
               fresh == FreshPages(brk, pages)
    <2>1. mem' = Overlay(mem, fresh) /\ brk' = brk + pages * PAGE
      BY <1>1, <1>6 DEF MapModule, IsProgram, Current
    <2>2. pages * PAGE \in Nat /\ pages * PAGE = Space(N)
      <3>1. N \in 2 .. Len(modules) /\ HeadersRead(N)
        BY <1>1, <1>2, <1>6 DEF HeadersRead, After
      <3> QED BY <3>1, SpaceType DEF Space
    <2>3. /\ DOMAIN fresh = brk .. brk + pages * PAGE - 1 /\ IsCells(fresh)
          /\ \A a \in DOMAIN fresh : fresh[a].plus = 0
      BY FreshIs
    <2> HIDE DEF pages, fresh
    <2>4. PICK S \in Nat : S = pages * PAGE /\ S = Space(N) /\ brk' = brk + S
      BY <2>1, <2>2
    <2>5. /\ IsCells(mem') /\ DOMAIN mem' = DOMAIN mem \cup DOMAIN fresh
          /\ \A a \in DOMAIN fresh : mem'[a] = fresh[a]
          /\ \A a \in DOMAIN mem : a \notin DOMAIN fresh => mem'[a] = mem[a]
      <3>1. IsCells(mem) /\ IsCells(fresh)
        BY <2>3 DEF MemoryInv
      <3>2. Replaces(mem', mem, fresh)
        BY <2>1, <3>1, OverlayIs
      <3> QED BY <3>2 DEF Replaces
    <2>6. brk' \in Nat /\ HeapStart <= brk' /\ brk <= brk'
      BY <1>0, <2>4 DEF MemoryInv
    <2>7. ASSUME NEW n \in 2 .. N, n < N
          PROVE  /\ InMemory(n)' /\ modules'[n].base = modules[n].base /\ Space(n)' = Space(n)
                 /\ modules[n].base + Space(n) <= brk
      <3>1. Placed(n) /\ n \in 2 .. Len(modules) /\ modules'[n] = modules[n]
        BY <1>1, <1>2, <2>7 DEF Placed
      <3>2. InMemory(n)
        BY <3>1 DEF MemoryInv
      <3>3. Space(n)' = Space(n) /\ Reach(n)' = Reach(n)
        BY <3>1 DEF Space, Reach
      <3>4. /\ modules[n].base \in Nat /\ Space(n) \in Nat
            /\ \A a \in Reach(n) : a \in Nat /\ a < brk
        BY <3>1, ReachIs
      <3>5. \A a \in Reach(n) : a \in DOMAIN mem /\ a \notin DOMAIN fresh
        BY <1>0, <2>3, <3>2, <3>4 DEF InMemory
      <3>6. \A a \in Reach(n) : mem'[a] = mem[a]
        BY <2>5, <3>5
      <3>7. Relocated(n)'
        BY <3>1, <3>2, <3>3, <3>6 DEF Relocated, InMemory
      <3>8. HeapStart <= modules'[n].base /\ modules'[n].base + Space(n)' <= brk'
        BY <1>0, <2>6, <3>1, <3>2, <3>3, <3>4 DEF InMemory
      <3>9. Reach(n)' \subseteq DOMAIN mem'
        BY <2>5, <3>3, <3>5
      <3> QED BY <3>1, <3>2, <3>3, <3>7, <3>8, <3>9 DEF InMemory
    <2>8. /\ InMemory(N)' /\ modules'[N].base = brk
      <3>1. modules'[N].base = brk /\ Space(N)' = S
        BY <1>2, <1>6, <2>4 DEF Space
      <3>2. Reach(N)' = DOMAIN fresh
        BY <2>3, <2>4, <3>1 DEF Reach
      <3>3. \A a \in Reach(N)' : mem'[a].plus = 0
        BY <2>3, <2>5, <3>2
      <3>4. Relocated(N)'
        BY <1>2, <3>3 DEF Relocated
      <3>5. HeapStart <= modules'[N].base /\ modules'[N].base + Space(N)' <= brk'
        BY <1>0, <2>4, <3>1 DEF MemoryInv
      <3> QED BY <2>5, <3>1, <3>2, <3>4, <3>5 DEF InMemory
    <2>9. ASSUME NEW n \in 2 .. Len(modules'), Placed(n)' PROVE InMemory(n)'
      BY <1>2, <2>7, <2>8
    <2>10. ASSUME NEW n \in 2 .. Len(modules'), NEW m \in 2 .. Len(modules'), n < m, Placed(m)'
           PROVE  modules'[n].base + Space(n)' <= modules'[m].base
      <3>1. n \in 2 .. N /\ n < N /\ m \in 2 .. N
        BY <1>2, <2>10
      <3>2. CASE m = N
        BY <2>7, <2>8, <3>1, <3>2
      <3>3. CASE m < N
        <4>1. Placed(m)
          BY <1>1, <3>3 DEF Placed
        <4>2. modules[n].base + Space(n) <= modules[m].base
          BY <1>1, <2>10, <3>1, <4>1 DEF MemoryInv
        <4> QED BY <2>7, <3>1, <3>3, <4>2
      <3> QED BY <3>1, <3>2, <3>3
    <2> QED BY <1>2, <1>3, <1>4, <2>5, <2>6, <2>9, <2>10 DEF MemoryInv, InBounds
  <1> QED BY <1>2, <1>5, <1>6

\* The pages of a segment of the program hold it, wherever it starts in a page.
LEMMA ProgramHolds ==
  ASSUME NEW s, s.vaddr \in Nat, s.filesz \in Nat
  PROVE  /\ IsCells(ProgramPages(s))
         /\ \A a \in s.vaddr .. s.vaddr + s.filesz - 1 : a \in DOMAIN ProgramPages(s)
  <1>1. PICK v \in Nat, z \in Nat, p \in Nat \ {0} : v = s.vaddr /\ z = s.filesz /\ p = PAGE
    BY SizesAssumption
  <1>2. v % p \in Nat /\ v % p <= v
    BY <1>1
  <1>3. PICK r \in Nat : r = v % p /\ r <= v
    BY <1>2
  <1>4. PICK q \in Nat : q = Pages(r + z) * PAGE /\ r + z <= q
    BY PagesHold
  <1>5. ProgramPages(s) = FreshPages(v - r, Pages(r + z))
    BY <1>1, <1>3 DEF ProgramPages, Aligned
  <1>6. DOMAIN ProgramPages(s) = v - r .. v - r + q - 1 /\ IsCells(ProgramPages(s))
    BY <1>4, <1>5, FreshIs
  <1>7. \A a \in v .. v + z - 1 : a \in v - r .. v - r + q - 1
    BY <1>3, <1>4
  <1> QED BY <1>1, <1>6, <1>7

\* The memory before a segment arrives in it.
Mapped(s) == IF IsProgram THEN Overlay(mem, ProgramPages(s)) ELSE mem

\* Memory o is m with bytes of file f in it.
Written(o, m, at, len, f, pos) ==
  /\ IsCells(o) /\ DOMAIN o = DOMAIN m \cup (at .. at + len - 1)
  /\ \A a \in at .. at + len - 1 : o[a].byte = FileByte(f, pos + (a - at)) /\ o[a].plus = 0
  /\ \A a \in DOMAIN m : a \notin at .. at + len - 1 => o[a] = m[a]

\* loadSegment() writes the bytes of the segment to its address, and nothing else.
LEMMA SegmentWritten ==
  ASSUME FileInv, ModulesInv, MemoryInv, LoadSegment, NEW N \in Nat, N = Len(modules),
         NEW s, s = modules[N].elf.segs[task.seg], s.type = "LOAD",
         NEW f, f = FileOf(modules[N]), NEW at, at = modules[N].base + s.vaddr
  PROVE  /\ at \in Nat /\ IsCells(Mapped(s)) /\ (N # 1 => Mapped(s) = mem)
         /\ N = 1 => Replaces(Mapped(s), mem, ProgramPages(s)) /\ at = s.vaddr
         /\ fault' = (fault \/ ~ (at .. at + s.filesz - 1 \subseteq DOMAIN Mapped(s)))
         /\ Written(mem', Mapped(s), at, s.filesz, files[f], s.offset)
  <1> DEFINE sought == Seek(files[f], s.offset)
             cells == Cells(at, Arrives(sought, s.filesz))
  <1>1. /\ s.vaddr \in Nat /\ s.filesz \in Nat \ {0} /\ s.offset \in Nat
        /\ f \in File /\ files[f].header_sector \in Nat
        /\ SameFile(files[f], sought) /\ Exact(sought, s.offset, s.filesz)
    BY SegmentRead
  <1>2. /\ mem' = Overlay(Mapped(s), cells)
        /\ fault' = (fault \/ ~ (DOMAIN cells \subseteq DOMAIN Mapped(s)))
    BY DEF LoadSegment, Current, Mapped
  <1> HIDE DEF sought
  <1>3. at \in Nat /\ (N = 1 => at = s.vaddr)
    <2>1. modules \in Seq(Modules) /\ modules # <<>>
      BY DEF LoadSegment, ModulesInv, TaskOK, Early
    <2>2. modules[N].base \in Nat
      BY <2>1, ModuleIs
    <2>3. N = 1 => modules[N].base = 0
      BY <2>1 DEF MemoryInv
    <2>4. PICK b \in Nat, v \in Nat : b = modules[N].base /\ v = s.vaddr
      BY <1>1, <2>2
    <2>5. at = b + v
      BY <2>4
    <2>6. N = 1 => b = 0
      BY <2>3, <2>4
    <2> QED BY <2>4, <2>5, <2>6
  <1>4. Brought(cells, at, s.filesz, sought, s.offset)
    <2>1. sought.header_sector \in Nat
      BY <1>1 DEF SameFile
    <2> QED BY <1>1, <1>3, <2>1, CellsAre
  <1> HIDE DEF cells
  <1>5. \A p : FileByte(sought, p) = FileByte(files[f], p)
    BY <1>1 DEF FileByte, SameFile
  <1>6. IsCells(mem) /\ IsCells(cells)
    BY <1>4 DEF MemoryInv, Brought
  <1>7. ASSUME N = 1 PROVE Replaces(Mapped(s), mem, ProgramPages(s))
    <2>1. Mapped(s) = Overlay(mem, ProgramPages(s))
      BY <1>7 DEF Mapped, IsProgram
    <2>2. IsCells(ProgramPages(s))
      BY <1>1, ProgramHolds
    <2> QED BY <1>6, <2>1, <2>2, OverlayIs
  <1>8. N # 1 => Mapped(s) = mem
    BY DEF Mapped, IsProgram
  <1>9. IsCells(Mapped(s))
    BY <1>6, <1>7, <1>8 DEF Replaces
  <1>10. Replaces(mem', Mapped(s), cells)
    BY <1>2, <1>6, <1>9, OverlayIs
  <1>11. Written(mem', Mapped(s), at, s.filesz, files[f], s.offset)
    <2>1. DOMAIN cells = at .. at + s.filesz - 1
      BY <1>4 DEF Brought
    <2>2. ASSUME NEW a \in at .. at + s.filesz - 1
          PROVE  mem'[a].byte = FileByte(files[f], s.offset + (a - at)) /\ mem'[a].plus = 0
      <3>1. mem'[a] = cells[a]
        BY <1>10, <2>1 DEF Replaces
      <3>2. cells[a].byte = FileByte(sought, s.offset + (a - at)) /\ cells[a].plus = 0
        BY <1>4 DEF Brought
      <3> QED BY <1>5, <3>1, <3>2
    <2>3. /\ IsCells(mem') /\ DOMAIN mem' = DOMAIN Mapped(s) \cup (at .. at + s.filesz - 1)
          /\ \A a \in DOMAIN Mapped(s) :
               a \notin at .. at + s.filesz - 1 => mem'[a] = Mapped(s)[a]
      BY <1>10, <2>1 DEF Replaces
    <2> QED BY <2>2, <2>3 DEF Written
  <1>12. fault' = (fault \/ ~ (at .. at + s.filesz - 1 \subseteq DOMAIN Mapped(s)))
    BY <1>2, <1>4 DEF Brought
  <1> QED BY <1>3, <1>7, <1>8, <1>9, <1>11, <1>12

\* A segment arrives in the pages of its module.
LEMMA MemoryLoaded ==
  ASSUME FileInv, ModulesInv, MemoryInv, LoadSegment
  PROVE  ModulesInv' /\ MemoryInv'
  <1>0. /\ Len(modules) \in Nat /\ brk \in Nat /\ IsCells(mem)
    BY DEF ModulesInv, TaskOK, MemoryInv
  <1>1. PICK N \in Nat : N = Len(modules)
    BY <1>0
  <1>2. /\ ModulesInv' /\ modules' = modules /\ modules # <<>>
        /\ task.pc = "segment" /\ task'.pc = "segment"
    BY OtherStep
  <1>3. brk' = brk /\ modules[1].base = 0 /\ N > 0
    BY <1>1, <1>2 DEF LoadSegment, MemoryInv, ModulesInv, TaskOK
  <1>4. ASSUME NEW n \in 2 .. N PROVE Placed(n) /\ InMemory(n) /\ Placed(n)'
    <2>1. Placed(n) /\ Placed(n)'
      BY <1>2 DEF Placed
    <2> QED BY <1>1, <2>1 DEF MemoryInv
  <1>5. PICK s : s = modules[N].elf.segs[task.seg]
    OBVIOUS
  <1>6. CASE s.type # "LOAD"
    <2>1. mem' = mem /\ fault' = fault
      BY <1>1, <1>5, <1>6 DEF LoadSegment, Current
    <2>2. \A n \in 2 .. Len(modules') : n <= Len(modules) /\ Placed(n)
      BY <1>1, <1>2, <1>4
    <2> QED BY <1>2, <1>3, <2>1, <2>2, MemoryKept
  <1>7. CASE s.type = "LOAD"
    <2>1. PICK at, last : at = modules[N].base + s.vaddr /\ last = at + s.filesz - 1
      OBVIOUS
    <2>2. /\ s.vaddr \in Nat /\ s.filesz \in Nat \ {0} /\ s.memsz \in Nat /\ s.filesz <= s.memsz
          /\ task.seg \in 1 .. Len(modules[N].elf.segs)
      BY <1>1, <1>5, <1>7, SegmentRead
    <2>3. /\ at \in Nat /\ (N # 1 => Mapped(s) = mem)
          /\ N = 1 => Replaces(Mapped(s), mem, ProgramPages(s)) /\ at = s.vaddr
          /\ fault' = (fault \/ ~ (at .. last \subseteq DOMAIN Mapped(s)))
          /\ IsCells(mem') /\ DOMAIN mem' = DOMAIN Mapped(s) \cup (at .. last)
          /\ \A a \in at .. last : mem'[a].plus = 0
          /\ \A a \in DOMAIN Mapped(s) : a \notin at .. last => mem'[a] = Mapped(s)[a]
      <3>1. PICK f : f = FileOf(modules[N])
        OBVIOUS
      <3>2. /\ at = modules[N].base + s.vaddr /\ s = modules[N].elf.segs[task.seg]
            /\ f = FileOf(modules[N]) /\ N = Len(modules) /\ s.type = "LOAD"
            /\ FileInv /\ ModulesInv /\ MemoryInv /\ LoadSegment
        BY <1>1, <1>5, <1>7, <2>1, <3>1
      <3>3. /\ at \in Nat /\ (N # 1 => Mapped(s) = mem)
            /\ N = 1 => Replaces(Mapped(s), mem, ProgramPages(s)) /\ at = s.vaddr
        BY ONLY <3>2, SegmentWritten
      <3>4. fault' = (fault \/ ~ (at .. at + s.filesz - 1 \subseteq DOMAIN Mapped(s)))
        BY ONLY <3>2, SegmentWritten
      <3>5. Written(mem', Mapped(s), at, s.filesz, files[f], s.offset)
        BY ONLY <3>2, SegmentWritten
      <3>6. fault' = (fault \/ ~ (at .. last \subseteq DOMAIN Mapped(s)))
        BY <2>1, <3>4
      <3>7. /\ IsCells(mem') /\ DOMAIN mem' = DOMAIN Mapped(s) \cup (at .. last)
            /\ \A a \in at .. last : mem'[a].plus = 0
            /\ \A a \in DOMAIN Mapped(s) : a \notin at .. last => mem'[a] = Mapped(s)[a]
        BY <2>1, <3>5 DEF Written
      <3> QED BY <3>3, <3>6, <3>7
    <2>4. CASE N = 1
      <3>1. at .. last \subseteq DOMAIN Mapped(s)
        <4>1. \A a \in at .. last : a \in DOMAIN ProgramPages(s)
          BY <2>1, <2>2, <2>3, <2>4, ProgramHolds
        <4> QED BY <2>3, <2>4, <4>1 DEF Replaces
      <3>2. ~ fault'
        BY <2>3, <3>1 DEF MemoryInv, InBounds
      <3>3. 2 .. Len(modules') = {}
        BY <1>1, <1>2, <2>4
      <3>4. brk' \in Nat /\ HeapStart <= brk'
        BY <1>3 DEF MemoryInv
      <3> QED BY <1>2, <1>3, <2>3, <3>2, <3>3, <3>4 DEF MemoryInv, InBounds
    <2>5. CASE N > 1
      <3>1. N \in 2 .. Len(modules) /\ HeadersRead(N) /\ Placed(N) /\ InMemory(N)
        BY <1>1, <1>2, <1>4, <2>5 DEF HeadersRead, After
      <3>2. modules[N].elf # NoElf
        <4>1. Len(NoElf.segs) = 0
          BY DEF NoElf
        <4> QED BY <2>2, <4>1
      <3>3. s.vaddr + s.memsz <= Space(N)
        BY <1>5, <2>2, <3>1, <3>2, SpaceType
      <3>4. /\ modules[N].base \in Nat /\ Space(N) \in Nat
            /\ \A a \in Int : modules[N].base <= a /\ a < modules[N].base + Space(N) => a \in Reach(N)
        BY <3>1, ReachIs
      <3>5. \A a \in at .. last : a \in Int /\ modules[N].base <= a /\ a < modules[N].base + Space(N)
        <4>1. \A b, v, z, m, S \in Nat : z <= m /\ v + m <= S =>
                \A a \in b + v .. b + v + z - 1 : a \in Int /\ b <= a /\ a < b + S
          OBVIOUS
        <4>2. s.filesz \in Nat
          BY <2>2
        <4> QED BY <2>1, <2>2, <3>3, <3>4, <4>1, <4>2
      <3>6. \A a \in at .. last : a \in Reach(N) /\ a \in DOMAIN mem
        BY <3>1, <3>4, <3>5 DEF InMemory
      <3>7. Mapped(s) = mem
        BY <2>3, <2>5
      <3>8. DOMAIN mem' = DOMAIN mem /\ ~ fault'
        <4>1. at .. last \subseteq DOMAIN mem
          BY <3>6
        <4>2. ~ fault'
          BY <2>3, <3>7, <4>1 DEF MemoryInv, InBounds
        <4>3. DOMAIN mem' = DOMAIN mem
          BY <2>3, <3>7, <4>1
        <4> QED BY <4>2, <4>3
      <3>9. ~ modules[N].done
        BY <1>1, <1>2, <3>1 DEF ModulesInv, InTurn
      <3>10. ASSUME NEW n \in 2 .. N PROVE InMemory(n)'
        <4>1. Space(n)' = Space(n) /\ Reach(n)' = Reach(n) /\ modules'[n] = modules[n]
          BY <1>2 DEF Space, Reach
        <4>2. InMemory(n) /\ Placed(n)
          BY <1>4
        <4>3. \A a \in Reach(n) : a \in DOMAIN mem
          BY <4>2 DEF InMemory
        <4>4. CASE n < N
          <5>1. modules[n].base + Space(n) <= modules[N].base
            BY <1>1, <3>1, <4>4 DEF MemoryInv
          <5>2. /\ modules[n].base \in Nat /\ Space(n) \in Nat
                /\ \A a \in Reach(n) : a \in Nat /\ a < modules[n].base + Space(n)
            BY <1>1, <4>2, ReachIs
          <5>3. ASSUME NEW a \in Reach(n) PROVE mem'[a] = mem[a]
            <6>1. a < modules[N].base /\ a \in Nat
              BY <3>4, <5>1, <5>2
            <6>2. a \notin at .. last
              BY <3>4, <3>5, <6>1
            <6> QED BY <2>3, <3>7, <4>3, <6>2
          <5>4. Relocated(n)'
            BY <4>1, <4>2, <5>3 DEF Relocated, InMemory
          <5> QED BY <1>3, <3>8, <4>1, <4>2, <5>4 DEF InMemory
        <4>5. CASE n = N
          <5>1. ASSUME NEW a \in Reach(n) PROVE mem'[a].plus = 0
            <6>1. CASE a \in at .. last
              BY <2>3, <6>1
            <6>2. CASE a \notin at .. last
              <7>1. mem'[a] = mem[a]
                BY <2>3, <3>7, <4>3, <6>2
              <7>2. mem[a].plus = 0
                BY <3>1, <3>9, <4>5 DEF InMemory, Relocated
              <7> QED BY <7>1, <7>2
            <6> QED BY <6>1, <6>2
          <5>2. Relocated(n)'
            BY <3>9, <4>1, <4>5, <5>1 DEF Relocated
          <5> QED BY <1>3, <3>8, <4>1, <4>2, <5>2 DEF InMemory
        <4> QED BY <4>4, <4>5
      <3>11. \A n, m \in 2 .. Len(modules') : n < m /\ Placed(m)' =>
               modules'[n].base + Space(n)' <= modules'[m].base
        <4>1. \A n : Space(n)' = Space(n)
          BY <1>2 DEF Space
        <4> QED BY <1>1, <1>2, <1>4, <4>1 DEF MemoryInv
      <3>12. \A n \in 2 .. Len(modules') : InMemory(n)'
        BY <1>1, <1>2, <3>10
      <3>13. brk' \in Nat /\ HeapStart <= brk'
        BY <1>3 DEF MemoryInv
      <3> QED BY <1>2, <1>3, <2>3, <3>8, <3>11, <3>12, <3>13 DEF MemoryInv, InBounds
    <2> QED BY <1>3, <2>4, <2>5
  <1> QED BY <1>6, <1>7

\* Every cell of memory o is that of m, moved by base if its offset is in offsets.
Moves(o, m, offsets, base) ==
  /\ DOMAIN o = DOMAIN m /\ IsCells(o)
  /\ \A a \in DOMAIN m :
       /\ o[a].byte = m[a].byte
       /\ a - base \in offsets => o[a].plus = m[a].plus + base
       /\ a - base \notin offsets => o[a].plus = m[a].plus

\* adjustRelocations() on both tables: no word is in both, so that none is moved twice.
LEMMA BothAdjusted ==
  ASSUME NEW m, IsCells(m), NEW A, NEW B, NEW base, A \cap B = {}
  PROVE  Moves(Adjusted(Adjusted(m, A, base), B, base), m, A \cup B, base)
  <1>1. PICK x : x = Adjusted(m, A, base)
    OBVIOUS
  <1>2. Moves(x, m, A, base)
    BY <1>1, AdjustedIs DEF Moves
  <1>3. PICK y : y = Adjusted(x, B, base)
    OBVIOUS
  <1>4. Moves(y, x, B, base)
    <2>1. IsCells(x)
      BY <1>2 DEF Moves
    <2> QED BY <1>3, <2>1, AdjustedIs DEF Moves
  <1>5. DOMAIN y = DOMAIN m /\ IsCells(y)
    BY <1>2, <1>4 DEF Moves
  <1>6. ASSUME NEW a \in DOMAIN m
        PROVE  /\ y[a].byte = m[a].byte
               /\ a - base \in A \cup B => y[a].plus = m[a].plus + base
               /\ a - base \notin A \cup B => y[a].plus = m[a].plus
    <2>1. /\ x[a].byte = m[a].byte
          /\ a - base \in A => x[a].plus = m[a].plus + base
          /\ a - base \notin A => x[a].plus = m[a].plus
      BY <1>2 DEF Moves
    <2>2. /\ y[a].byte = x[a].byte
          /\ a - base \in B => y[a].plus = x[a].plus + base
          /\ a - base \notin B => y[a].plus = x[a].plus
      BY <1>2, <1>4 DEF Moves
    <2>3. ~ (a - base \in A /\ a - base \in B)
      OBVIOUS
    <2> QED BY <2>1, <2>2, <2>3
  <1>7. Moves(y, m, A \cup B, base)
    BY <1>5, <1>6 DEF Moves
  <1> QED BY <1>1, <1>3, <1>7

\* What linking does to the memory.
LEMMA LinkMoves ==
  ASSUME FileInv, ModulesInv, MemoryInv, LinkModule, NEW N \in Nat, N = Len(modules), N > 1,
         mem' # mem \/ modules'[N].done
  PROVE  /\ ~ fault'
         /\ Moves(mem', mem, Named(modules[N].elf), modules[N].base)
         /\ \A o \in Named(modules[N].elf) : o \in 0 .. Space(N) - 1
         /\ Space(N) \in Nat /\ modules[N].base \in Nat
  <1>1. /\ task.pc = "segment" /\ modules[N].elf # NoElf
        /\ mem' = Adjusted(Adjusted(mem, RelWords(modules[N].elf), modules[N].base),
                           SlotWords(modules[N].elf), modules[N].base)
        /\ fault' = (fault \/ \E o \in Named(modules[N].elf) : modules[N].base + o \notin DOMAIN mem)
    BY LinkStep DEF Linked
  <1>2. N \in 2 .. Len(modules) /\ HeadersRead(N)
    BY <1>1 DEF HeadersRead, After
  <1>3. PICK elf : elf = modules[N].elf
    OBVIOUS
  <1>4. /\ modules[N].base \in Nat /\ Space(N) \in Nat /\ IsLibrary(elf)
        /\ \A i \in 1 .. Len(elf.segs) :
             /\ elf.segs[i].vaddr \in Nat /\ elf.segs[i].memsz \in Nat
             /\ elf.segs[i].vaddr + elf.segs[i].memsz <= Space(N)
    BY <1>1, <1>2, <1>3, SpaceType
  <1>5. RelWords(elf) \cap SlotWords(elf) = {}
    BY <1>4 DEF IsLibrary
  <1>6. Moves(mem', mem, Named(elf), modules[N].base)
    <2>1. IsCells(mem)
      BY DEF MemoryInv
    <2> QED BY <1>1, <1>3, <1>5, <2>1, BothAdjusted DEF Named
  <1>7. ASSUME NEW o \in Named(elf) PROVE o \in 0 .. Space(N) - 1
    <2>1. PICK i \in 1 .. Len(elf.segs) :
            o \in elf.segs[i].vaddr .. elf.segs[i].vaddr + elf.segs[i].memsz - 1
      BY <1>4 DEF IsLibrary, Named
    <2>2. \A v, z, S \in Nat : v + z <= S => \A x \in v .. v + z - 1 : x \in 0 .. S - 1
      OBVIOUS
    <2> QED BY <1>4, <2>1, <2>2
  <1>8. ASSUME NEW o \in Named(elf) PROVE modules[N].base + o \in DOMAIN mem
    <2>1. Placed(N)
      BY <1>1 DEF Placed
    <2>2. PICK b \in Nat, S \in Nat, x \in Nat :
            b = modules[N].base /\ S = Space(N) /\ x = o /\ x < S
      BY <1>4, <1>7
    <2>3. b + x \in Int /\ b <= b + x /\ b + x < b + S
      BY <2>2
    <2>4. b + x \in Reach(N)
      BY <1>2, <2>1, <2>2, <2>3, ReachIs
    <2>5. \A a \in Reach(N) : a \in DOMAIN mem
      BY <1>2, <2>1 DEF MemoryInv, InMemory
    <2> QED BY <2>2, <2>4, <2>5
  <1>9. ~ fault'
    BY <1>1, <1>3, <1>8 DEF MemoryInv, InBounds
  <1> QED BY <1>3, <1>4, <1>6, <1>7, <1>9

\* The words of a library are moved once, and those of others stay.
LEMMA MemoryLinked ==
  ASSUME FileInv, ModulesInv, MemoryInv, LinkModule
  PROVE  ModulesInv' /\ MemoryInv'
  <1>0. Len(modules) \in Nat /\ IsCells(mem)
    BY DEF ModulesInv, TaskOK, MemoryInv
  <1>1. PICK N \in Nat : N = Len(modules)
    BY <1>0
  <1>2. /\ ModulesInv' /\ N > 0 /\ Len(modules') = N
        /\ \A n \in 1 .. N : n < N => modules'[n] = modules[n]
        /\ modules'[N].elf = modules[N].elf /\ modules'[N].base = modules[N].base
        /\ ~ modules[N].done /\ task.pc = "segment"
        /\ \/ /\ task'.pc = "frozen" /\ mem' = mem /\ fault' = fault /\ ~ modules'[N].done
           \/ /\ task'.pc = "needed" /\ modules'[N].done
              /\ N = 1 => mem' = mem /\ (fault' => fault)
    BY <1>1, LinkStep DEF Linked
  <1>3. brk' = brk
    BY DEF LinkModule
  <1>4. ASSUME NEW n \in 1 .. N
        PROVE  modules'[n].base = modules[n].base /\ modules'[n].elf = modules[n].elf
    <2>1. CASE n < N
      BY <1>2, <2>1
    <2>2. CASE n = N
      BY <1>2, <2>2
    <2> QED BY <2>1, <2>2
  <1>5. modules'[1].base = 0
    <2>1. modules # <<>> /\ 1 \in 1 .. N
      BY <1>1, <1>2
    <2> QED BY <1>4, <2>1 DEF MemoryInv
  <1>6. CASE mem' = mem /\ (~ modules'[N].done \/ N = 1)
    <2>1. ASSUME NEW n \in 2 .. Len(modules'), Placed(n)'
          PROVE  /\ n <= Len(modules) /\ Placed(n) /\ modules'[n].base = modules[n].base
                 /\ modules'[n].elf = modules[n].elf /\ (modules'[n].done <=> modules[n].done)
      <3>1. n \in 1 .. N /\ Placed(n)
        BY <1>1, <1>2 DEF Placed
      <3>2. CASE n < N
        BY <1>1, <1>2, <3>1, <3>2
      <3>3. CASE n = N
        BY <1>1, <1>2, <1>6, <3>1, <3>3
      <3> QED BY <3>1, <3>2, <3>3
    <2> QED BY <1>2, <1>3, <1>5, <1>6, <2>1, MemoryKept
  <1>7. CASE modules'[N].done /\ N > 1
    <2>0. PICK elf, b, S : elf = modules[N].elf /\ b = modules[N].base /\ S = Space(N)
      OBVIOUS
    <2>1. /\ elf = modules[N].elf /\ b = modules[N].base /\ S = Space(N)
          /\ b \in Nat /\ S \in Nat /\ Moves(mem', mem, Named(elf), b)
          /\ \A o \in Named(elf) : o \in 0 .. S - 1
          /\ ~ fault'
      <3>1. /\ ~ fault'
            /\ Moves(mem', mem, Named(modules[N].elf), modules[N].base)
            /\ \A o \in Named(modules[N].elf) : o \in 0 .. Space(N) - 1
            /\ Space(N) \in Nat /\ modules[N].base \in Nat
        BY <1>1, <1>7, LinkMoves
      <3> QED BY <2>0, <3>1
    <2>2. ASSUME NEW n \in 2 .. N
          PROVE  /\ InMemory(n)' /\ Space(n)' = Space(n) /\ modules'[n].base = modules[n].base
      <3>1. /\ Placed(n) /\ n \in 2 .. Len(modules) /\ n \in 1 .. N
            /\ modules'[n].base = modules[n].base /\ modules'[n].elf = modules[n].elf
        BY <1>1, <1>2, <1>4 DEF Placed
      <3>2. InMemory(n)
        BY <3>1 DEF MemoryInv
      <3>3. Space(n)' = Space(n) /\ Reach(n)' = Reach(n)
        BY <3>1 DEF Space, Reach
      <3>4. \A a \in Reach(n) : a \in DOMAIN mem
        BY <3>2 DEF InMemory
      <3>5. /\ modules[n].base \in Nat /\ Space(n) \in Nat
            /\ \A a \in Reach(n) : /\ a \in Nat /\ modules[n].base <= a
                                   /\ a < modules[n].base + Space(n)
        BY <3>1, ReachIs
      <3>6. CASE n < N
        <4>1. modules[n].base + Space(n) <= b
          <5>1. Placed(N) /\ N \in 2 .. Len(modules)
            BY <1>1, <1>2, <1>7 DEF Placed
          <5> QED BY <2>1, <3>1, <3>6, <5>1 DEF MemoryInv
        <4>2. ASSUME NEW a \in Reach(n) PROVE mem'[a].plus = mem[a].plus
          <5>1. a - b \notin Named(elf)
            <6>1. a \in Nat /\ a < b
              BY <2>1, <3>5, <4>1
            <6>2. a - b \notin 0 .. S - 1
              BY <2>1, <6>1
            <6> QED BY <2>1, <6>2
          <5> QED BY <2>1, <3>4, <5>1 DEF Moves
        <4>3. modules'[n].done <=> modules[n].done
          BY <1>2, <3>1, <3>6
        <4>4. Relocated(n)'
          BY <3>1, <3>2, <3>3, <4>2, <4>3 DEF Relocated, InMemory
        <4>5. DOMAIN mem' = DOMAIN mem
          BY <2>1 DEF Moves
        <4> QED BY <1>3, <3>1, <3>2, <3>3, <4>4, <4>5 DEF InMemory
      <3>7. CASE n = N
        <4>1. ASSUME NEW a \in Reach(n)
              PROVE  mem'[a].plus = IF a - b \in Named(elf) THEN b ELSE 0
          <5>1. mem[a].plus = 0
            BY <1>2, <3>2, <3>7 DEF InMemory, Relocated
          <5>2. /\ a - b \in Named(elf) => mem'[a].plus = mem[a].plus + b
                /\ a - b \notin Named(elf) => mem'[a].plus = mem[a].plus
            BY <2>1, <3>4 DEF Moves
          <5> QED BY <2>1, <5>1, <5>2
        <4>2. Relocated(n)'
          BY <1>7, <2>1, <3>1, <3>3, <3>7, <4>1 DEF Relocated
        <4>3. DOMAIN mem' = DOMAIN mem
          BY <2>1 DEF Moves
        <4> QED BY <1>3, <3>1, <3>2, <3>3, <4>2, <4>3 DEF InMemory
      <3> QED BY <3>1, <3>6, <3>7
    <2>3. \A n \in 2 .. Len(modules') : InMemory(n)'
      BY <1>2, <2>2
    <2>4. \A n, m \in 2 .. Len(modules') : n < m /\ Placed(m)' =>
            modules'[n].base + Space(n)' <= modules'[m].base
      <3>1. \A n \in 2 .. N : Placed(n)
        BY <1>2 DEF Placed
      <3> QED BY <1>1, <1>2, <2>2, <3>1 DEF MemoryInv
    <2>5. IsCells(mem') /\ brk' \in Nat /\ HeapStart <= brk' /\ ~ fault'
      BY <1>3, <2>1 DEF Moves, MemoryInv, InBounds
    <2> QED BY <1>2, <1>5, <2>3, <2>4, <2>5 DEF MemoryInv, InBounds
  <1> QED BY <1>2, <1>6, <1>7

-----------------------------------------------------------------------------

\* What the loader knows of files, modules and memory.
LoadInv == FileInv /\ ModulesInv /\ MemoryInv

\* A new process has neither modules nor memory.
LEMMA LoadInit == Init => LoadInv
  <1> SUFFICES ASSUME Init PROVE LoadInv
    OBVIOUS
  <1>1. FileInv
    BY LoaderInit
  <1>2. /\ modules = <<>> /\ mem = << >> /\ brk = HeapStart /\ ~ fault
        /\ task.pc = "tga_open" /\ task.seg = 1
    BY DEF Init
  <1>3. Len(modules) = 0 /\ 1 .. 0 = {} /\ 2 .. 0 = {} /\ DOMAIN mem = {}
    BY <1>2
  <1>4. TaskOK
    BY <1>2 DEF TaskOK, Early
  <1>5. InTurn /\ HeadersRight /\ AtStart
    BY <1>2, <1>3 DEF InTurn, HeadersRight, AtStart
  <1>6. MemoryInv
    <2>1. brk \in Nat /\ HeapStart <= brk
      BY <1>2, SizesAssumption
    <2> QED BY <1>2, <1>3, <2>1 DEF MemoryInv, IsCells, InBounds
  <1> QED BY <1>1, <1>4, <1>5, <1>6 DEF LoadInv, ModulesInv

\* Nothing changes, and so does what is known.
LEMMA LoadStutter ==
  ASSUME LoadInv, UNCHANGED vars
  PROVE  LoadInv'
  <1>1. UNCHANGED <<disk, files, handles, mem, brk, modules, task, fault>>
    BY DEF vars
  <1>2. FileInv'
    BY <1>1 DEF LoadInv, FileInv, FilesApart
  <1>3. \A k : HeaderSector(k)' = HeaderSector(k)
    BY <1>1 DEF HeaderSector, EntrySectors
  <1>4. \A n, k : FromEntry(n, k)' <=> FromEntry(n, k)
    BY <1>1, <1>3 DEF FromEntry, FileOf, NameOf
  <1>5. HeadersRight'
    BY <1>1, <1>4 DEF LoadInv, ModulesInv, HeadersRight, HeadersRead, FileOf
  <1>6. AtStart'
    BY <1>1, <1>4 DEF LoadInv, ModulesInv, AtStart, FileOf, Current
  <1>7. TaskOK' /\ InTurn'
    BY <1>1 DEF LoadInv, ModulesInv, TaskOK, InTurn
  <1>8. ModulesInv'
    BY <1>5, <1>6, <1>7 DEF ModulesInv
  <1>9. MemoryInv'
    <2>1. \A n : Placed(n)' <=> Placed(n)
      BY <1>1 DEF Placed
    <2>2. \A n \in 2 .. Len(modules) : n <= Len(modules)
      BY DEF LoadInv, ModulesInv, TaskOK
    <2> QED BY <1>1, <1>8, <2>1, <2>2, MemoryKept DEF LoadInv, MemoryInv
  <1> QED BY <1>2, <1>8, <1>9 DEF LoadInv

-----------------------------------------------------------------------------
(* What the memory of a module holds *)

\* The program is loaded where alloc() has not handed out pages.
ProgramApart ==
  modules # <<>> =>
    \A i \in 1 .. Len(modules[1].elf.segs) : modules[1].elf.segs[i].type = "LOAD" =>
      \A a \in DOMAIN ProgramPages(modules[1].elf.segs[i]) : a < HeapStart \/ a >= brk

\* The address of byte k of segment i of module n, and whether it holds that byte.
Address(n, i, k) == modules[n].base + modules[n].elf.segs[i].vaddr + k
IntactAt(n, i, k) ==
  /\ Address(n, i, k) \in DOMAIN mem
  /\ mem[Address(n, i, k)].byte =
       FileByte(files[FileOf(modules[n])], modules[n].elf.segs[i].offset + k)

\* A later segment of the program, up to this one, has taken the page.
TakenOver(n, i, upto, a) ==
  n = 1 /\ \E j \in i + 1 .. upto :
    modules[n].elf.segs[j].type = "LOAD" /\ a \in DOMAIN ProgramPages(modules[n].elf.segs[j])

Loadable(n, i, k) ==
  modules[n].elf.segs[i].type = "LOAD" /\ k \in 0 .. modules[n].elf.segs[i].filesz - 1

IntactTo(n, upto) ==
  \A i \in 1 .. upto : \A k : Loadable(n, i, k) =>
    TakenOver(n, i, upto, Address(n, i, k)) \/ IntactAt(n, i, k)

\* The program, once words of its GOT have been written.
IntactBut(upto) ==
  \A i \in 1 .. upto : \A k : Loadable(1, i, k) =>
    \/ TakenOver(1, i, upto, Address(1, i, k)) \/ IntactAt(1, i, k)
    \/ Address(1, i, k) \in Patched

\* Segments are loaded one after the other.
BytesInv ==
  /\ \A n \in 1 .. Len(modules) : modules[n].done /\ (n = 1 => ~ Entered) =>
       IntactTo(n, Len(modules[n].elf.segs))
  /\ Entered => IntactBut(Len(modules[1].elf.segs))
  /\ task.pc = "segment" =>
       \A n \in 1 .. Len(modules) : n = Len(modules) =>
         task.seg <= Len(modules[n].elf.segs) + 1 /\ IntactTo(n, task.seg - 1)

\* Where the bytes of a module are.
LEMMA BytesWhere ==
  ASSUME LoadInv, NEW n \in 1 .. Len(modules), Placed(n),
         NEW i \in 1 .. Len(modules[n].elf.segs), NEW k, Loadable(n, i, k)
  PROVE  /\ HeadersRead(n) /\ modules[n].elf # NoElf
         /\ FileOf(modules[n]) # NULL /\ Len(modules[n].elf.segs) \in Nat
         /\ modules[n].base \in Nat /\ modules[n].elf.segs[i].vaddr \in Nat
         /\ modules[n].elf.segs[i].filesz \in Nat /\ k \in Nat
         /\ k < modules[n].elf.segs[i].filesz /\ Address(n, i, k) \in Nat
         /\ n = 1 => Address(n, i, k) \in DOMAIN ProgramPages(modules[n].elf.segs[i])
         /\ n > 1 => Address(n, i, k) \in Reach(n)
  <1>0. PICK s : s = modules[n].elf.segs[i]
    OBVIOUS
  <1>1. HeadersRead(n) /\ modules \in Seq(Modules) /\ Len(modules) \in Nat
    BY DEF Placed, HeadersRead, After, LoadInv, ModulesInv, TaskOK
  <1>2. modules[n].elf # NoElf
    <2>1. Len(NoElf.segs) = 0 /\ 1 .. 0 = {}
      BY DEF NoElf
    <2> QED BY <2>1
  <1>3. PICK e \in 1 .. Len(disk) : FromEntry(n, e) /\ modules[n].elf = disk[e].elf
    BY <1>1, <1>2 DEF LoadInv, ModulesInv, HeadersRight
  <1>4. WellFormed(disk[e])
    BY <1>3, EntryKnown DEF LoadInv
  <1>5. FileOf(modules[n]) # NULL
    BY <1>3 DEF FromEntry, File, NULL
  <1>6. /\ Len(modules[n].elf.segs) \in Nat /\ s.vaddr \in Nat /\ s.filesz \in Nat
        /\ s.memsz \in Nat /\ s.filesz <= s.memsz
    BY <1>0, <1>3, <1>4 DEF WellFormed, Loadable
  <1>7. k \in Nat /\ k < s.filesz
    BY <1>0, <1>6 DEF Loadable
  <1>8. modules[n].base \in Nat /\ Address(n, i, k) = modules[n].base + s.vaddr + k
    BY <1>0, <1>1, ModuleIs DEF Address
  <1>9. ASSUME n = 1 PROVE Address(n, i, k) \in DOMAIN ProgramPages(s)
    <2>1. modules # <<>>
      BY <1>1, <1>9
    <2>2. modules[n].base = 0
      BY <1>9, <2>1 DEF LoadInv, MemoryInv
    <2>3. PICK v \in Nat, z \in Nat : v = s.vaddr /\ z = s.filesz
      BY <1>6
    <2>4. Address(n, i, k) = v + k /\ k < z
      BY <1>7, <1>8, <2>2, <2>3
    <2>5. Address(n, i, k) \in v .. v + z - 1
      BY <1>7, <2>4
    <2> QED BY <1>6, <2>3, <2>5, ProgramHolds
  <1>10. ASSUME n > 1 PROVE Address(n, i, k) \in Reach(n)
    <2>1. n \in 2 .. Len(modules)
      BY <1>1, <1>10
    <2>2. s.vaddr + s.memsz <= Space(n) /\ Space(n) \in Nat
      BY <1>0, <1>1, <1>2, <2>1, SpaceType DEF LoadInv
    <2>3. modules[n].base <= Address(n, i, k) /\ Address(n, i, k) < modules[n].base + Space(n)
      <3>1. PICK b \in Nat, v \in Nat, z \in Nat, m \in Nat, S \in Nat, x \in Nat :
              /\ b = modules[n].base /\ v = s.vaddr /\ z = s.filesz /\ m = s.memsz
              /\ S = Space(n) /\ x = k
        BY <1>6, <1>7, <1>8, <2>2
      <3>2. z <= m /\ v + m <= S /\ x < z
        BY <1>6, <1>7, <2>2, <3>1
      <3>3. b <= b + v + x /\ b + v + x < b + S
        BY <3>2
      <3> QED BY <1>8, <3>1, <3>3
    <2>4. Address(n, i, k) \in Int
      BY <1>6, <1>7, <1>8
    <2> QED BY <2>1, <2>3, <2>4, ReachIs DEF LoadInv
  <1>11. Address(n, i, k) \in Nat
    BY <1>6, <1>7, <1>8
  <1> QED BY <1>0, <1>1, <1>2, <1>5, <1>6, <1>7, <1>8, <1>9, <1>10, <1>11

\* A byte that a step leaves is still that of the file.
LEMMA ByteKept ==
  ASSUME LoadInv, FilesLast, NEW n \in 1 .. Len(modules), Placed(n),
         modules'[n].fh = modules[n].fh, modules'[n].elf = modules[n].elf,
         modules'[n].base = modules[n].base,
         NEW i \in 1 .. Len(modules[n].elf.segs), NEW k, Loadable(n, i, k), IntactAt(n, i, k),
         Address(n, i, k) \in DOMAIN mem',
         mem'[Address(n, i, k)].byte = mem[Address(n, i, k)].byte
  PROVE  IntactAt(n, i, k)'
  <1>1. FileOf(modules[n]) # NULL
    BY BytesWhere
  <1>2. /\ FileOf(modules[n])' = FileOf(modules[n])
        /\ SameFile(files[FileOf(modules[n])], files'[FileOf(modules[n])])
    BY <1>1, FileKept DEF LoadInv
  <1>3. Address(n, i, k)' = Address(n, i, k)
    BY DEF Address
  <1>4. FileByte(files[FileOf(modules[n])], modules[n].elf.segs[i].offset + k)' =
          FileByte(files[FileOf(modules[n])], modules[n].elf.segs[i].offset + k)
    BY <1>2 DEF FileByte, SameFile
  <1> QED BY <1>3, <1>4 DEF IntactAt

\* Segments are counted.
LEMMA SegsCount ==
  ASSUME LoadInv, NEW n \in 1 .. Len(modules), HeadersRead(n)
  PROVE  Len(modules[n].elf.segs) \in Nat
  <1>1. CASE modules[n].elf = NoElf
    BY <1>1 DEF NoElf
  <1>2. CASE modules[n].elf # NoElf
    <2>1. PICK e \in 1 .. Len(disk) : FromEntry(n, e) /\ modules[n].elf = disk[e].elf
      BY <1>2 DEF LoadInv, ModulesInv, HeadersRight
    <2>2. WellFormed(disk[e])
      BY <2>1, EntryKnown DEF LoadInv
    <2> QED BY <2>1, <2>2 DEF WellFormed
  <1> QED BY <1>1, <1>2

\* A module stays intact if the step leaves its bytes.
LEMMA IntactKept ==
  ASSUME LoadInv, FilesLast, NEW n \in 1 .. Len(modules), Placed(n),
         modules'[n].fh = modules[n].fh, modules'[n].elf = modules[n].elf,
         modules'[n].base = modules[n].base,
         NEW upto \in Nat, upto <= Len(modules[n].elf.segs), IntactTo(n, upto),
         \A i \in 1 .. upto : \A k : Loadable(n, i, k) /\ Address(n, i, k) \in DOMAIN mem =>
           /\ Address(n, i, k) \in DOMAIN mem'
           /\ mem'[Address(n, i, k)].byte = mem[Address(n, i, k)].byte
  PROVE  IntactTo(n, upto)'
  <1>1. Len(modules[n].elf.segs) \in Nat
    BY SegsCount DEF Placed, HeadersRead, After
  <1> SUFFICES ASSUME NEW i \in 1 .. upto, NEW k, Loadable(n, i, k)'
               PROVE  TakenOver(n, i, upto, Address(n, i, k))' \/ IntactAt(n, i, k)'
    BY DEF IntactTo
  <1>2. Loadable(n, i, k) /\ Address(n, i, k)' = Address(n, i, k) /\ i \in 1 .. Len(modules[n].elf.segs)
    BY <1>1 DEF Loadable, Address
  <1>3. CASE TakenOver(n, i, upto, Address(n, i, k))
    BY <1>2, <1>3 DEF TakenOver
  <1>4. CASE IntactAt(n, i, k)
    <2>1. Address(n, i, k) \in DOMAIN mem
      BY <1>4 DEF IntactAt
    <2> QED BY <1>2, <1>4, <2>1, ByteKept
  <1> QED BY <1>2, <1>3, <1>4 DEF IntactTo

\* A step that changes no byte.
LEMMA BytesKept ==
  ASSUME LoadInv, BytesInv, FilesLast, task'.pc # "segment", ~ Entered',
         \A a \in DOMAIN mem : a \in DOMAIN mem' /\ mem'[a].byte = mem[a].byte,
         \A n \in 1 .. Len(modules') : modules'[n].done =>
           /\ n \in 1 .. Len(modules) /\ Placed(n)
           /\ modules'[n].fh = modules[n].fh /\ modules'[n].elf = modules[n].elf
           /\ modules'[n].base = modules[n].base
           /\ IntactTo(n, Len(modules[n].elf.segs))
  PROVE  BytesInv'
  <1>1. ASSUME NEW n \in 1 .. Len(modules'), modules'[n].done
        PROVE  IntactTo(n, Len(modules[n].elf.segs))'
    <2>1. /\ n \in 1 .. Len(modules) /\ Placed(n)
          /\ modules'[n].fh = modules[n].fh /\ modules'[n].elf = modules[n].elf
          /\ modules'[n].base = modules[n].base
          /\ IntactTo(n, Len(modules[n].elf.segs))
      BY <1>1
    <2>2. PICK len : len = Len(modules[n].elf.segs)
      OBVIOUS
    <2>3. len \in Nat /\ len <= Len(modules[n].elf.segs)
      BY <2>1, <2>2, SegsCount DEF Placed, HeadersRead, After
    <2>4. IntactTo(n, len)'
      BY <2>1, <2>2, <2>3, IntactKept
    <2> QED BY <2>1, <2>2, <2>4
  <1> QED BY <1>1 DEF BytesInv

\* New pages are those of nobody, if the program is apart.
LEMMA BytesMapped ==
  ASSUME LoadInv, BytesInv, MapModule, ProgramApart'
  PROVE  BytesInv'
  <1>0. Len(modules) \in Nat /\ brk \in Nat /\ FileInv /\ ModulesInv /\ MemoryInv
    BY DEF LoadInv, ModulesInv, TaskOK, MemoryInv
  <1>1. PICK N \in Nat : N = Len(modules)
    BY <1>0
  <1>2. /\ N > 0 /\ Len(modules') = N
        /\ \A n \in 1 .. N : n < N => modules'[n] = modules[n]
        /\ modules'[N].elf = modules[N].elf /\ ~ modules'[N].done
        /\ task.pc = "map" /\ task'.pc = "segment" /\ task'.seg = 1
    BY <1>0, <1>1, MapStep
  <1>3. FilesLast
    BY <1>0, LaterStep
  <1>4. HeadersRead(N) /\ N \in 1 .. Len(modules)
    BY <1>1, <1>2 DEF HeadersRead, After
  <1>5. Len(modules[N].elf.segs) \in Nat
    BY <1>4, SegsCount
  <1>6. (\A n \in 1 .. Len(modules) : n = Len(modules) =>
           task.seg <= Len(modules[n].elf.segs) + 1 /\ IntactTo(n, task.seg - 1))'
    <2>1. 1 .. task'.seg - 1 = {} /\ task'.seg <= Len(modules'[N].elf.segs) + 1
      BY <1>2, <1>5
    <2> QED BY <1>2, <2>1 DEF IntactTo
  <1>7. ASSUME NEW n \in 1 .. N, modules'[n].done
        PROVE  IntactTo(n, Len(modules[n].elf.segs))'
    <2>1. n < N /\ modules'[n] = modules[n] /\ n \in 1 .. Len(modules) /\ Placed(n) /\ N > 1
      BY <1>1, <1>2, <1>7 DEF Placed
    <2>2. PICK len \in Nat : len = Len(modules[n].elf.segs) /\ len <= Len(modules[n].elf.segs)
      BY <2>1, SegsCount DEF Placed, HeadersRead, After
    <2>3. IntactTo(n, len)
      BY <1>2, <1>7, <2>1, <2>2 DEF BytesInv, Entered
    <2> DEFINE pages == ModulePages(modules[N].elf.segs)
               fresh == FreshPages(brk, pages)
    <2>4. mem' = Overlay(mem, fresh) /\ brk' = brk + pages * PAGE
      BY <1>1, <2>1 DEF MapModule, IsProgram, Current
    <2>5. pages * PAGE \in Nat
      <3>1. N \in 2 .. Len(modules)
        BY <1>1, <2>1
      <3> QED BY <1>0, <1>4, <3>1, SpaceType DEF Space
    <2>6. DOMAIN fresh = brk .. brk' - 1 /\ IsCells(fresh) /\ brk' \in Nat
      <3> HIDE DEF pages
      <3>1. DOMAIN fresh = brk .. brk + pages * PAGE - 1 /\ IsCells(fresh)
        BY FreshIs
      <3> HIDE DEF fresh
      <3>2. PICK S \in Nat : S = pages * PAGE
        BY <2>5
      <3> QED BY <1>0, <2>4, <3>1, <3>2
    <2> HIDE DEF fresh
    <2>7. Replaces(mem', mem, fresh)
      BY <1>0, <2>4, <2>6, OverlayIs DEF MemoryInv
    <2>8. ASSUME NEW i \in 1 .. len, NEW k, Loadable(n, i, k), Address(n, i, k) \in DOMAIN mem
          PROVE  /\ Address(n, i, k) \in DOMAIN mem'
                 /\ mem'[Address(n, i, k)].byte = mem[Address(n, i, k)].byte
      <3>1. i \in 1 .. Len(modules[n].elf.segs)
        BY <2>2
      <3>2. Address(n, i, k) \in Nat
        BY <2>1, <2>8, <3>1, BytesWhere
      <3>3. Address(n, i, k) \notin brk .. brk' - 1
        <4>1. CASE n = 1
          <5>1. Address(n, i, k) \in DOMAIN ProgramPages(modules[1].elf.segs[i])
            BY <2>1, <2>8, <3>1, <4>1, BytesWhere
          <5>2. modules' # <<>> /\ modules'[1].elf = modules[1].elf
            BY <1>2, <2>1, <4>1
          <5>3. modules[1].elf.segs[i].type = "LOAD"
            BY <2>8, <4>1 DEF Loadable
          <5>4. Address(n, i, k) < HeapStart \/ Address(n, i, k) >= brk'
            BY <3>1, <4>1, <5>1, <5>2, <5>3 DEF ProgramApart
          <5>5. HeapStart <= brk /\ HeapStart \in Nat
            BY <1>0, SizesAssumption DEF MemoryInv
          <5> QED BY <1>0, <2>6, <3>2, <5>4, <5>5
        <4>2. CASE n > 1
          <5>1. Address(n, i, k) \in Reach(n)
            BY <2>1, <2>8, <3>1, <4>2, BytesWhere
          <5>2. n \in 2 .. Len(modules)
            BY <2>1, <4>2
          <5>3. Address(n, i, k) < brk
            BY <1>0, <2>1, <5>1, <5>2, ReachIs
          <5> QED BY <1>0, <3>2, <5>3
        <4> QED BY <4>1, <4>2
      <3> QED BY <2>6, <2>7, <2>8, <3>3 DEF Replaces
    <2>9. IntactTo(n, len)'
      BY <1>3, <2>1, <2>2, <2>3, <2>8, IntactKept
    <2> QED BY <2>1, <2>2, <2>9
  <1> QED BY <1>2, <1>6, <1>7 DEF BytesInv, Entered

\* Linking moves words, and the last segment has been loaded before it.
LEMMA BytesLinked ==
  ASSUME LoadInv, BytesInv, LinkModule
  PROVE  BytesInv'
  <1>0. Len(modules) \in Nat /\ FileInv /\ ModulesInv /\ MemoryInv
    BY DEF LoadInv, ModulesInv, TaskOK
  <1>1. PICK N \in Nat : N = Len(modules)
    BY <1>0
  <1>2. /\ N > 0 /\ Len(modules') = N
        /\ \A n \in 1 .. N : n < N => modules'[n] = modules[n]
        /\ modules'[N].elf = modules[N].elf /\ modules'[N].fh = modules[N].fh
        /\ modules'[N].base = modules[N].base
        /\ task.pc = "segment" /\ task'.pc # "segment" /\ ~ Entered /\ ~ Entered'
        /\ N = 1 => mem' = mem
    BY <1>0, <1>1, LinkStep DEF Linked, Entered
  <1>3. FilesLast
    BY <1>0, LaterStep
  <1>4. \A a \in DOMAIN mem : a \in DOMAIN mem' /\ mem'[a].byte = mem[a].byte
    <2>1. CASE mem' = mem
      BY <2>1
    <2>2. CASE mem' # mem
      <3>1. N > 1
        BY <1>2, <2>2
      <3>2. Moves(mem', mem, Named(modules[N].elf), modules[N].base)
        BY <1>0, <1>1, <2>2, <3>1, LinkMoves
      <3> QED BY <3>2 DEF Moves
    <2> QED BY <2>1, <2>2
  <1>5. HeadersRead(N) /\ N \in 1 .. Len(modules)
    BY <1>1, <1>2 DEF HeadersRead, After
  <1>6. IntactTo(N, Len(modules[N].elf.segs))
    <2>1. Len(modules[N].elf.segs) \in Nat
      BY <1>5, SegsCount
    <2>2. task.seg <= Len(modules[N].elf.segs) + 1 /\ IntactTo(N, task.seg - 1)
      BY <1>1, <1>2, <1>5 DEF BytesInv
    <2>3. task.seg > Len(modules[N].elf.segs) /\ task.seg \in Nat
      BY <1>0, <1>1 DEF LinkModule, Current, ModulesInv, TaskOK
    <2>4. task.seg - 1 = Len(modules[N].elf.segs)
      BY <2>1, <2>2, <2>3
    <2> QED BY <2>2, <2>4
  <1>7. ASSUME NEW n \in 1 .. Len(modules'), modules'[n].done
        PROVE  /\ n \in 1 .. Len(modules) /\ Placed(n)
               /\ modules'[n].fh = modules[n].fh /\ modules'[n].elf = modules[n].elf
               /\ modules'[n].base = modules[n].base
               /\ IntactTo(n, Len(modules[n].elf.segs))
    <2>1. n \in 1 .. N /\ n \in 1 .. Len(modules) /\ Placed(n)
      BY <1>1, <1>2 DEF Placed
    <2>2. CASE n < N
      <3>1. modules'[n] = modules[n]
        BY <1>2, <2>1, <2>2
      <3>2. IntactTo(n, Len(modules[n].elf.segs))
        BY <1>2, <1>7, <2>1, <3>1 DEF BytesInv
      <3> QED BY <2>1, <3>1, <3>2
    <2>3. CASE n = N
      BY <1>2, <1>6, <2>1, <2>3
    <2> QED BY <2>1, <2>2, <2>3
  <1> QED BY <1>2, <1>3, <1>4, <1>7, BytesKept

\* The bytes of a segment are not those of another module, or of another segment of
\* the same library; they take over pages of the program.
LEMMA BytesLoaded ==
  ASSUME LoadInv, BytesInv, LoadSegment, ProgramApart
  PROVE  BytesInv'
  <1>0. Len(modules) \in Nat /\ FileInv /\ ModulesInv /\ MemoryInv /\ brk \in Nat /\ HeapStart \in Nat
    BY SizesAssumption DEF LoadInv, ModulesInv, TaskOK, MemoryInv
  <1>1. PICK N \in Nat : N = Len(modules)
    BY <1>0
  <1>2. /\ modules' = modules /\ modules # <<>>
        /\ task.pc = "segment" /\ task'.pc = "segment" /\ task'.seg = task.seg + 1
    BY <1>0, OtherStep
  <1>3. FilesLast
    BY <1>0, LaterStep
  <1>4. /\ N \in 1 .. Len(modules) /\ HeadersRead(N) /\ modules \in Seq(Modules)
        /\ task.seg \in Nat \ {0}
    BY <1>0, <1>1, <1>2 DEF ModulesInv, TaskOK, HeadersRead, After
  <1>5. \A n \in 1 .. N : Placed(n)
    BY <1>2 DEF Placed
  <1>6. Len(modules[N].elf.segs) \in Nat
    BY <1>4, SegsCount
  <1>7. PICK q \in Nat : q = task.seg /\ q \in 1 .. Len(modules[N].elf.segs)
    BY <1>1, <1>4, <1>6 DEF LoadSegment, Current
  <1>8. IntactTo(N, q - 1)
    BY <1>1, <1>2, <1>4, <1>7 DEF BytesInv
  <1>9. PICK s : s = modules[N].elf.segs[q]
    OBVIOUS
  \* The addresses that change.
  <1>10. PICK W : /\ s.type # "LOAD" => W = {}
                  /\ s.type = "LOAD" /\ N > 1 => W = {Address(N, q, k) : k \in 0 .. s.filesz - 1}
                  /\ s.type = "LOAD" /\ N = 1 => W = DOMAIN ProgramPages(s)
    <2>1. CASE s.type # "LOAD"
      BY <2>1
    <2>2. CASE s.type = "LOAD" /\ N > 1
      <3>1. PICK X : X = {Address(N, q, k) : k \in 0 .. s.filesz - 1}
        OBVIOUS
      <3>2. N # 1
        BY <2>2
      <3> QED BY <2>2, <3>1, <3>2
    <2>3. CASE s.type = "LOAD" /\ N = 1
      BY <2>3
    <2> QED BY <1>1, <1>4, <2>1, <2>2, <2>3
  <1>11. \A a \in DOMAIN mem : a \notin W => a \in DOMAIN mem' /\ mem'[a] = mem[a]
    <2>1. CASE s.type # "LOAD"
      BY <1>1, <1>7, <1>9, <2>1 DEF LoadSegment, Current
    <2>2. CASE s.type = "LOAD"
      <3>1. PICK at, f : at = modules[N].base + s.vaddr /\ f = FileOf(modules[N])
        OBVIOUS
      <3>2. /\ at \in Nat /\ (N # 1 => Mapped(s) = mem)
            /\ N = 1 => Replaces(Mapped(s), mem, ProgramPages(s)) /\ at = s.vaddr
            /\ Written(mem', Mapped(s), at, s.filesz, files[f], s.offset)
        BY <1>0, <1>1, <1>7, <1>9, <2>2, <3>1, SegmentWritten
      <3>3. s.vaddr \in Nat /\ s.filesz \in Nat
        BY <1>0, <1>1, <1>7, <1>9, <2>2, <3>1, SegmentRead
      <3>4. \A a \in at .. at + s.filesz - 1 : a \in W
        <4>1. CASE N = 1
          BY <1>10, <2>2, <3>2, <3>3, <4>1, ProgramHolds
        <4>2. CASE N > 1
          <5>1. ASSUME NEW a \in at .. at + s.filesz - 1 PROVE a \in W
            <6>1. a - at \in 0 .. s.filesz - 1 /\ at + (a - at) = a
              BY <3>2, <3>3
            <6>2. Address(N, q, a - at) = at + (a - at)
              BY <1>9, <3>1 DEF Address
            <6> QED BY <1>10, <2>2, <4>2, <6>1, <6>2
          <5> QED BY <5>1
        <4> QED BY <1>1, <1>4, <4>1, <4>2
      <3>5. CASE N = 1
        <4>1. \A a \in DOMAIN mem : a \notin W => a \in DOMAIN Mapped(s) /\ Mapped(s)[a] = mem[a]
          BY <1>10, <2>2, <3>2, <3>5 DEF Replaces
        <4> QED BY <3>2, <3>4, <4>1 DEF Written
      <3>6. CASE N # 1
        BY <3>2, <3>4, <3>6 DEF Written
      <3> QED BY <3>5, <3>6
    <2> QED BY <2>1, <2>2
  <1>12. ASSUME NEW n \in 1 .. N, modules[n].done
         PROVE  IntactTo(n, Len(modules[n].elf.segs))'
    <2>1. n < N /\ n \in 1 .. Len(modules) /\ Placed(n) /\ N > 1 /\ Placed(N)
      BY <1>0, <1>1, <1>2, <1>5, <1>12 DEF ModulesInv, InTurn
    <2>2. PICK len \in Nat : len = Len(modules[n].elf.segs) /\ len <= Len(modules[n].elf.segs)
      BY <2>1, SegsCount DEF Placed, HeadersRead, After
    <2>3. IntactTo(n, len)
      BY <1>2, <1>12, <2>1, <2>2 DEF BytesInv, Entered
    <2>4. ASSUME NEW w \in W
          PROVE  w \in Nat /\ HeapStart <= w /\ w < brk /\ modules[N].base <= w
      <3>1. s.type = "LOAD"
        BY <1>10
      <3>2. PICK j \in 0 .. s.filesz - 1 : w = Address(N, q, j)
        BY <1>10, <2>1, <3>1
      <3>3. Loadable(N, q, j)
        BY <1>9, <3>1 DEF Loadable
      <3>4. w \in Reach(N)
        BY <1>4, <1>7, <2>1, <3>2, <3>3, BytesWhere
      <3>5. N \in 2 .. Len(modules)
        BY <1>1, <2>1
      <3>6. modules[N].base \in Nat /\ w \in Nat /\ modules[N].base <= w /\ w < brk
        BY <1>0, <2>1, <3>4, <3>5, ReachIs
      <3>7. HeapStart <= modules[N].base
        BY <1>0, <2>1, <3>5 DEF MemoryInv, InMemory
      <3> QED BY <1>0, <3>6, <3>7
    <2>5. ASSUME NEW i \in 1 .. len, NEW k, Loadable(n, i, k), Address(n, i, k) \in DOMAIN mem
          PROVE  /\ Address(n, i, k) \in DOMAIN mem'
                 /\ mem'[Address(n, i, k)].byte = mem[Address(n, i, k)].byte
      <3>1. i \in 1 .. Len(modules[n].elf.segs)
        BY <2>2
      <3>2. PICK a : a = Address(n, i, k)
        OBVIOUS
      <3>3. /\ a \in Nat
            /\ n = 1 => a \in DOMAIN ProgramPages(modules[n].elf.segs[i])
            /\ n > 1 => a \in Reach(n)
        BY <2>1, <2>5, <3>1, <3>2, BytesWhere
      <3>4. a \notin W
        <4>1. CASE n = 1
          <5>1. modules[1].elf.segs[i].type = "LOAD"
            BY <2>5, <4>1 DEF Loadable
          <5>2. a < HeapStart \/ a >= brk
            BY <1>2, <3>1, <3>3, <4>1, <5>1 DEF ProgramApart
          <5> QED BY <1>0, <2>4, <3>3, <5>2
        <4>2. CASE n > 1
          <5>1. n \in 2 .. Len(modules) /\ N \in 2 .. Len(modules)
            BY <1>1, <2>1, <4>2
          <5>2. modules[n].base \in Nat /\ Space(n) \in Nat /\ a < modules[n].base + Space(n)
            BY <1>0, <2>1, <3>3, <4>2, <5>1, ReachIs
          <5>3. modules[n].base + Space(n) <= modules[N].base
            BY <1>0, <2>1, <5>1 DEF MemoryInv
          <5>4. modules[N].base \in Nat
            BY <1>0, <2>1, <5>1, ReachIs
          <5>5. a < modules[N].base
            BY <3>3, <5>2, <5>3, <5>4
          <5> QED BY <2>4, <3>3, <5>4, <5>5
        <4> QED BY <4>1, <4>2
      <3> QED BY <1>11, <2>5, <3>2, <3>4
    <2>6. IntactTo(n, len)'
      BY <1>2, <1>3, <2>1, <2>2, <2>3, <2>5, IntactKept
    <2> QED BY <1>2, <2>2, <2>6
  <1>13. ASSUME NEW i \in 1 .. q, NEW k, Loadable(N, i, k)
         PROVE  TakenOver(N, i, q, Address(N, i, k)) \/ IntactAt(N, i, k)'
    <2>1. i \in 1 .. Len(modules[N].elf.segs) /\ Placed(N)
      BY <1>1, <1>4, <1>5, <1>6, <1>7
    <2>2. PICK a : a = Address(N, i, k) /\ a = Address(N, i, k)'
      BY <1>2 DEF Address
    <2>3. CASE i = q
      <3>1. s.type = "LOAD" /\ k \in 0 .. s.filesz - 1
        BY <1>9, <1>13, <2>3 DEF Loadable
      <3>2. PICK at, f : at = modules[N].base + s.vaddr /\ f = FileOf(modules[N])
        OBVIOUS
      <3>3. at \in Nat /\ Written(mem', Mapped(s), at, s.filesz, files[f], s.offset)
        BY <1>0, <1>1, <1>7, <1>9, <3>1, <3>2, SegmentWritten
      <3>4. k \in Nat /\ k < s.filesz /\ s.filesz \in Nat /\ f # NULL
        BY <1>4, <1>9, <1>13, <2>1, <2>3, <3>2, BytesWhere
      <3>5. a = at + k
        BY <1>9, <2>2, <2>3, <3>2 DEF Address
      <3>6. a \in at .. at + s.filesz - 1 /\ a - at = k
        BY <3>3, <3>4, <3>5
      <3>7. a \in DOMAIN mem' /\ mem'[a].byte = FileByte(files[f], s.offset + k)
        BY <3>3, <3>6 DEF Written
      <3>8. FileOf(modules[N])' = f /\ SameFile(files[f], files'[f])
        BY <1>0, <1>2, <1>3, <1>4, <3>2, <3>4, FileKept
      <3>9. FileByte(files'[f], s.offset + k) = FileByte(files[f], s.offset + k)
        BY <3>8 DEF FileByte, SameFile
      <3>10. modules'[N].elf.segs[i] = s
        BY <1>2, <1>9, <2>3
      <3> QED BY <2>2, <3>7, <3>8, <3>9, <3>10 DEF IntactAt
    <2>4. CASE i < q
      <3>1. i \in 1 .. q - 1
        BY <1>7, <2>4
      <3>2. CASE TakenOver(N, i, q - 1, a)
        <4>1. \A j \in i + 1 .. q - 1 : j \in i + 1 .. q
          BY <1>7
        <4> QED BY <2>2, <3>2, <4>1 DEF TakenOver
      <3>3. CASE IntactAt(N, i, k) /\ a \in W
        <4>1. s.type = "LOAD"
          BY <1>10, <3>3
        <4>2. CASE N = 1
          <5>1. a \in DOMAIN ProgramPages(s) /\ q \in i + 1 .. q
            BY <1>7, <1>10, <2>4, <3>3, <4>1, <4>2
          <5> QED BY <1>9, <2>2, <4>1, <4>2, <5>1 DEF TakenOver
        <4>3. CASE N > 1
          <5>1. PICK j \in 0 .. s.filesz - 1 : a = Address(N, q, j)
            BY <1>10, <3>3, <4>1, <4>3
          <5>2. Loadable(N, q, j)
            BY <1>9, <4>1, <5>1 DEF Loadable
          <5>3. PICK r : r = modules[N].elf.segs[i]
            OBVIOUS
          <5>4. /\ modules[N].base \in Nat /\ r.vaddr \in Nat /\ r.filesz \in Nat /\ k \in Nat
                /\ k < r.filesz /\ modules[N].elf # NoElf
            BY <1>4, <1>13, <2>1, <5>3, BytesWhere
          <5>5. s.vaddr \in Nat /\ s.filesz \in Nat /\ j \in Nat /\ j < s.filesz
            BY <1>4, <1>7, <1>9, <2>1, <5>2, BytesWhere
          <5>6. modules[N].base + r.vaddr + k = modules[N].base + s.vaddr + j
            BY <1>9, <2>2, <5>1, <5>3 DEF Address
          <5>7. IsLibrary(modules[N].elf)
            <6>1. N \in 2 .. Len(modules)
              BY <1>1, <4>3
            <6> QED BY <1>0, <1>4, <5>4, <6>1, SpaceType
          <5>8. r.vaddr + r.filesz <= s.vaddr \/ s.vaddr + s.filesz <= r.vaddr
            <6>1. r.type = "LOAD"
              BY <1>13, <5>3 DEF Loadable
            <6> QED BY <1>7, <1>9, <2>1, <2>4, <4>1, <5>3, <5>7, <6>1 DEF IsLibrary
          <5>9. \A b, v, z, x, u, y, w \in Nat :
                  x < z /\ w < y /\ (v + z <= u \/ u + y <= v) => b + v + x # b + u + w
            OBVIOUS
          <5> QED BY <5>4, <5>5, <5>6, <5>8, <5>9
        <4> QED BY <1>1, <1>4, <4>2, <4>3
      <3>4. CASE IntactAt(N, i, k) /\ a \notin W
        <4>1. a \in DOMAIN mem
          BY <2>2, <3>4 DEF IntactAt
        <4>2. a \in DOMAIN mem' /\ mem'[a].byte = mem[a].byte
          BY <1>11, <3>4, <4>1
        <4> QED BY <1>2, <1>3, <1>4, <1>13, <2>1, <2>2, <3>4, <4>2, ByteKept
      <3> QED BY <1>8, <1>13, <2>2, <3>1, <3>2, <3>3, <3>4 DEF IntactTo
    <2> QED BY <1>7, <2>3, <2>4
  <1>14. (\A n \in 1 .. Len(modules) : n = Len(modules) =>
            task.seg <= Len(modules[n].elf.segs) + 1 /\ IntactTo(n, task.seg - 1))'
    <2>1. task'.seg - 1 = q /\ task'.seg <= Len(modules'[N].elf.segs) + 1
      BY <1>2, <1>6, <1>7
    <2>2. ASSUME NEW i \in 1 .. q, NEW k, Loadable(N, i, k)'
          PROVE  TakenOver(N, i, q, Address(N, i, k))' \/ IntactAt(N, i, k)'
      <3>1. Loadable(N, i, k)
        BY <1>2, <2>2 DEF Loadable
      <3>2. TakenOver(N, i, q, Address(N, i, k))' <=> TakenOver(N, i, q, Address(N, i, k))
        BY <1>2 DEF TakenOver, Address
      <3> QED BY <1>13, <3>1, <3>2
    <2>3. IntactTo(N, q)'
      BY <2>2 DEF IntactTo
    <2>4. IntactTo(N, task.seg - 1)'
      BY <2>1, <2>3 DEF IntactTo, TakenOver
    <2> QED BY <1>1, <1>2, <2>1, <2>4
  <1> QED BY <1>1, <1>2, <1>12, <1>14 DEF BytesInv, Entered

-----------------------------------------------------------------------------
(* The program and the heap *)

\* What L libraries of the largest size would take is more than these take.
LEMMA Share ==
  ASSUME NEW L \in Nat, NEW X \in Nat, NEW T \in Nat, NEW D \in Nat,
         L > 0, T <= L, L * X <= T * D
  PROVE  X <= D
  <1> SUFFICES ASSUME X > D PROVE FALSE
    OBVIOUS
  <1>1. PICK y \in Nat : X = D + (1 + y)
    <2>1. X - D - 1 \in Nat /\ X = D + (1 + (X - D - 1))
      OBVIOUS
    <2> QED BY <2>1
  <1>2. PICK z \in Nat : L = T + z
    <2>1. L - T \in Nat /\ L = T + (L - T)
      OBVIOUS
    <2> QED BY <2>1
  <1>3. /\ L * D \in Nat /\ L * y \in Nat /\ T * D \in Nat /\ z * D \in Nat
    OBVIOUS
  <1>4. L * X = L * D + (L + L * y)
    BY <1>1
  <1>5. L * D = T * D + z * D
    BY <1>2
  <1> QED BY <1>3, <1>4, <1>5

\* One more library.
LEMMA ShareNext ==
  ASSUME NEW L \in Nat, NEW X \in Nat, NEW T \in Nat, NEW D \in Nat, NEW S \in Nat,
         L * X <= T * D, L * S <= D
  PROVE  L * (X + S) <= (T + 1) * D
  <1>1. L * X \in Nat /\ L * S \in Nat /\ T * D \in Nat
    OBVIOUS
  <1>2. L * (X + S) = L * X + L * S /\ (T + 1) * D = T * D + D
    OBVIOUS
  <1> QED BY <1>1, <1>2

\* Libraries that have pages, at most.
Taken == IF task.pc \in {"header", "map"} THEN Len(modules) - 2 ELSE Len(modules) - 1

\* The pages of the segments of a program.
PagesOf(elf) ==
  {a \in Nat : \E i \in 1 .. Len(elf.segs) :
     elf.segs[i].type = "LOAD" /\ a \in DOMAIN ProgramPages(elf.segs[i])}

\* The heap up to top is no more than n shares of what there is below the program.
Fits(elf, n, top) ==
  \A a \in PagesOf(elf) : HeapStart <= a =>
    Len(elf.needed) * (top - HeapStart) <= n * (a - HeapStart)

\* The libraries so far have taken their shares.
HeapInv ==
  /\ Len(modules) < 2 => brk = HeapStart
  /\ Len(modules) > 1 => Fits(modules[1].elf, Taken, brk)

\* An empty heap, and more shares.
LEMMA FitsMore ==
  ASSUME NEW elf, Len(elf.needed) \in Nat, NEW n \in Nat, NEW m \in Nat, n <= m,
         NEW top \in Nat, HeapStart <= top, top = HeapStart \/ Fits(elf, n, top)
  PROVE  Fits(elf, m, top)
  <1> SUFFICES ASSUME NEW a \in PagesOf(elf), HeapStart <= a
               PROVE  Len(elf.needed) * (top - HeapStart) <= m * (a - HeapStart)
    BY DEF Fits
  <1>1. PICK L \in Nat, X \in Nat, D \in Nat :
          L = Len(elf.needed) /\ X = top - HeapStart /\ D = a - HeapStart
    <2>1. a \in Nat /\ HeapStart \in Nat
      BY SizesAssumption DEF PagesOf
    <2>2. top - HeapStart \in Nat /\ a - HeapStart \in Nat
      BY <2>1
    <2> QED BY <2>2
  <1>2. CASE top = HeapStart
    <2>1. X = 0
      BY <1>1, <1>2, SizesAssumption
    <2>2. L * X = 0 /\ m * D \in Nat
      BY <2>1
    <2> QED BY <1>1, <2>2
  <1>3. CASE Fits(elf, n, top)
    <2>1. L * X <= n * D
      BY <1>1, <1>3 DEF Fits
    <2>2. PICK z \in Nat : m = n + z
      <3>1. m - n \in Nat /\ m = n + (m - n)
        OBVIOUS
      <3> QED BY <3>1
    <2>3. m * D = n * D + z * D /\ z * D \in Nat /\ n * D \in Nat /\ L * X \in Nat
      BY <2>2
    <2>4. L * X <= m * D
      BY <2>1, <2>3
    <2> QED BY <1>1, <2>4
  <1> QED BY <1>2, <1>3

\* The entry of the program.
LEMMA ProgramKnown ==
  ASSUME LoadInv, NEW N \in Nat, N = Len(modules), N > 1
  PROVE  /\ \E k \in 1 .. Len(disk) : IsFound(disk, Program, k) /\ modules[1].elf = disk[k].elf
         /\ Len(modules[1].elf.needed) \in Nat /\ N - 1 <= Len(modules[1].elf.needed)
  <1>1. 1 \in 1 .. Len(modules) /\ N \in 2 .. Len(modules) /\ 1 < Len(modules)
    OBVIOUS
  <1>2. HeadersRead(1) /\ modules[1].done
    BY <1>1 DEF HeadersRead, LoadInv, ModulesInv, InTurn
  <1>3. PICK k \in 1 .. Len(disk) : FromEntry(1, k) /\ modules[1].elf = disk[k].elf
    BY <1>1, <1>2 DEF LoadInv, ModulesInv, HeadersRight
  <1>4. IsFound(disk, Program, k)
    BY <1>3 DEF FromEntry, NameOf
  <1>5. WellFormed(disk[k])
    BY <1>1, <1>3, EntryKnown DEF LoadInv
  <1>6. Len(modules[1].elf.needed) \in Nat
    BY <1>3, <1>5 DEF WellFormed
  <1>7. N - 1 <= Len(modules[1].elf.needed)
    BY <1>1 DEF LoadInv, ModulesInv, InTurn
  <1> QED BY <1>3, <1>4, <1>6, <1>7

\* The same, of the libraries that it needs.
LEMMA KnownNext ==
  LoadInv /\ Len(modules) \in Nat /\ Len(modules) > 1 => Len(modules[1].elf.needed) \in Nat
  BY ProgramKnown

\* So that alloc() has not reached the program.
LEMMA HeapApart ==
  ASSUME LoadInv, HeapInv
  PROVE  ProgramApart
  <1>0. /\ brk \in Nat /\ HeapStart \in Nat /\ HeapStart <= brk
        /\ modules \in Seq(Modules) /\ Len(modules) \in Nat
    BY SizesAssumption DEF LoadInv, MemoryInv, ModulesInv, TaskOK
  <1>1. PICK N \in Nat : N = Len(modules)
    BY <1>0
  <1> SUFFICES ASSUME modules # <<>>, NEW i \in 1 .. Len(modules[1].elf.segs),
                      modules[1].elf.segs[i].type = "LOAD",
                      NEW a \in DOMAIN ProgramPages(modules[1].elf.segs[i])
               PROVE  a < HeapStart \/ a >= brk
    BY DEF ProgramApart
  <1>2. a \in Int
    <2>1. PICK from, to : DOMAIN ProgramPages(modules[1].elf.segs[i]) = from .. to
      BY FreshIs DEF ProgramPages
    <2> QED BY <2>1
  <1>3. CASE N > 1
    <2>1. PICK elf : elf = modules[1].elf
      OBVIOUS
    <2>2. PICK L \in Nat : L = Len(elf.needed) /\ N - 1 <= L
      BY <1>1, <1>3, <2>1, ProgramKnown
    <2>3. CASE HeapStart <= a
      <3>1. a \in PagesOf(elf)
        BY <1>0, <1>2, <2>1, <2>3 DEF PagesOf
      <3>2. PICK T \in Nat : T = Taken /\ T <= N - 1
        <4>1. Taken \in Nat /\ Taken <= N - 1
          BY <1>1, <1>3 DEF Taken
        <4> QED BY <4>1
      <3>3. PICK X \in Nat, D \in Nat : X = brk - HeapStart /\ D = a - HeapStart
        <4>1. brk - HeapStart \in Nat /\ a - HeapStart \in Nat
          BY <1>0, <1>2, <2>3
        <4> QED BY <4>1
      <3>4. Fits(elf, T, brk)
        BY <1>1, <1>3, <2>1, <3>2 DEF HeapInv
      <3>5. L * X <= T * D
        BY <2>2, <2>3, <3>1, <3>3, <3>4 DEF Fits
      <3>6. L > 0 /\ T <= L
        BY <1>3, <2>2, <3>2
      <3>7. X <= D
        BY <3>5, <3>6, Share
      <3> QED BY <1>0, <1>2, <3>3, <3>7
    <2> QED BY <1>0, <1>2, <2>3
  <1>4. CASE N = 1
    <2>1. brk = HeapStart
      BY <1>1, <1>4 DEF HeapInv
    <2> QED BY <1>0, <1>2, <2>1
  <1>5. N > 0
    BY <1>0, <1>1
  <1> QED BY <1>3, <1>4, <1>5

\* A step that takes no pages.
LEMMA HeapKept ==
  ASSUME LoadInv, LoadInv', HeapInv, brk' = brk, NEW N \in Nat, N = Len(modules),
         NEW M \in Nat, M = Len(modules'), N <= M,
         N > 1 => modules'[1].elf = modules[1].elf /\ Taken <= Taken'
  PROVE  HeapInv'
  <1>0. brk \in Nat /\ HeapStart \in Nat /\ HeapStart <= brk
    BY SizesAssumption DEF LoadInv, MemoryInv
  <1>1. CASE M < 2
    BY <1>1 DEF HeapInv
  <1>2. CASE M > 1
    <2>1. PICK elf : elf = modules'[1].elf
      OBVIOUS
    <2>2. Len(elf.needed) \in Nat
      <3>1. Len(modules[1].elf.needed)' \in Nat
        <4>1. (Len(modules) > 1)' /\ (Len(modules) \in Nat)'
          BY <1>2
        <4>2. (LoadInv /\ Len(modules) \in Nat /\ Len(modules) > 1 => Len(modules[1].elf.needed) \in Nat)'
          BY KnownNext, PTL
        <4> QED BY <4>1, <4>2
      <3> QED BY <2>1, <3>1
    <2>3. PICK n \in Nat, m \in Nat : m = Taken' /\ n <= m /\ (N > 1 => n = Taken)
      <3>1. Taken' \in Nat
        BY <1>2 DEF Taken
      <3>2. N > 1 => Taken \in Nat
        BY DEF Taken
      <3> QED BY <3>1, <3>2
    <2>4. brk = HeapStart \/ Fits(elf, n, brk)
      BY <2>1, <2>3 DEF HeapInv
    <2>5. Fits(elf, m, brk)
      BY <1>0, <2>2, <2>3, <2>4, FitsMore
    <2>6. Fits(modules'[1].elf, Taken', brk')
      BY <2>1, <2>3, <2>5
    <2>7. HeapInv' <=> /\ Len(modules') < 2 => brk' = HeapStart
                       /\ Len(modules') > 1 => Fits(modules'[1].elf, Taken', brk')
      BY DEF HeapInv
    <2> QED BY <1>2, <2>6, <2>7
  <1> QED BY <1>1, <1>2

\* Pages for one more library.
LEMMA FitsNext ==
  ASSUME NEW elf, Len(elf.needed) \in Nat, NEW n \in Nat, NEW top \in Nat, HeapStart <= top,
         Fits(elf, n, top), NEW S \in Nat,
         \A a \in PagesOf(elf) : HeapStart <= a => Len(elf.needed) * S <= a - HeapStart
  PROVE  Fits(elf, n + 1, top + S)
  <1> SUFFICES ASSUME NEW a \in PagesOf(elf), HeapStart <= a
               PROVE  Len(elf.needed) * ((top + S) - HeapStart) <= (n + 1) * (a - HeapStart)
    BY DEF Fits
  <1>1. PICK L \in Nat, X \in Nat, D \in Nat :
          L = Len(elf.needed) /\ X = top - HeapStart /\ D = a - HeapStart
    <2>1. a \in Nat /\ HeapStart \in Nat
      BY SizesAssumption DEF PagesOf
    <2>2. top - HeapStart \in Nat /\ a - HeapStart \in Nat
      BY <2>1
    <2> QED BY <2>2
  <1>2. L * X <= n * D /\ L * S <= D
    BY <1>1 DEF Fits
  <1>3. L * (X + S) <= (n + 1) * D
    BY <1>2, ShareNext
  <1>4. (top + S) - HeapStart = X + S
    BY <1>1, SizesAssumption
  <1> QED BY <1>1, <1>3, <1>4

\* As many libraries as the program needs, of the size of the one that is mapped,
\* lie below its pages.
LEMMA LibraryShare ==
  ASSUME LoadInv, NEW N \in Nat, N = Len(modules), N > 1, task.pc = "map",
         NEW elf, elf = modules[1].elf
  PROVE  \A a \in PagesOf(elf) : HeapStart <= a => Len(elf.needed) * Space(N) <= a - HeapStart
  <1>1. N \in 1 .. Len(modules) /\ N \in 2 .. Len(modules) /\ HeadersRead(N) /\ disk \in Disks
    BY DEF HeadersRead, After, LoadInv, FileInv
  <1>2. PICK k \in 1 .. Len(disk) : IsFound(disk, Program, k) /\ elf = disk[k].elf
    BY ProgramKnown
  <1>3. N - 1 \in 1 .. Len(elf.needed)
    BY ProgramKnown
  <1>4. PICK n : n = ModulePages(modules[N].elf.segs)
    OBVIOUS
  <1>5. DEFINE libs == {j \in 1 .. Len(disk) :
                          \E i \in 1 .. Len(elf.needed) : IsFound(disk, elf.needed[i], j)}
  <1>6. n \in {ModulePages(NoElf.segs)} \cup {ModulePages(disk[j].elf.segs) : j \in libs}
    <2>1. CASE modules[N].elf = NoElf
      BY <1>4, <2>1
    <2>2. CASE \E j \in 1 .. Len(disk) : FromEntry(N, j) /\ modules[N].elf = disk[j].elf
      <3>1. PICK j \in 1 .. Len(disk) : FromEntry(N, j) /\ modules[N].elf = disk[j].elf
        BY <2>2
      <3>2. IsFound(disk, elf.needed[N - 1], j)
        BY <3>1 DEF FromEntry, NameOf
      <3>3. j \in libs
        BY <1>3, <3>2
      <3> QED BY <1>4, <3>1, <3>3
    <2> QED BY <1>1, <2>1, <2>2 DEF LoadInv, ModulesInv, HeadersRight
  <1>7. \A i \in 1 .. Len(elf.segs) : elf.segs[i].type = "LOAD" =>
          \A a \in DOMAIN ProgramPages(elf.segs[i]) :
            a < HeapStart \/ HeapStart + Len(elf.needed) * (n * PAGE) <= a
    BY <1>1, <1>2, <1>6, HeapAssumption
  <1> SUFFICES ASSUME NEW a \in PagesOf(elf), HeapStart <= a
               PROVE  Len(elf.needed) * Space(N) <= a - HeapStart
    OBVIOUS
  <1>8. a \in Nat /\ HeapStart \in Nat /\ Space(N) \in Nat /\ Len(elf.needed) \in Nat
    BY <1>1, SizesAssumption, SpaceType, ProgramKnown DEF PagesOf, LoadInv
  <1>9. HeapStart + Len(elf.needed) * (n * PAGE) <= a
    BY <1>7, <1>8 DEF PagesOf
  <1>10. n * PAGE = Space(N)
    BY <1>4 DEF Space
  <1>11. PICK P \in Nat : P = Len(elf.needed) * Space(N)
    BY <1>8
  <1>12. HeapStart + P <= a
    BY <1>9, <1>10, <1>11
  <1> QED BY <1>8, <1>11, <1>12

\* A library takes its share.
LEMMA HeapMapped ==
  ASSUME LoadInv, HeapInv, MapModule
  PROVE  HeapInv'
  <1>0. FileInv /\ ModulesInv /\ brk \in Nat /\ HeapStart \in Nat /\ HeapStart <= brk
    BY SizesAssumption DEF LoadInv, MemoryInv
  <1>1. PICK N \in Nat : N = Len(modules)
    BY <1>0 DEF ModulesInv, TaskOK
  <1>2. /\ N > 0 /\ Len(modules') = N /\ task.pc = "map" /\ task'.pc = "segment"
        /\ \A n \in 1 .. N : n < N => modules'[n] = modules[n]
    BY <1>0, <1>1, MapStep
  <1>3. HeapInv' <=> /\ Len(modules') < 2 => brk' = HeapStart
                     /\ Len(modules') > 1 => Fits(modules'[1].elf, Taken', brk')
    BY DEF HeapInv
  <1>4. CASE N = 1
    <2>1. brk' = brk
      BY <1>1, <1>4 DEF MapModule, IsProgram
    <2>2. brk = HeapStart
      BY <1>1, <1>4 DEF HeapInv
    <2> QED BY <1>2, <1>3, <1>4, <2>1, <2>2
  <1>5. CASE N > 1
    <2>1. brk' = brk + Space(N)
      BY <1>1, <1>5 DEF MapModule, IsProgram, Current, Space
    <2>2. PICK elf : elf = modules[1].elf
      OBVIOUS
    <2>3. modules'[1].elf = elf
      BY <1>2, <1>5, <2>2
    <2>4. PICK n \in Nat : n = Taken /\ Taken' = n + 1
      <3>1. Taken = N - 2 /\ Taken' = N - 1
        BY <1>1, <1>2 DEF Taken
      <3>2. N - 2 \in Nat /\ N - 1 = (N - 2) + 1
        BY <1>5
      <3> QED BY <3>1, <3>2
    <2>5. Fits(elf, n, brk)
      BY <1>1, <1>5, <2>2, <2>4 DEF HeapInv
    <2>6. PICK S \in Nat : S = Space(N)
      <3>1. N \in 2 .. Len(modules) /\ HeadersRead(N)
        BY <1>1, <1>2, <1>5 DEF HeadersRead, After
      <3> QED BY <1>0, <3>1, SpaceType
    <2>7. \A a \in PagesOf(elf) : HeapStart <= a => Len(elf.needed) * S <= a - HeapStart
      BY <1>1, <1>2, <1>5, <2>2, <2>6, LibraryShare
    <2>8. Len(elf.needed) \in Nat
      BY <1>1, <1>5, <2>2, ProgramKnown
    <2>9. Fits(elf, n + 1, brk + S)
      BY <1>0, <2>5, <2>7, <2>8, FitsNext
    <2>10. Fits(modules'[1].elf, Taken', brk')
      BY <2>1, <2>3, <2>4, <2>6, <2>9
    <2> QED BY <1>2, <1>3, <1>5, <2>10
  <1> QED BY <1>2, <1>4, <1>5

\* Every step keeps it.
LEMMA HeapStep == LoadInv /\ LoadInv' /\ HeapInv /\ [Next]_vars => HeapInv'
  <1> SUFFICES ASSUME LoadInv, LoadInv', HeapInv, [Next]_vars PROVE HeapInv'
    OBVIOUS
  <1>0. FileInv /\ ModulesInv /\ Len(modules) \in Nat /\ Len(modules') \in Nat
    BY DEF LoadInv, ModulesInv, TaskOK
  <1>1. PICK N \in Nat, M \in Nat : N = Len(modules) /\ M = Len(modules')
    BY <1>0
  <1>2. CASE MapModule
    BY <1>2, HeapMapped
  <1>3. CASE UNCHANGED vars
    <2>1. brk' = brk /\ modules' = modules /\ task' = task
      BY <1>3 DEF vars
    <2>2. Taken' = Taken /\ (N > 1 => Taken \in Nat)
      BY <1>1, <2>1 DEF Taken
    <2>3. N <= M /\ (N > 1 => modules'[1].elf = modules[1].elf /\ Taken <= Taken')
      BY <1>1, <2>1, <2>2
    <2> QED BY <1>1, <2>1, <2>3, HeapKept
  <1>4. CASE TgaOpen \/ TgaHeader \/ TgaChunk
    <2>1. modules = <<>> /\ modules' = <<>>
      BY <1>0, <1>4, EarlyStep
    <2>2. brk' = brk
      BY <1>4 DEF TgaOpen, TgaHeader, TgaChunk
    <2> QED BY <2>1, <2>2 DEF HeapInv
  <1>5. CASE OpenProgram \/ NeededLib
    <2>1. /\ M = N + 1 /\ task'.pc = "header" /\ (modules # <<>> => task.pc = "needed")
          /\ \A n \in 1 .. N : modules'[n] = modules[n]
      BY <1>0, <1>1, <1>5, OpenStep
    <2>2. brk' = brk
      BY <1>5 DEF OpenProgram, NeededLib, OpenModule
    <2>3. N > 1 => /\ modules'[1].elf = modules[1].elf
                   /\ Taken = N - 1 /\ Taken' = M - 2
      <3>1. N > 1 => modules # <<>>
        BY <1>1
      <3>2. N > 1 => Taken = N - 1
        BY <1>1, <2>1, <3>1 DEF Taken
      <3>3. Taken' = M - 2
        BY <1>1, <2>1 DEF Taken
      <3> QED BY <2>1, <3>2, <3>3
    <2>4. N > 1 => Taken <= Taken'
      BY <2>1, <2>3
    <2> QED BY <1>1, <2>1, <2>2, <2>3, <2>4, HeapKept
  <1>6. CASE ReadHeaders
    <2>1. /\ M = N /\ task.pc = "header"
          /\ \A n \in 1 .. N : n < N => modules'[n] = modules[n]
      BY <1>0, <1>1, <1>6, HeadersStep
    <2>2. brk' = brk
      BY <1>6 DEF ReadHeaders
    <2>3. Taken = N - 2 /\ Taken' \in {N - 1, N - 2}
      BY <1>1, <2>1 DEF Taken
    <2>4. N > 1 => modules'[1].elf = modules[1].elf /\ Taken <= Taken'
      BY <2>1, <2>3
    <2>5. N <= M
      BY <1>1, <2>1
    <2> QED BY <1>1, <2>2, <2>4, <2>5, HeapKept
  <1>7. CASE LinkModule
    <2>1. /\ M = N /\ task.pc = "segment" /\ task'.pc \in {"frozen", "needed"}
          /\ \A n \in 1 .. N : n < N => modules'[n] = modules[n]
      BY <1>0, <1>1, <1>7, LinkStep
    <2>2. brk' = brk
      BY <1>7 DEF LinkModule
    <2>3. Taken = N - 1 /\ Taken' = N - 1
      BY <1>1, <2>1 DEF Taken
    <2>4. N > 1 => modules'[1].elf = modules[1].elf /\ Taken <= Taken'
      BY <2>1, <2>3
    <2>5. N <= M
      BY <1>1, <2>1
    <2> QED BY <1>1, <2>2, <2>4, <2>5, HeapKept
  <1>8. CASE LoadSegment \/ Enter \/ NoLibrary \/ \E i \in Calls : LookupSymbol(i)
    <2>1. /\ modules' = modules
          /\ task.pc \in {"segment", "needed", "running"}
          /\ task'.pc \in {"segment", "running", "trap"}
      BY <1>0, <1>8, OtherStep
    <2>2. brk' = brk
      BY <1>8 DEF LoadSegment, Enter, NoLibrary, LookupSymbol
    <2>3. Taken = N - 1 /\ Taken' = N - 1
      BY <1>1, <2>1 DEF Taken
    <2>4. N > 1 => modules'[1].elf = modules[1].elf /\ Taken <= Taken'
      BY <2>1, <2>3
    <2>5. N <= M
      BY <1>1, <2>1
    <2> QED BY <1>1, <2>2, <2>4, <2>5, HeapKept
  <1> QED BY <1>2, <1>3, <1>4, <1>5, <1>6, <1>7, <1>8 DEF Next, Load

-----------------------------------------------------------------------------
(* The GOT of the program *)

\* The words that elf_exec() and lookup_symbol_args() write.
GotWords(elf) == {elf.pltgot + 1, elf.pltgot + 2} \cup Slots(elf)

\* Pages of the program, as far as it is loaded, are mapped.
ProgramMapped ==
  modules # <<>> =>
    \A i \in 1 .. Len(modules[1].elf.segs) :
      /\ modules[1].elf.segs[i].type = "LOAD"
      /\ modules[1].done \/ (task.pc = "segment" /\ i < task.seg)
      => \A a \in DOMAIN ProgramPages(modules[1].elf.segs[i]) : a \in DOMAIN mem

\* A step writes these words.
Patches(words) ==
  /\ IsCells(words) /\ mem' = Overlay(mem, words)
  /\ fault' = (fault \/ ~ (DOMAIN words \subseteq DOMAIN mem))
  /\ \A a \in DOMAIN words : a \in GotWords(modules[1].elf) /\ a \in Patched'

\* Enter writes two entries of the GOT.
LEMMA EnterPatches ==
  ASSUME Enter, modules' = modules, task'.pc = "running"
  PROVE  \E words :
           /\ Patches(words)
           /\ DOMAIN words = {modules[1].elf.pltgot + 1, modules[1].elf.pltgot + 2}
           /\ words[modules[1].elf.pltgot + 1] = Word(ModuleAddr)
           /\ modules[1].elf.pltgot \in Nat =>
                words[modules[1].elf.pltgot + 2] = Word(LookupAddr)
  <1> DEFINE p == modules[1].elf.pltgot
             words == [a \in {p + 1, p + 2} |-> Word(IF a = p + 1 THEN ModuleAddr ELSE LookupAddr)]
  <1>1. /\ mem' = Overlay(mem, words)
        /\ fault' = (fault \/ ~ (DOMAIN words \subseteq DOMAIN mem))
    BY DEF Enter
  <1> HIDE DEF p
  <1>2. DOMAIN words = {p + 1, p + 2} /\ words[p + 1] = Word(ModuleAddr)
    OBVIOUS
  <1>3. p \in Nat => words[p + 2] = Word(LookupAddr)
    <2>1. p \in Nat => p + 1 # p + 2
      OBVIOUS
    <2> QED BY <2>1
  <1>4. \A a \in DOMAIN words : \E v : words[a] = Word(v)
    OBVIOUS
  <1> HIDE DEF words
  <1>5. IsCells(words)
    <2>1. ASSUME NEW a \in DOMAIN words PROVE words[a] = Cell(words[a].byte, words[a].plus)
      <3>1. PICK v : words[a] = Cell(NULL, v)
        BY <1>4 DEF Word, Cell
      <3> QED BY <3>1, CellFields
    <2> QED BY <2>1 DEF IsCells
  <1>6. \A a \in DOMAIN words : a \in GotWords(modules[1].elf) /\ a \in Patched'
    BY <1>2 DEF GotWords, Patched, Entered, p
  <1> QED BY <1>1, <1>2, <1>3, <1>5, <1>6 DEF Patches, p

\* What lookup_symbol_args() finds for a call.
FunctionPtr(i) ==
  LET lib == modules[2]
      index == SymbolIndex(lib.elf, modules[1].elf.jmprel[i].name)
  IN  IF index = NULL THEN 0 ELSE lib.base + lib.elf.values[index + 1]

\* lookup_symbol_args() writes the entry of the call.
LEMMA LookupPatches ==
  ASSUME NEW i \in Calls, LookupSymbol(i)
  PROVE  /\ modules' = modules /\ task' = task /\ task.pc = "running" /\ Len(modules) > 1
         /\ i \in 1 .. Len(modules[1].elf.jmprel) /\ i \notin DOMAIN got
         /\ got' = [j \in DOMAIN got \cup {i} |-> IF j = i THEN FunctionPtr(i) ELSE got[j]]
         /\ \E words :
              /\ Patches(words) /\ DOMAIN words = {modules[1].elf.jmprel[i].offset}
              /\ words[modules[1].elf.jmprel[i].offset] = Word(FunctionPtr(i))
  <1> DEFINE o == modules[1].elf.jmprel[i].offset
             words == [a \in {o} |-> Word(FunctionPtr(i))]
  <1>1. /\ modules' = modules /\ task' = task /\ task.pc = "running" /\ Len(modules) > 1
        /\ i \notin DOMAIN got
        /\ got' = [j \in DOMAIN got \cup {i} |-> IF j = i THEN FunctionPtr(i) ELSE got[j]]
        /\ mem' = Overlay(mem, words) /\ fault' = (fault \/ o \notin DOMAIN mem)
    BY DEF LookupSymbol, FunctionPtr
  <1>2. i \in 1 .. Len(modules[1].elf.jmprel)
    BY DEF Calls
  <1>3. o \in GotWords(modules[1].elf)
    BY <1>2 DEF GotWords, Slots
  <1>4. o \in Patched'
    <2>1. i \in DOMAIN got'
      BY <1>1
    <2> QED BY <1>1, <2>1 DEF Patched
  <1> HIDE DEF o
  <1>5. DOMAIN words = {o} /\ words[o] = Word(FunctionPtr(i))
    OBVIOUS
  <1> HIDE DEF words
  <1>6. IsCells(words)
    <2>1. words[o] = Cell(NULL, FunctionPtr(i))
      BY <1>5 DEF Word, Cell
    <2>2. words[o] = Cell(words[o].byte, words[o].plus)
      BY <2>1, CellFields
    <2> QED BY <1>5, <2>2 DEF IsCells
  <1>7. fault' = (fault \/ ~ (DOMAIN words \subseteq DOMAIN mem))
    BY <1>1, <1>5
  <1>8. Patches(words)
    BY <1>1, <1>3, <1>4, <1>5, <1>6, <1>7 DEF Patches
  <1> QED BY <1>1, <1>2, <1>5, <1>8 DEF o

\* The program is one whose GOT is in its pages.
LEMMA GotKnown ==
  ASSUME FileInv, ModulesInv, modules # <<>>, modules[1].done
  PROVE  IsExecutable(modules[1].elf)
  <1>1. modules \in Seq(Modules) /\ 1 \in 1 .. Len(modules)
    BY DEF ModulesInv, TaskOK
  <1>2. HeadersRead(1)
    BY <1>1 DEF ModulesInv, InTurn, HeadersRead, After
  <1>3. PICK k \in 1 .. Len(disk) : FromEntry(1, k) /\ modules[1].elf = disk[k].elf
    BY <1>1, <1>2 DEF ModulesInv, HeadersRight
  <1>4. IsFound(disk, Program, k)
    BY <1>3 DEF FromEntry, NameOf
  <1> QED BY <1>3, <1>4, GotAssumption DEF FileInv

\* These pages are mapped, and not those of a library.
LEMMA GotMapped ==
  ASSUME FileInv, ModulesInv, ProgramApart, ProgramMapped, modules # <<>>, modules[1].done,
         NEW a \in GotWords(modules[1].elf)
  PROVE  a \in DOMAIN mem /\ (a < HeapStart \/ a >= brk)
  <1>1. IsExecutable(modules[1].elf)
    BY GotKnown
  <1>2. PICK i \in 1 .. Len(modules[1].elf.segs) :
          /\ modules[1].elf.segs[i].type = "LOAD"
          /\ a \in DOMAIN ProgramPages(modules[1].elf.segs[i])
    BY <1>1 DEF IsExecutable, GotWords
  <1>3. a \in DOMAIN mem
    BY <1>2 DEF ProgramMapped
  <1>4. a < HeapStart \/ a >= brk
    BY <1>2 DEF ProgramApart
  <1> QED BY <1>3, <1>4

\* Words of the GOT are written in the program, and libraries stay as they are.
LEMMA MemoryPatched ==
  ASSUME FileInv, ModulesInv, MemoryInv, ProgramApart, ProgramMapped,
         Enter \/ \E i \in Calls : LookupSymbol(i)
  PROVE  /\ ModulesInv' /\ MemoryInv' /\ modules' = modules /\ modules # <<>>
         /\ modules[1].done /\ ~ fault' /\ brk' = brk
         /\ \E words : /\ Patches(words) /\ Replaces(mem', mem, words)
                       /\ \A a \in DOMAIN words : a < HeapStart \/ a >= brk
  <1>1. /\ ModulesInv' /\ modules' = modules /\ modules # <<>>
        /\ task.pc \in {"needed", "running"} /\ task'.pc = "running"
    BY OtherStep
  <1>2. brk' = brk
    BY DEF Enter, LookupSymbol
  <1>3. modules \in Seq(Modules) /\ Len(modules) \in Nat /\ 1 \in 1 .. Len(modules)
    BY <1>1 DEF ModulesInv, TaskOK
  <1>4. modules[1].done
    BY <1>1, <1>3 DEF ModulesInv, InTurn
  <1>5. PICK words : Patches(words)
    <2>1. CASE Enter
      BY <1>1, <2>1, EnterPatches
    <2>2. CASE \E i \in Calls : LookupSymbol(i)
      BY <2>2, LookupPatches
    <2> QED BY <2>1, <2>2
  <1>6. \A a \in DOMAIN words : a \in DOMAIN mem /\ (a < HeapStart \/ a >= brk)
    BY <1>1, <1>4, <1>5, GotMapped DEF Patches
  <1>7. Replaces(mem', mem, words)
    BY <1>5, OverlayIs DEF Patches, MemoryInv
  <1>8. ~ fault'
    BY <1>5, <1>6 DEF Patches, MemoryInv, InBounds
  <1>9. DOMAIN mem' = DOMAIN mem /\ IsCells(mem')
    BY <1>6, <1>7 DEF Replaces
  <1>10. ASSUME NEW n \in 2 .. Len(modules)
         PROVE  InMemory(n)' /\ Placed(n) /\ Space(n)' = Space(n)
    <2>1. Placed(n) /\ InMemory(n)
      BY <1>1 DEF Placed, MemoryInv
    <2>2. Space(n)' = Space(n) /\ Reach(n)' = Reach(n)
      BY <1>1 DEF Space, Reach
    <2>3. ASSUME NEW a \in Reach(n) PROVE mem'[a] = mem[a]
      <3>1. a \in Nat /\ modules[n].base <= a /\ a < brk /\ modules[n].base \in Nat
        BY <2>1, ReachIs
      <3>2. HeapStart <= modules[n].base /\ a \in DOMAIN mem /\ HeapStart \in Nat /\ brk \in Nat
        BY <2>1, SizesAssumption DEF InMemory, MemoryInv
      <3>3. ~ (a < HeapStart \/ a >= brk)
        BY <3>1, <3>2
      <3>4. a \notin DOMAIN words
        BY <1>6, <3>3
      <3> QED BY <1>7, <3>2, <3>4 DEF Replaces
    <2>4. Relocated(n)'
      BY <1>1, <2>1, <2>2, <2>3 DEF Relocated, InMemory
    <2> QED BY <1>1, <1>2, <1>9, <2>1, <2>2, <2>4 DEF InMemory
  <1>11. MemoryInv'
    BY <1>1, <1>2, <1>8, <1>9, <1>10 DEF MemoryInv, InBounds
  <1> QED BY <1>1, <1>2, <1>4, <1>5, <1>6, <1>7, <1>8, <1>11

\* Every step keeps what is known of the memory.
LEMMA LoadStep ==
  LoadInv /\ ProgramApart /\ ProgramMapped /\ FileInv' /\ [Next]_vars => LoadInv'
  <1> SUFFICES ASSUME LoadInv, ProgramApart, ProgramMapped, FileInv', [Next]_vars PROVE LoadInv'
    OBVIOUS
  <1>0. FileInv /\ ModulesInv /\ MemoryInv
    BY DEF LoadInv
  <1>1. CASE UNCHANGED vars
    BY <1>1, LoadStutter
  <1>2. CASE \/ TgaOpen \/ TgaHeader \/ TgaChunk \/ OpenProgram \/ NeededLib \/ ReadHeaders
             \/ NoLibrary
    BY <1>0, <1>2, MemorySteps DEF LoadInv
  <1>3. CASE MapModule
    BY <1>0, <1>3, MemoryMapped DEF LoadInv
  <1>4. CASE LoadSegment
    BY <1>0, <1>4, MemoryLoaded DEF LoadInv
  <1>5. CASE LinkModule
    BY <1>0, <1>5, MemoryLinked DEF LoadInv
  <1>6. CASE Enter \/ \E i \in Calls : LookupSymbol(i)
    BY <1>0, <1>6, MemoryPatched DEF LoadInv
  <1> QED BY <1>1, <1>2, <1>3, <1>4, <1>5, <1>6 DEF Next, Load

\* Pages stay mapped.
LEMMA MappedKept ==
  ASSUME ProgramMapped, modules # <<>>, modules[1].done, modules'[1] = modules[1],
         \A a \in DOMAIN mem : a \in DOMAIN mem'
  PROVE  ProgramMapped'
  BY DEF ProgramMapped

\* LoadSegment maps the pages of the segment, if it is one of the program.
LEMMA MappedLoaded ==
  ASSUME LoadInv, ProgramMapped, LoadSegment
  PROVE  ProgramMapped'
  <1>0. FileInv /\ ModulesInv /\ MemoryInv /\ Len(modules) \in Nat
    BY DEF LoadInv, ModulesInv, TaskOK
  <1>1. /\ modules' = modules /\ modules # <<>> /\ task.seg \in Nat
        /\ task.pc = "segment" /\ task'.pc = "segment" /\ task'.seg = task.seg + 1
    BY <1>0, OtherStep DEF ModulesInv, TaskOK
  <1>2. PICK N \in Nat : N = Len(modules) /\ N > 0
    BY <1>0, <1>1 DEF ModulesInv, TaskOK
  <1>3. PICK s : s = modules[N].elf.segs[task.seg]
    OBVIOUS
  <1>4. /\ \A a \in DOMAIN mem : a \in DOMAIN mem'
        /\ N = 1 /\ s.type = "LOAD" => \A a \in DOMAIN ProgramPages(s) : a \in DOMAIN mem'
    <2>1. CASE s.type # "LOAD"
      <3>1. mem' = mem
        BY <1>2, <1>3, <2>1 DEF LoadSegment, Current
      <3> QED BY <2>1, <3>1
    <2>2. CASE s.type = "LOAD"
      <3>1. PICK at, f : at = modules[N].base + s.vaddr /\ f = FileOf(modules[N])
        OBVIOUS
      <3>2. /\ N # 1 => Mapped(s) = mem
            /\ N = 1 => Replaces(Mapped(s), mem, ProgramPages(s))
            /\ Written(mem', Mapped(s), at, s.filesz, files[f], s.offset)
        BY <1>0, <1>2, <1>3, <2>2, <3>1, SegmentWritten
      <3>3. \A a \in DOMAIN Mapped(s) : a \in DOMAIN mem'
        BY <3>2 DEF Written
      <3>4. \A a \in DOMAIN mem : a \in DOMAIN Mapped(s)
        BY <3>2 DEF Replaces
      <3>5. N = 1 => \A a \in DOMAIN ProgramPages(s) : a \in DOMAIN Mapped(s)
        BY <3>2 DEF Replaces
      <3> QED BY <3>3, <3>4, <3>5
    <2> QED BY <2>1, <2>2
  <1>5. CASE N = 1
    <2> SUFFICES ASSUME NEW i \in 1 .. Len(modules[1].elf.segs),
                        modules[1].elf.segs[i].type = "LOAD",
                        modules[1].done \/ i < task.seg + 1,
                        NEW a \in DOMAIN ProgramPages(modules[1].elf.segs[i])
                 PROVE  a \in DOMAIN mem'
      BY <1>1 DEF ProgramMapped
    <2>1. CASE i = task.seg
      BY <1>3, <1>4, <1>5, <2>1
    <2>2. CASE i # task.seg
      <3>1. modules[1].done \/ (task.pc = "segment" /\ i < task.seg)
        BY <1>1, <2>2
      <3>2. a \in DOMAIN mem
        BY <1>1, <3>1 DEF ProgramMapped
      <3> QED BY <1>4, <3>2
    <2> QED BY <2>1, <2>2
  <1>6. CASE N > 1
    <2>1. 1 \in 1 .. Len(modules) /\ 1 < Len(modules)
      BY <1>2, <1>6
    <2>2. modules[1].done
      BY <1>0, <2>1 DEF ModulesInv, InTurn
    <2> QED BY <1>1, <1>4, <2>2, MappedKept
  <1> QED BY <1>2, <1>5, <1>6

\* What the program is loaded into stays mapped.
LEMMA MappedStep ==
  ASSUME LoadInv, LoadInv', ProgramApart, ProgramMapped, [Next]_vars
  PROVE  ProgramMapped'
  <1>0. /\ FileInv /\ ModulesInv /\ MemoryInv /\ ModulesInv'
        /\ Len(modules) \in Nat /\ Len(modules') \in Nat /\ brk \in Nat
    BY DEF LoadInv, ModulesInv, TaskOK, MemoryInv
  <1>1. PICK N \in Nat, M \in Nat : N = Len(modules) /\ M = Len(modules')
    BY <1>0
  <1>2. ASSUME N > 1 PROVE modules # <<>> /\ modules[1].done
    <2>1. 1 \in 1 .. Len(modules) /\ 1 < Len(modules)
      BY <1>1, <1>2
    <2> QED BY <1>0, <2>1 DEF ModulesInv, InTurn
  <1>3. ASSUME M = 1, task'.pc \in {"header", "map", "frozen"} PROVE ProgramMapped'
    <2>1. ~ modules'[1].done
      BY <1>0, <1>1, <1>3 DEF ModulesInv, InTurn
    <2> QED BY <1>3, <2>1 DEF ProgramMapped
  <1>4. CASE UNCHANGED vars
    <2>1. mem' = mem /\ modules' = modules /\ task' = task
      BY <1>4 DEF vars
    <2> QED BY <2>1 DEF ProgramMapped
  <1>5. CASE TgaOpen \/ TgaHeader \/ TgaChunk
    <2>1. modules' = <<>>
      BY <1>0, <1>5, EarlyStep
    <2> QED BY <2>1 DEF ProgramMapped
  <1>6. CASE OpenProgram \/ NeededLib
    <2>1. /\ M = N + 1 /\ task'.pc = "header" /\ (modules # <<>> => task.pc = "needed")
          /\ \A n \in 1 .. N : modules'[n] = modules[n]
      BY <1>0, <1>1, <1>6, OpenStep
    <2>2. mem' = mem
      BY <1>6 DEF OpenProgram, NeededLib, OpenModule
    <2>3. CASE N = 0
      BY <1>3, <2>1, <2>3
    <2>4. CASE N > 0
      <3>1. modules # <<>> /\ 1 \in 1 .. N
        BY <1>1, <2>4
      <3>2. modules[1].done
        BY <1>0, <1>1, <2>1, <3>1 DEF ModulesInv, InTurn
      <3> QED BY <2>1, <2>2, <3>1, <3>2, MappedKept
    <2> QED BY <2>3, <2>4
  <1>7. CASE ReadHeaders
    <2>1. /\ M = N /\ task'.pc \in {"map", "frozen"} /\ N > 0
          /\ \A n \in 1 .. N : n < N => modules'[n] = modules[n]
      <3>1. task.pc = "header"
        BY <1>7 DEF ReadHeaders
      <3>2. N > 0
        BY <1>0, <1>1, <3>1 DEF ModulesInv, TaskOK, Early
      <3> QED BY <1>0, <1>1, <1>7, <3>2, HeadersStep
    <2>2. mem' = mem
      BY <1>7 DEF ReadHeaders
    <2>3. CASE N = 1
      BY <1>3, <2>1, <2>3
    <2>4. CASE N > 1
      <3>1. modules'[1] = modules[1]
        BY <2>1, <2>4
      <3> QED BY <1>2, <2>2, <2>4, <3>1, MappedKept
    <2> QED BY <2>1, <2>3, <2>4
  <1>8. CASE MapModule
    <2>1. /\ M = N /\ N > 0 /\ ~ modules'[N].done /\ task'.seg = 1
          /\ \A n \in 1 .. N : n < N => modules'[n] = modules[n]
      BY <1>0, <1>1, <1>8, MapStep
    <2>2. CASE N = 1
      <3>1. ~ modules'[1].done /\ \A i \in 1 .. Len(modules'[1].elf.segs) : ~ (i < task'.seg)
        BY <2>1, <2>2
      <3> QED BY <3>1 DEF ProgramMapped
    <2>3. CASE N > 1
      <3>1. modules'[1] = modules[1]
        BY <2>1, <2>3
      <3> DEFINE fresh == FreshPages(brk, ModulePages(modules[N].elf.segs))
      <3>2. mem' = Overlay(mem, fresh)
        BY <1>1, <1>8, <2>3 DEF MapModule, IsProgram, Current
      <3>3. IsCells(fresh) /\ IsCells(mem)
        BY <1>0, FreshIs DEF MemoryInv
      <3> HIDE DEF fresh
      <3>4. \A a \in DOMAIN mem : a \in DOMAIN mem'
        BY <3>2, <3>3, OverlayIs DEF Replaces
      <3> QED BY <1>2, <2>3, <3>1, <3>4, MappedKept
    <2> QED BY <2>1, <2>2, <2>3
  <1>9. CASE LoadSegment
    BY <1>9, MappedLoaded
  <1>10. CASE LinkModule
    <2>1. /\ M = N /\ N > 0 /\ task.pc = "segment" /\ task'.pc \in {"frozen", "needed"}
          /\ \A n \in 1 .. N : n < N => modules'[n] = modules[n]
          /\ modules'[N].elf = modules[N].elf
      BY <1>0, <1>1, <1>10, LinkStep
    <2>2. \A a \in DOMAIN mem : a \in DOMAIN mem'
      <3>1. CASE mem' = mem
        BY <3>1
      <3>2. CASE mem' # mem
        <4>1. N > 1
          BY <1>0, <1>1, <1>10, <2>1, <3>2, LinkStep DEF Linked
        <4>2. Moves(mem', mem, Named(modules[N].elf), modules[N].base)
          BY <1>0, <1>1, <1>10, <3>2, <4>1, LinkMoves
        <4> QED BY <4>2 DEF Moves
      <3> QED BY <3>1, <3>2
    <2>3. CASE N = 1
      <3>1. /\ modules'[1].elf = modules[1].elf /\ modules # <<>>
            /\ task.seg > Len(modules[1].elf.segs) /\ task.seg \in Nat
        <4>1. modules'[1].elf = modules[1].elf
          BY <2>1, <2>3
        <4>2. modules # <<>>
          <5>1. task.pc \notin Early /\ (task.pc \in Early <=> modules = <<>>)
            BY <1>0, <2>1 DEF ModulesInv, TaskOK, Early
          <5> QED BY <5>1
        <4>3. task.seg \in Nat
          BY <1>0 DEF ModulesInv, TaskOK
        <4>4. task.seg > Len(modules[1].elf.segs)
          BY <1>1, <1>10, <2>3 DEF LinkModule, Current
        <4> QED BY <4>1, <4>2, <4>3, <4>4
      <3>2. Len(modules[1].elf.segs) \in Nat
        <4>1. 1 \in 1 .. Len(modules) /\ HeadersRead(1)
          BY <1>1, <2>1, <2>3 DEF HeadersRead, After
        <4> QED BY <4>1, SegsCount
      <3>3. \A i \in 1 .. Len(modules[1].elf.segs) : i < task.seg
        BY <3>1, <3>2
      <3> QED BY <2>1, <2>2, <3>1, <3>3 DEF ProgramMapped
    <2>4. CASE N > 1
      <3>1. modules'[1] = modules[1]
        BY <2>1, <2>4
      <3> QED BY <1>2, <2>2, <2>4, <3>1, MappedKept
    <2> QED BY <2>1, <2>3, <2>4
  <1>11. CASE Enter \/ \E i \in Calls : LookupSymbol(i)
    <2>1. /\ modules' = modules /\ modules # <<>> /\ modules[1].done
          /\ \E words : Replaces(mem', mem, words)
      BY <1>0, <1>11, MemoryPatched
    <2>2. \A a \in DOMAIN mem : a \in DOMAIN mem'
      BY <2>1 DEF Replaces
    <2> QED BY <2>1, <2>2, MappedKept
  <1>12. CASE NoLibrary
    <2>1. mem' = mem /\ modules' = modules /\ task'.pc = "trap"
      BY <1>0, <1>12, OtherStep DEF NoLibrary
    <2> QED BY <2>1 DEF ProgramMapped
  <1> QED BY <1>4, <1>5, <1>6, <1>7, <1>8, <1>9, <1>10, <1>11, <1>12 DEF Next, Load

\* So that all of it holds always, and alloc() never reaches the program.
LEMMA LoadAlways == Spec => [](LoadInv /\ HeapInv /\ ProgramApart /\ ProgramMapped)
  <1>1. FileInv /\ ImageInv /\ [Next]_vars => FileInv' /\ ImageInv'
    BY LoaderStep
  <1>2. Init => HeapInv /\ ProgramMapped
    BY DEF Init, HeapInv, ProgramMapped
  <1>3. LoadInv /\ HeapInv => ProgramApart
    BY HeapApart
  <1>4. LoadInv /\ LoadInv' /\ ProgramApart /\ ProgramMapped /\ [Next]_vars => ProgramMapped'
    BY MappedStep
  <1> QED BY <1>1, <1>2, <1>3, <1>4, LoaderInit, LoadInit, LoadStep, HeapStep, PTL DEF Spec

\* The loader stores to mapped memory only: the size that mapLoadableSegments()
\* computes for a library, and the pages that it maps for a segment of the program,
\* hold the bytes that are read, the words and table entries that are relocated,
\* and the words of the GOT.  This is for libraries whose end is not that of their
\* first segment, for which mapLoadableSegments() would compute too little.
THEOREM WritesInBounds == Spec => []InBounds
  <1>1. LoadInv => InBounds
    BY DEF LoadInv, MemoryInv
  <1> QED BY <1>1, LoadAlways, PTL

\* Every word that a relocation of a library names, and the r_offset of every entry
\* of its tables, is moved by the address of the library, once, and no other word of
\* the library is, whatever is loaded, relocated or patched after it.
THEOREM MovedOnce == Spec => []RelocatedOnce
  <1>1. ASSUME LoadInv PROVE RelocatedOnce
    <2> SUFFICES ASSUME NEW n \in 2 .. Len(modules), modules[n].done,
                        NEW a \in modules[n].base
                                    .. modules[n].base + ModulePages(modules[n].elf.segs) * PAGE - 1
                 PROVE  mem[a].plus = IF a - modules[n].base \in
                                           RelWords(modules[n].elf) \cup SlotWords(modules[n].elf)
                                      THEN modules[n].base ELSE 0
      BY DEF RelocatedOnce
    <2>1. Len(modules) \in Nat
      BY <1>1 DEF LoadInv, ModulesInv, TaskOK
    <2>2. n \in 1 .. Len(modules)
      BY <2>1
    <2>3. Placed(n)
      BY <1>1, <2>2 DEF LoadInv, ModulesInv, InTurn, Placed
    <2>4. Relocated(n)
      BY <1>1, <2>3 DEF LoadInv, MemoryInv, InMemory
    <2>5. a \in Reach(n)
      BY DEF Reach, Space
    <2> QED BY <2>4, <2>5 DEF Relocated, Named
  <1> QED BY <1>1, LoadAlways, PTL

-----------------------------------------------------------------------------
(* Calls of the program *)

\* Only modules with symbols are linked.
SymbolsInv == \A n \in 1 .. Len(modules) : modules[n].done => modules[n].elf.symtab # <<>>

\* So it is in every step.
LEMMA SymbolsStep ==
  ASSUME LoadInv, LoadInv', SymbolsInv, [Next]_vars
  PROVE  SymbolsInv'
  <1>0. /\ FileInv /\ ModulesInv /\ ModulesInv' /\ Len(modules) \in Nat /\ Len(modules') \in Nat
        /\ brk \in Nat
    BY DEF LoadInv, ModulesInv, TaskOK, MemoryInv
  <1>1. PICK N \in Nat, M \in Nat : N = Len(modules) /\ M = Len(modules')
    BY <1>0
  <1>2. ASSUME \A n \in 1 .. M : modules'[n].done => n \in 1 .. N /\ modules'[n] = modules[n]
        PROVE  SymbolsInv'
    BY <1>1, <1>2 DEF SymbolsInv
  <1>3. CASE UNCHANGED vars \/ LoadSegment \/ Enter \/ NoLibrary \/ \E i \in Calls : LookupSymbol(i)
    <2>1. modules' = modules
      BY <1>3 DEF vars, LoadSegment, Enter, NoLibrary, LookupSymbol
    <2> QED BY <1>1, <1>2, <2>1
  <1>4. CASE TgaOpen \/ TgaHeader \/ TgaChunk
    <2>1. modules' = <<>>
      BY <1>0, <1>4, EarlyStep
    <2> QED BY <2>1 DEF SymbolsInv
  <1>5. CASE OpenProgram \/ NeededLib
    <2>1. M = N + 1 /\ task'.pc = "header" /\ \A n \in 1 .. N : modules'[n] = modules[n]
      BY <1>0, <1>1, <1>5, OpenStep
    <2>2. \A n \in 1 .. M : modules'[n].done => n < M
      BY <1>0, <1>1, <2>1 DEF ModulesInv, InTurn
    <2> QED BY <1>2, <2>1, <2>2
  <1>6. CASE ReadHeaders \/ MapModule
    <2>1. /\ M = N /\ task'.pc \in {"map", "frozen", "segment"}
          /\ \A n \in 1 .. N : n < N => modules'[n] = modules[n]
      BY <1>0, <1>1, <1>6, HeadersStep, MapStep
    <2>2. \A n \in 1 .. M : modules'[n].done => n < M
      BY <1>0, <1>1, <2>1 DEF ModulesInv, InTurn
    <2> QED BY <1>2, <2>1, <2>2
  <1>7. CASE LinkModule
    <2>1. /\ M = N /\ N > 0 /\ modules'[N].elf = modules[N].elf
          /\ \A n \in 1 .. N : n < N => modules'[n] = modules[n]
          /\ modules'[N].done => modules[N].elf.symtab # <<>>
      BY <1>0, <1>1, <1>7, LinkStep
    <2>2. ASSUME NEW n \in 1 .. M, modules'[n].done PROVE modules'[n].elf.symtab # <<>>
      <3>1. CASE n = N
        BY <2>1, <2>2, <3>1
      <3>2. CASE n < N
        <4>1. modules'[n] = modules[n] /\ n \in 1 .. Len(modules)
          BY <1>1, <2>1, <3>2
        <4> QED BY <2>2, <4>1 DEF SymbolsInv
      <3> QED BY <2>1, <3>1, <3>2
    <2> QED BY <1>1, <2>2 DEF SymbolsInv
  <1> QED BY <1>3, <1>4, <1>5, <1>6, <1>7 DEF Next, Load

\* Call i goes where the first library has the function, and so does its GOT entry.
CallResolved(i) ==
  LET reloc == modules[1].elf.jmprel[i]
      lib == modules[2]
      at == {k \in 1 .. Len(lib.elf.symtab) : lib.elf.symtab[k] = reloc.name}
  IN  /\ mem[reloc.offset] = Word(got[i])
      /\ IF at = {} THEN got[i] = 0
         ELSE \E k \in at : got[i] = lib.base + lib.elf.values[k]

\* No call is linked before the program runs.
GotInv ==
  /\ ~ Entered => DOMAIN got = {}
  /\ Entered => /\ mem[modules[1].elf.pltgot + 1] = Word(ModuleAddr)
                /\ mem[modules[1].elf.pltgot + 2] = Word(LookupAddr)
  /\ \A i \in DOMAIN got : i \in 1 .. Len(modules[1].elf.jmprel) /\ CallResolved(i)

\* lookup_symbol_args() finds the function.
LEMMA LookupFinds ==
  ASSUME LoadInv, SymbolsInv, Len(modules) > 1, task.pc = "running",
         NEW i \in 1 .. Len(modules[1].elf.jmprel),
         NEW at, at = {k \in 1 .. Len(modules[2].elf.symtab) :
                         modules[2].elf.symtab[k] = modules[1].elf.jmprel[i].name}
  PROVE  IF at = {} THEN FunctionPtr(i) = 0
         ELSE \E k \in at : FunctionPtr(i) = modules[2].base + modules[2].elf.values[k]
  <1> DEFINE name == modules[1].elf.jmprel[i].name
             lib == modules[2]
             index == SymbolIndex(lib.elf, name)
  <1>1. FunctionPtr(i) = IF index = NULL THEN 0 ELSE lib.base + lib.elf.values[index + 1]
    BY DEF FunctionPtr
  <1>2. 2 \in 1 .. Len(modules) /\ 2 > 1 /\ HeadersRead(2) /\ modules[2].done
    <2>1. Len(modules) \in Nat
      BY DEF LoadInv, ModulesInv, TaskOK
    <2> QED BY <2>1 DEF LoadInv, ModulesInv, InTurn, HeadersRead, After
  <1>3. PICK k \in 1 .. Len(disk) : FromEntry(2, k) /\ lib.elf = disk[k].elf
    BY <1>2 DEF LoadInv, ModulesInv, HeadersRight
  <1>4. lib.elf.symtab # <<>>
    BY <1>2 DEF SymbolsInv
  <1>5. IsHashTable(lib.elf) /\ CanCall(modules[1].elf, lib.elf)
    BY <1>2, <1>3, <1>4, EntryKnown DEF LoadInv
  <1>6. Hash[name] \in Nat /\ name # lib.elf.symtab[1]
    BY <1>5 DEF CanCall
  <1>7. at = {j \in 1 .. Len(lib.elf.symtab) : lib.elf.symtab[j] = name}
    OBVIOUS
  <1> HIDE DEF name, lib
  <1>8. /\ index = NULL => \A j \in 1 .. Len(lib.elf.symtab) : lib.elf.symtab[j] # name
        /\ index # NULL => /\ index + 1 \in 1 .. Len(lib.elf.symtab)
                           /\ lib.elf.symtab[index + 1] = name
    BY <1>5, <1>6, SymbolFound
  <1> HIDE DEF index
  <1>9. CASE index = NULL
    <2>1. at = {} /\ FunctionPtr(i) = 0
      BY <1>1, <1>7, <1>8, <1>9
    <2> QED BY <2>1
  <1>10. CASE index # NULL
    <2>1. index + 1 \in at /\ FunctionPtr(i) = lib.base + lib.elf.values[index + 1]
      BY <1>1, <1>7, <1>8, <1>10
    <2> QED BY <2>1 DEF lib
  <1> QED BY <1>9, <1>10

\* It changes one entry of the GOT, and the others stay.
LEMMA LookupStep ==
  ASSUME LoadInv, ProgramApart, ProgramMapped, SymbolsInv, GotInv, NEW i \in Calls, LookupSymbol(i)
  PROVE  GotInv'
  <1>1. /\ modules' = modules /\ task' = task /\ task.pc = "running" /\ Len(modules) > 1
        /\ i \in 1 .. Len(modules[1].elf.jmprel) /\ i \notin DOMAIN got
        /\ got' = [j \in DOMAIN got \cup {i} |-> IF j = i THEN FunctionPtr(i) ELSE got[j]]
    BY LookupPatches
  <1>2. PICK elf, o, p : elf = modules[1].elf /\ o = elf.jmprel[i].offset /\ p = elf.pltgot
    OBVIOUS
  <1>3. PICK words : /\ Patches(words) /\ DOMAIN words = {o} /\ words[o] = Word(FunctionPtr(i))
    BY <1>2, LookupPatches
  <1>4. mem'[o] = Word(FunctionPtr(i)) /\ \A a \in DOMAIN mem : a # o => mem'[a] = mem[a]
    <2>1. Replaces(mem', mem, words)
      BY <1>3, OverlayIs DEF Patches, LoadInv, MemoryInv
    <2> QED BY <1>3, <2>1 DEF Replaces
  <1>5. IsExecutable(elf) /\ \A a \in GotWords(elf) : a \in DOMAIN mem
    <2>1. modules # <<>> /\ modules[1].done
      <3>1. modules \in Seq(Modules) /\ Len(modules) \in Nat
        BY DEF LoadInv, ModulesInv, TaskOK
      <3> QED BY <1>1, <3>1 DEF LoadInv, ModulesInv, InTurn
    <2> QED BY <1>2, <2>1, GotKnown, GotMapped DEF LoadInv
  <1>6. mem'[p + 1] = mem[p + 1] /\ mem'[p + 2] = mem[p + 2]
    <2>1. o \in Slots(elf)
      BY <1>1, <1>2 DEF Slots
    <2>2. p + 1 # o /\ p + 2 # o
      BY <1>2, <1>5, <2>1 DEF IsExecutable
    <2>3. p + 1 \in DOMAIN mem /\ p + 2 \in DOMAIN mem
      BY <1>2, <1>5 DEF GotWords
    <2> QED BY <1>4, <2>2, <2>3
  <1>7. ASSUME NEW j \in DOMAIN got'
        PROVE  j \in 1 .. Len(elf.jmprel) /\ CallResolved(j)'
    <2>1. CASE j = i
      <3>1. got'[j] = FunctionPtr(i)
        BY <1>1, <2>1
      <3>2. PICK at : at = {k \in 1 .. Len(modules[2].elf.symtab) :
                              modules[2].elf.symtab[k] = modules[1].elf.jmprel[i].name}
        OBVIOUS
      <3>3. IF at = {} THEN FunctionPtr(i) = 0
            ELSE \E k \in at : FunctionPtr(i) = modules[2].base + modules[2].elf.values[k]
        BY <1>1, <3>2, LookupFinds
      <3> QED BY <1>1, <1>2, <1>4, <2>1, <3>1, <3>2, <3>3 DEF CallResolved
    <2>2. CASE j # i
      <3>1. j \in DOMAIN got /\ got'[j] = got[j]
        BY <1>1, <2>2
      <3>2. CallResolved(j) /\ j \in 1 .. Len(elf.jmprel)
        BY <1>2, <3>1 DEF GotInv
      <3>3. elf.jmprel[j].offset # o /\ elf.jmprel[j].offset \in DOMAIN mem
        BY <1>1, <1>2, <1>5, <2>2, <3>2 DEF IsExecutable, GotWords, Slots
      <3>4. mem'[elf.jmprel[j].offset] = mem[elf.jmprel[j].offset]
        BY <1>4, <3>3
      <3> QED BY <1>1, <1>2, <3>1, <3>2, <3>4 DEF CallResolved
    <2> QED BY <2>1, <2>2
  <1> QED BY <1>1, <1>2, <1>6, <1>7 DEF GotInv, Entered

\* The program is entered, and calls go to lookup_symbol_args().
LEMMA EnterStep ==
  ASSUME LoadInv, ProgramApart, ProgramMapped, GotInv, Enter
  PROVE  GotInv'
  <1>1. modules' = modules /\ task.pc = "needed" /\ task'.pc = "running" /\ modules # <<>>
    BY OtherStep DEF LoadInv
  <1>2. got' = got
    BY DEF Enter
  <1>3. DOMAIN got' = {}
    BY <1>1, <1>2 DEF GotInv, Entered
  <1>4. PICK p : p = modules[1].elf.pltgot
    OBVIOUS
  <1>5. p \in Nat
    <2>1. modules[1].done
      <3>1. modules \in Seq(Modules) /\ 1 \in 1 .. Len(modules)
        BY <1>1 DEF LoadInv, ModulesInv, TaskOK
      <3> QED BY <1>1, <3>1 DEF LoadInv, ModulesInv, InTurn
    <2> QED BY <1>1, <1>4, <2>1, GotKnown DEF LoadInv, IsExecutable
  <1>6. PICK words : /\ Patches(words) /\ DOMAIN words = {p + 1, p + 2}
                     /\ words[p + 1] = Word(ModuleAddr) /\ words[p + 2] = Word(LookupAddr)
    BY <1>1, <1>4, <1>5, EnterPatches
  <1>7. Replaces(mem', mem, words)
    BY <1>6, OverlayIs DEF Patches, LoadInv, MemoryInv
  <1>8. mem'[p + 1] = Word(ModuleAddr) /\ mem'[p + 2] = Word(LookupAddr)
    BY <1>6, <1>7 DEF Replaces
  <1> QED BY <1>1, <1>3, <1>4, <1>8 DEF GotInv, Entered

\* Nothing else links a call.
LEMMA GotStep ==
  ASSUME LoadInv, ProgramApart, ProgramMapped, SymbolsInv, GotInv, [Next]_vars
  PROVE  GotInv'
  <1>1. CASE UNCHANGED vars
    <2>1. got' = got /\ task' = task /\ modules' = modules /\ mem' = mem
      BY <1>1 DEF vars
    <2> QED BY <2>1 DEF GotInv, CallResolved, Entered
  <1>2. CASE \E i \in Calls : LookupSymbol(i)
    BY <1>2, LookupStep
  <1>3. CASE NoLibrary
    <2>1. task.pc = "running" /\ task'.pc = "trap"
      BY <1>3, OtherStep DEF LoadInv
    <2>2. got' = got /\ modules' = modules /\ mem' = mem
      BY <1>3 DEF NoLibrary
    <2> QED BY <2>1, <2>2 DEF GotInv, CallResolved, Entered
  <1>4. CASE Enter
    BY <1>4, EnterStep
  <1>5. CASE Load /\ ~ Enter
    <2>1. got' = got /\ ~ Entered
      BY <1>5 DEF Load, TgaOpen, TgaHeader, TgaChunk, OpenProgram, OpenModule, ReadHeaders,
                  MapModule, LoadSegment, LinkModule, NeededLib, Entered
    <2>2. ~ Entered'
      <3>1. CASE TgaOpen \/ TgaHeader \/ TgaChunk
        BY <3>1, EarlyStep DEF LoadInv, Early, Entered
      <3>2. PICK N \in Nat : N = Len(modules)
        BY DEF LoadInv, ModulesInv, TaskOK
      <3>3. CASE OpenProgram \/ NeededLib
        BY <3>2, <3>3, OpenStep DEF LoadInv, Entered
      <3>4. CASE ReadHeaders
        BY <3>2, <3>4, HeadersStep DEF LoadInv, Entered
      <3>5. CASE MapModule
        BY <3>2, <3>5, MapStep DEF LoadInv, MemoryInv, Entered
      <3>6. CASE LoadSegment
        BY <3>6, OtherStep DEF LoadInv, Entered
      <3>7. CASE LinkModule
        BY <3>2, <3>7, LinkStep DEF LoadInv, Entered
      <3> QED BY <1>5, <3>1, <3>3, <3>4, <3>5, <3>6, <3>7 DEF Load
    <2>3. DOMAIN got' = {}
      BY <2>1 DEF GotInv
    <2> QED BY <2>2, <2>3 DEF GotInv
  <1> QED BY <1>1, <1>2, <1>3, <1>4, <1>5 DEF Next

\* Symbols and calls are always right.
LEMMA GotAlways == Spec => [](SymbolsInv /\ GotInv)
  <1>1. Init => SymbolsInv /\ GotInv
    BY DEF Init, GotInv, SymbolsInv, Entered
  <1>2. LoadInv /\ LoadInv' /\ SymbolsInv /\ [Next]_vars => SymbolsInv'
    BY SymbolsStep
  <1>3. LoadInv /\ ProgramApart /\ ProgramMapped /\ SymbolsInv /\ GotInv /\ [Next]_vars => GotInv'
    BY GotStep
  <1> QED BY <1>1, <1>2, <1>3, LoadAlways, PTL DEF Spec

\* A call goes to the function of that name in the first library, for every hash
\* table whose chains end, or to 0 if the library does not have it; the GOT entry
\* keeps that address, and other calls still get to lookup_symbol_args().
THEOREM CallsFind == Spec => []CallsResolved
  <1>1. GotInv => CallsResolved
    BY DEF GotInv, CallResolved, CallsResolved
  <1> QED BY <1>1, GotAlways, PTL

-----------------------------------------------------------------------------
(* The memory of a module, for as long as the process runs *)

\* Steps that leave the memory and the modules that are linked alone.
LEMMA BytesLater ==
  ASSUME LoadInv, LoadInv', BytesInv, FilesLast, task'.pc # "segment", mem' = mem,
         ~ Entered, ~ Entered',
         NEW N \in Nat, N = Len(modules), NEW M \in Nat, M = Len(modules'),
         \A n \in 1 .. M : modules'[n].done => n \in 1 .. N /\ modules'[n] = modules[n]
  PROVE  BytesInv'
  <1>1. ASSUME NEW n \in 1 .. Len(modules'), modules'[n].done
        PROVE  /\ n \in 1 .. Len(modules) /\ Placed(n)
               /\ modules'[n].fh = modules[n].fh /\ modules'[n].elf = modules[n].elf
               /\ modules'[n].base = modules[n].base
               /\ IntactTo(n, Len(modules[n].elf.segs))
    <2>1. n \in 1 .. Len(modules) /\ modules'[n] = modules[n] /\ modules[n].done
      BY <1>1
    <2>2. Placed(n)
      BY <2>1 DEF Placed, LoadInv, ModulesInv, InTurn
    <2> QED BY <2>1, <2>2 DEF BytesInv
  <1> QED BY <1>1, BytesKept

\* Steps of the program change words of its GOT, and nothing else.
LEMMA BytesPatched ==
  ASSUME LoadInv, ProgramApart, ProgramMapped, BytesInv,
         Enter \/ NoLibrary \/ \E i \in Calls : LookupSymbol(i)
  PROVE  BytesInv'
  <1>0. /\ FileInv /\ ModulesInv /\ MemoryInv /\ modules \in Seq(Modules) /\ Len(modules) \in Nat
        /\ brk \in Nat /\ HeapStart \in Nat
    BY SizesAssumption DEF LoadInv, ModulesInv, TaskOK, MemoryInv
  <1>1. /\ modules' = modules /\ modules # <<>> /\ task'.pc # "segment" /\ Entered'
        /\ task.pc \in {"needed", "running"} /\ (Entered => ~ Enter)
    BY <1>0, OtherStep DEF Entered
  <1>2. FilesLast
    BY <1>0, LaterStep
  <1>3. PICK W : /\ \A a \in DOMAIN mem : a \in DOMAIN mem' /\ (a \notin W => mem'[a] = mem[a])
                 /\ \A a \in W : a \in Patched' /\ (a < HeapStart \/ a >= brk)
    <2>1. CASE NoLibrary
      <3>1. mem' = mem
        BY <2>1 DEF NoLibrary
      <3>2. PICK W : W = {}
        OBVIOUS
      <3> QED BY <3>1, <3>2
    <2>2. CASE Enter \/ \E i \in Calls : LookupSymbol(i)
      <3>1. PICK words : /\ Patches(words) /\ Replaces(mem', mem, words)
                         /\ \A a \in DOMAIN words : a < HeapStart \/ a >= brk
        BY <1>0, <2>2, MemoryPatched
      <3>2. PICK W : W = DOMAIN words
        OBVIOUS
      <3> QED BY <3>1, <3>2 DEF Patches, Replaces
    <2> QED BY <2>1, <2>2
  <1>4. \A a \in Patched : a \in Patched'
    <2>1. \A i \in DOMAIN got : i \in DOMAIN got'
      BY DEF Enter, NoLibrary, LookupSymbol
    <2> QED BY <1>1, <2>1 DEF Patched
  <1>5. \A n \in 1 .. Len(modules) : Placed(n)
    BY <1>1 DEF Placed
  <1>6. ASSUME NEW n \in 1 .. Len(modules), modules[n].done, n # 1
        PROVE  IntactTo(n, Len(modules[n].elf.segs))'
    <2>1. PICK len \in Nat : len = Len(modules[n].elf.segs) /\ len <= Len(modules[n].elf.segs)
      BY <1>5, SegsCount DEF Placed, HeadersRead, After
    <2>2. IntactTo(n, len)
      BY <1>6, <2>1 DEF BytesInv
    <2>3. ASSUME NEW i \in 1 .. len, NEW k, Loadable(n, i, k), Address(n, i, k) \in DOMAIN mem
          PROVE  /\ Address(n, i, k) \in DOMAIN mem'
                 /\ mem'[Address(n, i, k)].byte = mem[Address(n, i, k)].byte
      <3>1. n > 1 /\ n \in 2 .. Len(modules) /\ i \in 1 .. Len(modules[n].elf.segs)
        BY <1>0, <1>6, <2>1
      <3>2. PICK a : a = Address(n, i, k)
        OBVIOUS
      <3>3. a \in Reach(n)
        BY <1>5, <2>3, <3>1, <3>2, BytesWhere
      <3>4. a \in Nat /\ modules[n].base \in Nat /\ modules[n].base <= a /\ a < brk
        BY <1>0, <1>5, <3>1, <3>3, ReachIs
      <3>5. HeapStart <= modules[n].base
        BY <1>0, <1>5, <3>1 DEF MemoryInv, InMemory
      <3>6. a \notin W
        BY <1>0, <1>3, <3>4, <3>5
      <3> QED BY <1>3, <2>3, <3>2, <3>6
    <2>4. IntactTo(n, len)'
      BY <1>1, <1>2, <1>5, <2>1, <2>2, <2>3, IntactKept
    <2> QED BY <1>1, <2>1, <2>4
  <1>7. PICK len : len = Len(modules[1].elf.segs)
    OBVIOUS
  <1>8. 1 \in 1 .. Len(modules) /\ modules[1].done /\ Placed(1)
    BY <1>0, <1>1, <1>5 DEF ModulesInv, InTurn
  <1>9. ASSUME NEW i \in 1 .. len, NEW k, Loadable(1, i, k)'
        PROVE  \/ TakenOver(1, i, len, Address(1, i, k))' \/ IntactAt(1, i, k)'
               \/ Address(1, i, k)' \in Patched'
    <2>1. Loadable(1, i, k)
      BY <1>1, <1>9 DEF Loadable
    <2>2. PICK a : a = Address(1, i, k) /\ a = Address(1, i, k)'
      BY <1>1 DEF Address
    <2>3. TakenOver(1, i, len, a) \/ IntactAt(1, i, k) \/ a \in Patched
      <3>1. CASE Entered
        BY <1>7, <2>1, <2>2, <3>1 DEF BytesInv, IntactBut
      <3>2. CASE ~ Entered
        BY <1>7, <1>8, <2>1, <2>2, <3>2 DEF BytesInv, IntactTo
      <3> QED BY <3>1, <3>2
    <2>4. CASE TakenOver(1, i, len, a)
      BY <1>1, <2>2, <2>4 DEF TakenOver
    <2>5. CASE a \in Patched
      BY <1>4, <2>2, <2>5
    <2>6. CASE IntactAt(1, i, k) /\ a \in W
      BY <1>3, <2>2, <2>6
    <2>7. CASE IntactAt(1, i, k) /\ a \notin W
      <3>1. a \in DOMAIN mem
        BY <2>2, <2>7 DEF IntactAt
      <3>2. a \in DOMAIN mem' /\ mem'[a].byte = mem[a].byte
        BY <1>3, <2>7, <3>1
      <3> QED BY <1>1, <1>2, <1>7, <1>8, <1>9, <2>1, <2>2, <2>7, <3>2, ByteKept
    <2> QED BY <2>3, <2>4, <2>5, <2>6, <2>7
  <1>10. IntactBut(Len(modules[1].elf.segs))'
    <2>1. len = Len(modules'[1].elf.segs)
      BY <1>1, <1>7
    <2>2. IntactBut(len)'
      BY <1>9 DEF IntactBut
    <2> QED BY <2>1, <2>2 DEF IntactBut, TakenOver
  <1> QED BY <1>1, <1>6, <1>10 DEF BytesInv

\* Every step keeps the bytes.
LEMMA BytesStep ==
  ASSUME LoadInv, LoadInv', ProgramApart, ProgramApart', ProgramMapped, BytesInv, [Next]_vars
  PROVE  BytesInv'
  <1>0. /\ FileInv /\ ModulesInv /\ Len(modules) \in Nat /\ Len(modules') \in Nat
        /\ ModulesInv'
    BY DEF LoadInv, ModulesInv, TaskOK
  <1>1. PICK N \in Nat, M \in Nat : N = Len(modules) /\ M = Len(modules')
    BY <1>0
  <1>2. CASE MapModule
    BY <1>2, BytesMapped
  <1>3. CASE LoadSegment
    BY <1>3, BytesLoaded
  <1>4. CASE LinkModule
    BY <1>4, BytesLinked
  <1>5. CASE UNCHANGED vars
    <2>1. UNCHANGED <<disk, files, handles, mem, modules, task, got>>
      BY <1>5 DEF vars
    <2>2. \A n, i, k : (IntactAt(n, i, k)' <=> IntactAt(n, i, k)) /\ Address(n, i, k)' = Address(n, i, k)
      BY <2>1 DEF IntactAt, Address, FileOf
    <2>3. \A n, i, k : Loadable(n, i, k)' <=> Loadable(n, i, k)
      BY <2>1 DEF Loadable
    <2>4. \A n, i, upto, a : TakenOver(n, i, upto, a)' <=> TakenOver(n, i, upto, a)
      BY <2>1 DEF TakenOver
    <2>5. \A n, upto : IntactTo(n, upto) => IntactTo(n, upto)'
      BY <2>2, <2>3, <2>4 DEF IntactTo
    <2>6. Patched' = Patched /\ (Entered' <=> Entered)
      BY <2>1 DEF Patched, Entered
    <2>7. \A upto : IntactBut(upto) => IntactBut(upto)'
      BY <2>2, <2>3, <2>4, <2>6 DEF IntactBut
    <2> QED BY <2>1, <2>5, <2>6, <2>7 DEF BytesInv
  <1>6. CASE TgaOpen \/ TgaHeader \/ TgaChunk
    <2>1. modules' = <<>> /\ task'.pc \in Early
      BY <1>0, <1>6, EarlyStep
    <2> QED BY <2>1 DEF BytesInv, Early, Entered
  <1>7. CASE OpenProgram \/ NeededLib
    <2>1. /\ M = N + 1 /\ task'.pc = "header" /\ \A n \in 1 .. N : modules'[n] = modules[n]
          /\ task.pc \in {"open", "needed"}
      BY <1>0, <1>1, <1>7, OpenStep DEF OpenProgram, NeededLib
    <2>2. FilesLast
      BY <1>0, <1>7, LaterStep
    <2>3. mem' = mem
      BY <1>7 DEF OpenProgram, NeededLib, OpenModule
    <2>4. ASSUME NEW n \in 1 .. M, modules'[n].done
          PROVE  n \in 1 .. N /\ modules'[n] = modules[n]
      <3>1. n < M
        BY <1>0, <1>1, <2>1, <2>4 DEF ModulesInv, InTurn
      <3> QED BY <2>1, <3>1
    <2> QED BY <1>1, <2>1, <2>2, <2>3, <2>4, BytesLater DEF Entered
  <1>8. CASE ReadHeaders
    <2>1. /\ M = N /\ task'.pc \in {"map", "frozen"} /\ task.pc = "header"
          /\ \A n \in 1 .. N : n < N => modules'[n] = modules[n]
      BY <1>0, <1>1, <1>8, HeadersStep
    <2>2. FilesLast
      BY <1>0, <1>8, LaterStep
    <2>3. mem' = mem
      BY <1>8 DEF ReadHeaders
    <2>4. ASSUME NEW n \in 1 .. M, modules'[n].done
          PROVE  n \in 1 .. N /\ modules'[n] = modules[n]
      <3>1. n < M
        BY <1>0, <1>1, <2>1, <2>4 DEF ModulesInv, InTurn
      <3> QED BY <2>1, <3>1
    <2> QED BY <1>1, <2>1, <2>2, <2>3, <2>4, BytesLater DEF Entered
  <1>9. CASE Enter \/ NoLibrary \/ \E i \in Calls : LookupSymbol(i)
    BY <1>9, BytesPatched
  <1> QED BY <1>2, <1>3, <1>4, <1>5, <1>6, <1>7, <1>8, <1>9 DEF Next, Load

\* A module is what its file says, and its memory holds it.
LEMMA BytesIntact ==
  ASSUME LoadInv, BytesInv
  PROVE  SegmentsIntact
  <1>0. FileInv /\ ModulesInv /\ modules \in Seq(Modules) /\ Len(modules) \in Nat
    BY DEF LoadInv, ModulesInv, TaskOK
  <1>1. ASSUME NEW n \in 1 .. Len(modules), FileOf(modules[n]) # NULL,
               n < Len(modules) \/ task.pc \notin {"header", "frozen"}
        PROVE  modules[n].elf = disk[Entry(FileOf(modules[n]))].elf
    <2>1. HeadersRead(n)
      <3>1. modules # <<>>
        BY <1>0
      <3> QED BY <1>0, <1>1, <3>1 DEF HeadersRead, ModulesInv, TaskOK
    <2>2. PICK k \in 1 .. Len(disk) : FromEntry(n, k) /\ modules[n].elf = disk[k].elf
      BY <1>0, <1>1, <2>1 DEF ModulesInv, HeadersRight
    <2>3. Entry(FileOf(modules[n])) = k
      BY <1>0, <2>2, EntryOfFile DEF FromEntry, FileInv
    <2> QED BY <2>2, <2>3
  <1>2. ASSUME NEW n \in 1 .. Len(modules), modules[n].done
        PROVE  Intact(n)
    <2> SUFFICES ASSUME NEW i \in 1 .. Len(modules[n].elf.segs),
                        modules[n].elf.segs[i].type = "LOAD",
                        NEW k \in 0 .. modules[n].elf.segs[i].filesz - 1
                 PROVE  \/ /\ n = 1
                           /\ \/ Remapped(modules[n].elf.segs, i, Address(n, i, k))
                              \/ Address(n, i, k) \in Patched
                        \/ IntactAt(n, i, k)
      BY DEF Intact, IntactAt, Address
    <2>1. Loadable(n, i, k)
      BY DEF Loadable
    <2>2. CASE n = 1 /\ Entered
      <3>1. IntactBut(Len(modules[1].elf.segs))
        BY <2>2 DEF BytesInv
      <3> QED BY <2>1, <2>2, <3>1 DEF IntactBut, TakenOver, Remapped
    <2>3. CASE n = 1 => ~ Entered
      <3>1. IntactTo(n, Len(modules[n].elf.segs))
        BY <1>2, <2>3 DEF BytesInv
      <3> QED BY <2>1, <3>1 DEF IntactTo, TakenOver, Remapped
    <2> QED BY <2>2, <2>3
  <1> QED BY <1>1, <1>2 DEF SegmentsIntact

\* The headers of a module are read right, and once it is loaded its memory holds
\* the bytes of its file, whatever loadModule() then reads, maps or relocates: the
\* later libraries of the program get other files and other pages.  In the program
\* the words of the GOT change when it is entered and when calls are looked up, and
\* a page that two segments share is mapped anew.
THEOREM BytesStayIntact == Spec => []SegmentsIntact
  <1>1. Init => BytesInv
    BY DEF Init, BytesInv, Entered
  <1>2. LoadInv /\ BytesInv => SegmentsIntact
    BY BytesIntact
  <1>3. /\ LoadInv /\ LoadInv' /\ ProgramApart /\ ProgramApart' /\ ProgramMapped
        /\ BytesInv /\ [Next]_vars
        => BytesInv'
    BY BytesStep
  <1> QED BY <1>1, <1>2, <1>3, LoadAlways, PTL DEF Spec
=============================================================================
