------------------------- MODULE CommandLineProofs -------------------------
(***************************************************************************)
(* Proofs about CommandLine, for any processes, and images of any size.    *)
(***************************************************************************)
EXTENDS CommandLine, SequenceTheorems, TLAPS

Inodes == 1..Len(inodes)

\* Who has, or had, an inode open has begun to write it, and it alone.
WritersBegan ==
    \A i \in Inodes :
        /\ inodes[i].writers # {}
        /\ \A p \in inodes[i].writers :
              /\ fd[p] = i
              /\ pc[p] \in {"write", "saved", "failed", "dead"}
              /\ length[p] > 0
              /\ pc[p] = "saved" => written[p] = length[p]

\* Who may still write an inode is known as one of its writers.
OpenFilesKnown ==
    \A p \in Process : pc[p] = "write" =>
        fd[p] \in Inodes /\ p \in inodes[fd[p]].writers

NamesDiffer == tmp # NoFile => tmp # index_dat

\* Nobody has renamed the file that has the name path.tmp now; and since the
\* file that has the other name came by it, nobody has renamed again.
TmpUnsaved == tmp # NoFile => \A p \in inodes[tmp].writers : pc[p] # "saved"
OneSaved   == index_dat # NoFile =>
                 \A p, q \in inodes[index_dat].writers :
                     pc[p] = "saved" /\ pc[q] = "saved" => p = q

\* A lone writer finds in its file what it has written, and nothing else.
LoneBlocks == \A i \in Inodes, p \in Process : inodes[i].writers = {p} =>
                 /\ Len(inodes[i].blocks) = written[p]
                 /\ \A k \in 1..written[p] : inodes[i].blocks[k] = Block(p, k)

\* The index in memory is not older than the one it was loaded from.
SourcesKept == \A p \in Process : source[p] # NoFile =>
                  /\ source[p] # tmp
                  /\ \A q \in Process : inodes[source[p]].writers = {q} =>
                        written[q] = length[q] /\ engine[q] <= engine[p]

FilesInv == WritersBegan /\ OpenFilesKnown /\ NamesDiffer /\ TmpUnsaved /\ OneSaved /\ LoneBlocks

EnginesKnown == \A p \in Process : engine[p] <= runs

Inv == TypeOK /\ FilesInv /\ EnginesKnown /\ SourcesKept

-----------------------------------------------------------------------------

LEMMA InitInv == Init => Inv
  BY DEF Init, Inv, TypeOK, FilesInv, WritersBegan, OpenFilesKnown, NamesDiffer, TmpUnsaved,
         OneSaved, LoneBlocks, SourcesKept, EnginesKnown, Inodes, NoFile, Commands, Labels, Files

\* A step that only moves one process on, which has not saved.
LEMMA LeavesFiles ==
    ASSUME TypeOK, FilesInv, NEW p \in Process, NEW to, UNCHANGED <<files, save>>,
           pc' = [pc EXCEPT ![p] = to],
           pc[p] \in Running \cup {"idle"}, to \notin {"write", "saved"},
           pc[p] = "write" => to \in {"failed", "dead"}
    PROVE  FilesInv'
<1> USE DEF files, save, Inodes
<1>1. WritersBegan'
  BY DEF FilesInv, WritersBegan, TypeOK, Running
<1>2. OpenFilesKnown'
  BY DEF FilesInv, OpenFilesKnown, TypeOK
<1>3. NamesDiffer'
  BY DEF FilesInv, NamesDiffer
<1>4. TmpUnsaved'
  BY DEF FilesInv, TmpUnsaved, TypeOK
<1>5. OneSaved'
  <2>1. \A q \in Process : pc'[q] = "saved" => pc[q] = "saved"
    BY DEF TypeOK
  <2>2. index_dat # NoFile => inodes[index_dat].writers \subseteq Process
    <3>1. index_dat # NoFile => inodes[index_dat] \in Files
      BY ElementOfSeq DEF TypeOK, NoFile
    <3> QED
      BY <3>1 DEF Files
  <2> QED
    BY <2>1, <2>2 DEF FilesInv, OneSaved
<1>6. LoneBlocks'
  BY DEF FilesInv, LoneBlocks, Block
<1> QED
  BY <1>1, <1>2, <1>3, <1>4, <1>5, <1>6 DEF FilesInv

\* The first, and the only, writer of a file, and those who have it open still.
LEMMA BeginsFiles ==
    ASSUME TypeOK, FilesInv, NEW p \in Process, NEW i \in Nat \ {0}, BeginsWriting(p, i),
           tmp' = i, i \in DOMAIN inodes', inodes'[i] = Inode(<< >>, Writing(i) \cup {p}),
           Len(inodes') \in Nat, DOMAIN inodes' = 1..Len(inodes'), Len(inodes) <= Len(inodes'),
           \A j \in 1..Len(inodes') : j # i => j \in Inodes /\ inodes'[j] = inodes[j],
           i \in Inodes => i = tmp,
           i # index_dat
    PROVE  FilesInv'
<1> USE DEF Inodes
<1>1. /\ pc[p] = "save" /\ pc' = [pc EXCEPT ![p] = "write"]
      /\ fd' = [fd EXCEPT ![p] = i]
      /\ written' = [written EXCEPT ![p] = 0]
      /\ UNCHANGED <<index_dat, runs, command, engine, source>>
  BY DEF BeginsWriting, Go
<1>2. PICK n \in 1..MaxBlocks : length' = [length EXCEPT ![p] = n]
  BY DEF BeginsWriting
<1>3. n \in Nat /\ n > 0
  BY CommandLineAssumption
<1>4. \A j \in Inodes : \A q \in inodes[j].writers :
         /\ q \in Process /\ q # p
         /\ pc'[q] = pc[q] /\ fd'[q] = fd[q] /\ written'[q] = written[q] /\ length'[q] = length[q]
  <2> SUFFICES ASSUME NEW j \in Inodes, NEW q \in inodes[j].writers
               PROVE  /\ q \in Process /\ q # p
                      /\ pc'[q] = pc[q] /\ fd'[q] = fd[q]
                      /\ written'[q] = written[q] /\ length'[q] = length[q]
    OBVIOUS
  <2>1. q \in Process
    <3>1. inodes[j] \in Files
      BY ElementOfSeq DEF TypeOK
    <3> QED
      BY <3>1 DEF Files
  <2>2. q # p
    BY <1>1 DEF FilesInv, WritersBegan
  <2> QED
    BY <2>1, <2>2, <1>1, <1>2 DEF TypeOK
<1>5. /\ inodes'[i].blocks = << >>
      /\ inodes'[i].writers = Writing(i) \cup {p}
  BY DEF Inode
<1>6. \A q \in Writing(i) : q \in Process /\ q # p /\ i \in Inodes /\ q \in inodes[i].writers
  BY <1>1 DEF Writing, FilesInv, OpenFilesKnown
<1>7. WritersBegan'
  <2> SUFFICES ASSUME NEW j \in 1..Len(inodes')
               PROVE  /\ inodes'[j].writers # {}
                      /\ \A q \in inodes'[j].writers :
                            /\ fd'[q] = j
                            /\ pc'[q] \in {"write", "saved", "failed", "dead"}
                            /\ length'[q] > 0
                            /\ pc'[q] = "saved" => written'[q] = length'[q]
    BY DEF WritersBegan
  <2>1. CASE j = i
    <3>1. inodes'[j].writers # {}
      BY <2>1, <1>5
    <3>2. fd'[p] = i /\ pc'[p] = "write" /\ length'[p] > 0
      BY <1>1, <1>2, <1>3 DEF TypeOK, Files
    <3>3. \A q \in Writing(i) : fd'[q] = i /\ pc'[q] = "write" /\ length'[q] > 0
      BY <1>1, <1>2, <1>6 DEF TypeOK, Writing, FilesInv, WritersBegan
    <3> QED
      BY <2>1, <3>1, <3>2, <3>3, <1>5
  <2>2. CASE j # i
    <3>1. j \in Inodes /\ inodes'[j] = inodes[j]
      BY <2>2
    <3> QED
      BY <3>1, <1>4 DEF FilesInv, WritersBegan
  <2> QED
    BY <2>1, <2>2
<1>8. OpenFilesKnown'
  <2> SUFFICES ASSUME NEW q \in Process, pc'[q] = "write"
               PROVE  fd'[q] \in 1..Len(inodes') /\ q \in inodes'[fd'[q]].writers
    BY DEF OpenFilesKnown
  <2>1. CASE q = p
    BY <2>1, <1>1, <1>5 DEF TypeOK
  <2>2. CASE q # p
    <3>1. pc[q] = "write" /\ fd'[q] = fd[q] /\ fd[q] \in Inodes /\ q \in inodes[fd[q]].writers
      BY <2>2, <1>1 DEF TypeOK, FilesInv, OpenFilesKnown
    <3>2. CASE fd[q] = i
      BY <3>1, <3>2, <1>5 DEF Writing
    <3>3. CASE fd[q] # i
      BY <3>1, <3>3
    <3> QED
      BY <3>2, <3>3
  <2> QED
    BY <2>1, <2>2
<1>9. NamesDiffer'
  BY <1>1 DEF NamesDiffer
<1>10. TmpUnsaved'
  BY <1>1, <1>5 DEF TmpUnsaved, Writing, TypeOK
<1>11. OneSaved'
  <2>1. CASE index_dat # NoFile
    <3>1. index_dat \in Inodes /\ index_dat \in 1..Len(inodes') /\ inodes'[index_dat] = inodes[index_dat]
      BY <2>1 DEF TypeOK, NoFile
    <3> QED
      BY <2>1, <3>1, <1>1, <1>4 DEF FilesInv, OneSaved
  <2>2. CASE index_dat = NoFile
    BY <2>2, <1>1 DEF OneSaved
  <2> QED
    BY <2>1, <2>2
<1>12. LoneBlocks'
  <2> SUFFICES ASSUME NEW j \in 1..Len(inodes'), NEW q \in Process, inodes'[j].writers = {q}
               PROVE  /\ Len(inodes'[j].blocks) = written'[q]
                      /\ \A k \in 1..written'[q] : inodes'[j].blocks[k] = Block(q, k)
    BY DEF LoneBlocks, Block
  <2>1. CASE j = i
    <3>1. q = p /\ written'[q] = 0 /\ inodes'[j].blocks = << >>
      BY <2>1, <1>1, <1>5 DEF TypeOK
    <3> QED
      BY <3>1
  <2>2. CASE j # i
    <3>1. j \in Inodes /\ inodes'[j] = inodes[j] /\ q # p
      BY <2>2, <1>4
    <3>2. written'[q] = written[q]
      BY <3>1, <1>1 DEF TypeOK
    <3> QED
      BY <3>1, <3>2 DEF FilesInv, LoneBlocks
  <2> QED
    BY <2>1, <2>2
<1> QED
  BY <1>7, <1>8, <1>9, <1>10, <1>11, <1>12 DEF FilesInv

LEMMA CreateFiles ==
    ASSUME TypeOK, FilesInv, NEW p \in Process, SaveCreate(p)
    PROVE  FilesInv'
<1>0. PICK i \in Nat \ {0} : i = Len(inodes) + 1
  BY DEF TypeOK
<1>1. i \notin Inodes /\ i # index_dat
  BY <1>0 DEF TypeOK, Inodes
<1>2. Writing(i) = {}
  BY <1>1 DEF Writing, FilesInv, OpenFilesKnown
<1>3. /\ inodes' = Append(inodes, Inode(<< >>, {p})) /\ tmp' = i /\ BeginsWriting(p, i)
  BY <1>0 DEF SaveCreate
<1>4. /\ Len(inodes') = i /\ DOMAIN inodes' = 1..i
      /\ inodes'[i] = Inode(<< >>, {p})
      /\ \A j \in Inodes : inodes'[j] = inodes[j]
  BY <1>0, <1>3 DEF TypeOK, Inodes
<1>5. \A j \in 1..i : j # i => j \in Inodes
  BY <1>0 DEF TypeOK, Inodes
<1>6. Writing(i) \cup {p} = {p}
  BY <1>2
<1>7. i \in DOMAIN inodes' /\ inodes'[i] = Inode(<< >>, Writing(i) \cup {p})
  <2>1. Inode(<< >>, Writing(i) \cup {p}) = Inode(<< >>, {p})
    BY <1>6, Zenon
  <2>2. i \in 1..i
    OBVIOUS
  <2> QED
    BY <1>4, <2>1, <2>2, Zenon
<1>8. /\ Len(inodes') \in Nat /\ DOMAIN inodes' = 1..Len(inodes') /\ Len(inodes) <= Len(inodes')
      /\ \A j \in 1..Len(inodes') : j # i => j \in Inodes /\ inodes'[j] = inodes[j]
  <2>1. Len(inodes) \in Nat
    BY DEF TypeOK
  <2>2. Len(inodes') = i /\ DOMAIN inodes' = 1..Len(inodes')
    BY <1>4
  <2>3. ASSUME NEW j \in 1..Len(inodes'), j # i
        PROVE  j \in Inodes /\ inodes'[j] = inodes[j]
    BY <1>4, <1>5, <2>2, <2>3
  <2> QED
    BY <1>0, <2>1, <2>2, <2>3
<1> QED
  BY <1>1, <1>3, <1>7, <1>8, BeginsFiles

LEMMA TruncateFiles ==
    ASSUME TypeOK, FilesInv, NEW p \in Process, SaveTruncate(p)
    PROVE  FilesInv'
<1>1. /\ inodes' = [inodes EXCEPT ![tmp] = Inode(<< >>, Writing(tmp) \cup {p})]
      /\ tmp' = tmp /\ tmp # NoFile /\ BeginsWriting(p, tmp)
  BY DEF SaveTruncate
<1>2. tmp \in Inodes /\ tmp \in Nat \ {0} /\ tmp # index_dat
  BY <1>1 DEF TypeOK, Inodes, NoFile, FilesInv, NamesDiffer
<1>3. /\ Len(inodes') = Len(inodes) /\ Len(inodes) \in Nat
      /\ DOMAIN inodes' = 1..Len(inodes) /\ DOMAIN inodes = 1..Len(inodes)
      /\ inodes'[tmp] = Inode(<< >>, Writing(tmp) \cup {p})
      /\ \A j \in Inodes : j # tmp => inodes'[j] = inodes[j]
  BY <1>1, <1>2 DEF TypeOK, Inodes
<1> QED
  BY <1>1, <1>2, <1>3, BeginsFiles DEF Inodes

\* One more block, behind those the writer has written.
LEMMA WriteFiles ==
    ASSUME TypeOK, FilesInv, NEW p \in Process, SaveWrite(p)
    PROVE  FilesInv'
<1> USE DEF Inodes
<1>1. /\ pc[p] = "write" /\ written[p] \in Nat
      /\ written' = [written EXCEPT ![p] = written[p] + 1]
      /\ inodes' = [inodes EXCEPT ![fd[p]].blocks =
                       WriteAt(inodes[fd[p]].blocks, written[p] + 1, Block(p, written[p] + 1))]
      /\ UNCHANGED <<index_dat, tmp, runs, command, pc, engine, source, fd, length>>
  BY DEF SaveWrite, TypeOK
<1>2. fd[p] \in Inodes /\ p \in inodes[fd[p]].writers
  BY <1>1 DEF FilesInv, OpenFilesKnown
<1>3. \A j \in Inodes : inodes[j] \in Files
  BY ElementOfSeq DEF TypeOK
<1>4. /\ Len(inodes') = Len(inodes)
      /\ \A j \in Inodes : inodes'[j].writers = inodes[j].writers
      /\ \A j \in Inodes : j # fd[p] => inodes'[j] = inodes[j]
      /\ inodes'[fd[p]].blocks = WriteAt(inodes[fd[p]].blocks, written[p] + 1, Block(p, written[p] + 1))
  BY <1>1, <1>2, <1>3 DEF TypeOK, Files
<1>5. \A j \in Inodes : \A q \in inodes[j].writers :
         q \in Process /\ (pc[q] = "saved" => written'[q] = written[q])
  BY <1>1, <1>3 DEF TypeOK, Files
<1>6. WritersBegan'
  BY <1>1, <1>4, <1>5 DEF FilesInv, WritersBegan
<1>7. OpenFilesKnown'
  BY <1>1, <1>4 DEF FilesInv, OpenFilesKnown
<1>8. NamesDiffer'
  BY <1>1 DEF FilesInv, NamesDiffer
<1>9. TmpUnsaved' /\ OneSaved'
  <2>1. /\ tmp # NoFile => inodes'[tmp].writers = inodes[tmp].writers
        /\ index_dat # NoFile => inodes'[index_dat].writers = inodes[index_dat].writers
    BY <1>4 DEF TypeOK, NoFile
  <2> QED
    BY <2>1, <1>1 DEF FilesInv, TmpUnsaved, OneSaved
<1>10. LoneBlocks'
  <2> SUFFICES ASSUME NEW j \in Inodes, NEW q \in Process, inodes[j].writers = {q}
               PROVE  /\ Len(inodes'[j].blocks) = written'[q]
                      /\ \A k \in 1..written'[q] : inodes'[j].blocks[k] = Block(q, k)
    BY <1>4 DEF LoneBlocks, Block
  <2>1. CASE j = fd[p]
    <3>1. q = p /\ written'[q] = written[p] + 1
      BY <1>1, <1>2, <2>1 DEF TypeOK
    <3>2. /\ Len(inodes[j].blocks) = written[p]
          /\ \A k \in 1..written[p] : inodes[j].blocks[k] = Block(p, k)
      BY <3>1 DEF FilesInv, LoneBlocks
    <3>3. inodes'[j].blocks = [k \in 1..written[p] + 1 |->
                                 IF k = written[p] + 1 THEN Block(p, written[p] + 1)
                                 ELSE IF k <= written[p] THEN inodes[j].blocks[k] ELSE Hole]
      <4>1. /\ inodes'[j].blocks = WriteAt(inodes[j].blocks, written[p] + 1, Block(p, written[p] + 1))
            /\ written[p] \in Nat
        BY <1>1, <1>4, <2>1
      <4>2. written[p] + 1 > Len(inodes[j].blocks)
        BY <3>2, <4>1
      <4>3. \A k \in 1..written[p] + 1 : k <= Len(inodes[j].blocks) <=> k <= written[p]
        BY <3>2
      <4>4. (IF written[p] + 1 > Len(inodes[j].blocks) THEN written[p] + 1
             ELSE Len(inodes[j].blocks)) = written[p] + 1
        BY <4>2
      <4> QED
        BY <4>1, <4>3, <4>4, Zenon DEF WriteAt
    <3>4. Len(inodes'[j].blocks) = written[p] + 1
      BY <1>1, <3>3
    <3>5. \A k \in 1..written[p] + 1 : inodes'[j].blocks[k] = Block(p, k)
      BY <1>1, <3>2, <3>3
    <3> QED
      BY <3>1, <3>4, <3>5
  <2>2. CASE j # fd[p]
    <3>1. inodes'[j] = inodes[j] /\ fd[q] = j
      BY <1>4, <2>2 DEF FilesInv, WritersBegan
    <3>2. written'[q] = written[q]
      BY <1>1, <2>2, <3>1 DEF TypeOK
    <3> QED
      BY <3>1, <3>2 DEF FilesInv, LoneBlocks
  <2> QED
    BY <2>1, <2>2
<1> QED
  BY <1>6, <1>7, <1>8, <1>9, <1>10 DEF FilesInv

\* Of the writers of what is called path.tmp none has saved, so one has after this.
LEMMA RenameFiles ==
    ASSUME TypeOK, FilesInv, NEW p \in Process, SaveRename(p)
    PROVE  FilesInv'
<1> USE DEF Inodes
<1>1. /\ pc[p] = "write" /\ written[p] = length[p] /\ tmp # NoFile
      /\ pc' = [pc EXCEPT ![p] = "saved"]
      /\ index_dat' = tmp /\ tmp' = NoFile
      /\ UNCHANGED <<inodes, runs, command, engine, source, save>>
  BY DEF SaveRename, Go
<1>2. WritersBegan'
  BY <1>1 DEF FilesInv, WritersBegan, TypeOK, save
<1>3. OpenFilesKnown'
  BY <1>1 DEF FilesInv, OpenFilesKnown, TypeOK, save
<1>4. NamesDiffer' /\ TmpUnsaved'
  BY <1>1 DEF NamesDiffer, TmpUnsaved
<1>5. OneSaved'
  BY <1>1 DEF FilesInv, TmpUnsaved, OneSaved, TypeOK
<1>6. LoneBlocks'
  BY <1>1 DEF FilesInv, LoneBlocks, Block, save
<1> QED
  BY <1>2, <1>3, <1>4, <1>5, <1>6 DEF FilesInv

-----------------------------------------------------------------------------

LEMMA WriteAtType ==
    ASSUME NEW T, NEW b \in T, NEW blocks \in Seq(T), NEW k \in Nat \ {0}, Hole \in T
    PROVE  WriteAt(blocks, k, b) \in Seq(T)
<1> DEFINE n == IF k > Len(blocks) THEN k ELSE Len(blocks)
<1>1. n \in Nat
  OBVIOUS
<1>2. \A j \in 1..n :
         (IF j = k THEN b ELSE IF j <= Len(blocks) THEN blocks[j] ELSE Hole) \in T
  OBVIOUS
<1> QED
  BY <1>1, <1>2 DEF WriteAt

LEMMA TypesKept == TypeOK /\ FilesInv /\ [Next]_vars => TypeOK'
<1> SUFFICES ASSUME TypeOK, FilesInv, [Next]_vars PROVE TypeOK'
  OBVIOUS
<1>1. CASE UNCHANGED vars
  BY <1>1 DEF vars, files, save, TypeOK
<1>2. ASSUME NEW p \in Process,
             \/ \E c \in Commands : Start(p, c)
             \/ NoIndex(p) \/ LoadFails(p) \/ LoadGarbage(p)
             \/ IndexFails(p) \/ Shutdown(p) \/ SaveFails(p) \/ Crash(p)
      PROVE  TypeOK'
  <2>1. /\ UNCHANGED <<files, runs, engine, source, save>>
        /\ command' \in [Process -> Commands]
        /\ \E to \in Labels : pc' = [pc EXCEPT ![p] = to]
    <3>1. CASE \E c \in Commands : Start(p, c)
      BY <3>1 DEF Start, Go, Labels, TypeOK
    <3>2. CASE NoIndex(p) \/ LoadFails(p) \/ LoadGarbage(p)
      BY <3>2 DEF NoIndex, LoadFails, LoadGarbage, Go, Labels, TypeOK
    <3>3. CASE IndexFails(p) \/ Shutdown(p)
      BY <3>3 DEF IndexFails, Shutdown, Go, Labels, TypeOK
    <3>4. CASE SaveFails(p) \/ Crash(p)
      BY <3>4 DEF SaveFails, Crash, Go, Labels, TypeOK
    <3> QED
      BY <1>2, <3>1, <3>2, <3>3, <3>4
  <2> QED
    BY <2>1 DEF TypeOK, files, save
<1>3. ASSUME NEW p \in Process, Load(p)
      PROVE  TypeOK'
  <2>1. Author(index_dat) \in Process
    BY <1>3 DEF Load, Whole, Author
  <2> QED
    BY <1>3, <2>1 DEF Load, Go, files, save, Labels, TypeOK
<1>4. ASSUME NEW p \in Process, IndexRun(p)
      PROVE  TypeOK'
  BY <1>4 DEF IndexRun, Go, files, save, Labels, TypeOK
<1>5. ASSUME NEW p \in Process, NEW i \in 1..Len(inodes'), BeginsWriting(p, i),
             tmp' = i, inodes' \in Seq(Files), Len(inodes) <= Len(inodes')
      PROVE  TypeOK'
  <2>1. PICK n \in 1..MaxBlocks : length' = [length EXCEPT ![p] = n]
    BY <1>5 DEF BeginsWriting
  <2>2. length' \in [Process -> Nat]
    BY <2>1, CommandLineAssumption DEF TypeOK
  <2>3. Len(inodes) \in Nat /\ Len(inodes') \in Nat /\ 0..Len(inodes) \subseteq 0..Len(inodes')
    BY <1>5 DEF TypeOK
  <2>4. i \in 0..Len(inodes') /\ index_dat \in 0..Len(inodes')
    <3>1. i \in 0..Len(inodes')
      BY <2>3
    <3>2. index_dat \in 0..Len(inodes)
      BY DEF TypeOK
    <3> QED
      BY <2>3, <3>1, <3>2
  <2>5. fd' = [fd EXCEPT ![p] = i] /\ source' = source
    BY <1>5 DEF BeginsWriting
  <2>6. fd' \in [Process -> 0..Len(inodes')]
    BY <2>3, <2>4, <2>5 DEF TypeOK
  <2>7. source' \in [Process -> 0..Len(inodes')]
    BY <2>3, <2>5 DEF TypeOK
  <2> QED
    BY <1>5, <2>2, <2>4, <2>6, <2>7 DEF BeginsWriting, Go, Labels, TypeOK
<1>6. ASSUME NEW p \in Process, SaveCreate(p)
      PROVE  TypeOK'
  <2>1. Inode(<< >>, {p}) \in Files
    BY DEF Inode, Files
  <2>2. inodes' \in Seq(Files) /\ Len(inodes') = Len(inodes) + 1
    BY <1>6, <2>1 DEF SaveCreate, TypeOK
  <2> QED
    <3>1. PICK i \in 1..Len(inodes') : i = Len(inodes) + 1
      BY <2>2 DEF TypeOK
    <3>2. BeginsWriting(p, i) /\ tmp' = i /\ Len(inodes) <= Len(inodes')
      BY <1>6, <2>2, <3>1 DEF SaveCreate, TypeOK
    <3> QED
      BY <1>5, <2>2, <3>2
<1>7. ASSUME NEW p \in Process, SaveTruncate(p)
      PROVE  TypeOK'
  <2>1. Inode(<< >>, Writing(tmp) \cup {p}) \in Files
    BY DEF Inode, Writing, Files
  <2>2. tmp \in 1..Len(inodes)
    BY <1>7 DEF SaveTruncate, TypeOK, NoFile
  <2>3. inodes' \in Seq(Files) /\ Len(inodes') = Len(inodes)
    BY <1>7, <2>1, <2>2 DEF SaveTruncate, TypeOK
  <2> QED
    BY <1>5, <1>7, <2>2, <2>3 DEF SaveTruncate
<1>8. ASSUME NEW p \in Process, SaveWrite(p)
      PROVE  TypeOK'
  <2> DEFINE i == fd[p]
             k == written[p] + 1
             b == Block(p, k)
  <2>1. /\ pc[p] = "write"
        /\ written' = [written EXCEPT ![p] = k]
        /\ inodes' = [inodes EXCEPT ![i].blocks = WriteAt(inodes[i].blocks, k, b)]
        /\ UNCHANGED <<index_dat, tmp, runs, command, pc, engine, source, fd, length>>
    BY <1>8 DEF SaveWrite, TypeOK
  <2>2. k \in Nat \ {0}
    BY DEF TypeOK
  <2>3. b \in Blocks /\ Hole \in Blocks
    BY <2>2 DEF Block, Hole, Blocks
  <2>4. inodes' \in Seq(Files) /\ Len(inodes') = Len(inodes)
    <3>0. i \in 1..Len(inodes)
      BY <2>1 DEF FilesInv, OpenFilesKnown, Inodes
    <3>1. inodes[i] \in Files
      BY <3>0, ElementOfSeq DEF TypeOK
    <3>2. inodes[i].blocks \in Seq(Blocks)
      BY <3>1 DEF Files
    <3> HIDE DEF i, k, b
    <3>3. WriteAt(inodes[i].blocks, k, b) \in Seq(Blocks)
      BY <3>2, <2>2, <2>3, WriteAtType
    <3>4. [inodes[i] EXCEPT !.blocks = WriteAt(inodes[i].blocks, k, b)] \in Files
      BY <3>1, <3>3 DEF Files
    <3> QED
      BY <2>1, <3>0, <3>4 DEF TypeOK
  <2> HIDE DEF i, k, b
  <2> QED
    BY <2>1, <2>2, <2>4 DEF TypeOK
<1>9. ASSUME NEW p \in Process, SaveRename(p)
      PROVE  TypeOK'
  BY <1>9 DEF SaveRename, Go, save, Labels, TypeOK, NoFile
<1> QED
  BY <1>1, <1>2, <1>3, <1>4, <1>6, <1>7, <1>8, <1>9 DEF Next

LEMMA FilesKept == TypeOK /\ FilesInv /\ [Next]_vars => FilesInv'
<1> SUFFICES ASSUME TypeOK, FilesInv, [Next]_vars PROVE FilesInv'
  OBVIOUS
<1>1. CASE UNCHANGED vars
  BY <1>1 DEF vars, files, save, FilesInv, WritersBegan, OpenFilesKnown, NamesDiffer, TmpUnsaved,
              OneSaved, LoneBlocks, Inodes, Block
<1>2. ASSUME NEW p \in Process,
             \/ \E c \in Commands : Start(p, c)
             \/ NoIndex(p) \/ Load(p) \/ LoadFails(p) \/ LoadGarbage(p)
             \/ IndexRun(p) \/ IndexFails(p) \/ Shutdown(p)
      PROVE  FilesInv'
  <2>1. /\ UNCHANGED <<files, save>>
        /\ \E to \in {"load", "answered", "failed", "run", "save"} : pc' = [pc EXCEPT ![p] = to]
        /\ pc[p] \in {"idle", "load", "run"}
    BY <1>2 DEF Start, NoIndex, Load, LoadFails, LoadGarbage, IndexRun, IndexFails, Shutdown, Go,
                files, save
  <2> QED
    BY <2>1, LeavesFiles DEF Running
<1>3. ASSUME NEW p \in Process, SaveFails(p) \/ Crash(p)
      PROVE  FilesInv'
  <2>1. /\ UNCHANGED <<files, save>>
        /\ \E to \in {"failed", "dead"} : pc' = [pc EXCEPT ![p] = to]
        /\ pc[p] \in Running
    BY <1>3 DEF SaveFails, Crash, Go, Running, files, save
  <2> QED
    BY <2>1, LeavesFiles DEF Running
<1> QED
  BY <1>1, <1>2, <1>3, CreateFiles, TruncateFiles, WriteFiles, RenameFiles DEF Next

LEMMA EnginesStayKnown == TypeOK /\ EnginesKnown /\ [Next]_vars => EnginesKnown'
<1> SUFFICES ASSUME TypeOK, EnginesKnown, [Next]_vars PROVE EnginesKnown'
  OBVIOUS
<1>1. CASE UNCHANGED <<engine, runs>>
  BY <1>1 DEF EnginesKnown
<1>2. ASSUME NEW p \in Process, Load(p)
      PROVE  EnginesKnown'
  <2>1. Author(index_dat) \in Process
    BY <1>2 DEF Load, Whole, Author
  <2> QED
    BY <1>2, <2>1 DEF Load, EnginesKnown, TypeOK
<1>3. ASSUME NEW p \in Process, IndexRun(p)
      PROVE  EnginesKnown'
  BY <1>3 DEF IndexRun, EnginesKnown, TypeOK
<1> QED
  BY <1>1, <1>2, <1>3 DEF Next, vars, Start, NoIndex, LoadFails, LoadGarbage, IndexFails, Shutdown,
     SaveCreate, SaveTruncate, BeginsWriting, SaveWrite, SaveRename, SaveFails, Crash

\* A file with a lone writer that is whole is that writer's image.
LEMMA LoneAuthor ==
    ASSUME TypeOK, FilesInv, NEW i \in Inodes, NEW q \in Process, inodes[i].writers = {q}, Whole(i)
    PROVE  Author(i) = q /\ written[q] = length[q]
<1>1. PICK a \in Process : a = Author(i) /\ Made(a, i)
  BY DEF Whole, Author
<1>2. /\ length[a] \in Nat /\ length[a] > 0 /\ Len(inodes[i].blocks) = length[a]
      /\ inodes[i].blocks[1] = Block(a, 1)
  BY <1>1 DEF Made, Image, TypeOK
<1>3. Len(inodes[i].blocks) = written[q] /\ inodes[i].blocks[1] = Block(q, 1)
  BY <1>2 DEF FilesInv, LoneBlocks
<1>4. a = q
  BY <1>2, <1>3 DEF Block
<1> QED
  BY <1>1, <1>2, <1>3, <1>4

\* A lone writer that has written all has made its file whole.
LEMMA LoneImage ==
    ASSUME TypeOK, FilesInv, NEW i \in Inodes, NEW q \in Process, inodes[i].writers = {q},
           written[q] = length[q]
    PROVE  inodes[i].blocks = Image(q) /\ Made(q, i)
<1>1. inodes[i] \in Files
  BY ElementOfSeq DEF TypeOK, Inodes
<1>2. inodes[i].blocks \in Seq(Blocks)
  BY <1>1 DEF Files
<1>3. /\ Len(inodes[i].blocks) = length[q]
      /\ \A k \in 1..length[q] : inodes[i].blocks[k] = Block(q, k)
  BY DEF FilesInv, LoneBlocks
<1>4. inodes[i].blocks = [k \in 1..length[q] |-> Block(q, k)]
  BY <1>2, <1>3
<1>5. length[q] > 0
  BY DEF FilesInv, WritersBegan
<1> QED
  BY <1>4, <1>5 DEF Image, Made

\* What a process has loaded stays as it is: it never is path.tmp again.
LEMMA SourcesStayKept == Inv /\ [Next]_vars => SourcesKept'
<1> SUFFICES ASSUME Inv, [Next]_vars PROVE SourcesKept'
  OBVIOUS
<1> USE DEF Inv
<1>0. \A p \in Process : source[p] # NoFile => source[p] \in Inodes
  BY DEF TypeOK, NoFile, Inodes
<1>1. ASSUME UNCHANGED <<inodes, written, length, source, engine>>, tmp' \in {tmp, NoFile}
      PROVE  SourcesKept'
  BY <1>1 DEF SourcesKept
<1>2. ASSUME NEW p \in Process, Load(p)
      PROVE  SourcesKept'
  <2> SUFFICES ASSUME NEW r \in Process, source'[r] # NoFile
               PROVE  /\ source'[r] # tmp'
                      /\ \A q \in Process : inodes'[source'[r]].writers = {q} =>
                            written'[q] = length'[q] /\ engine'[q] <= engine'[r]
    BY DEF SourcesKept
  <2>1. /\ pc[p] = "load" /\ index_dat # NoFile /\ Whole(index_dat)
        /\ source' = [source EXCEPT ![p] = index_dat]
        /\ engine' = [engine EXCEPT ![p] = engine[Author(index_dat)]]
        /\ UNCHANGED <<files, save>>
    BY <1>2 DEF Load, Go
  <2>2. index_dat \in Inodes
    BY <2>1 DEF TypeOK, NoFile, Inodes
  <2>3. \A q \in Process, i \in Inodes : inodes[i].writers = {q} => engine'[q] = engine[q]
    BY <2>1 DEF TypeOK, FilesInv, WritersBegan
  <2>4. CASE r = p
    <3>1. source'[r] = index_dat
      BY <2>1, <2>4 DEF TypeOK
    <3>2. index_dat # tmp
      BY <2>1 DEF FilesInv, NamesDiffer
    <3>3. ASSUME NEW q \in Process, inodes[index_dat].writers = {q}
          PROVE  written[q] = length[q] /\ engine'[q] <= engine'[r]
      <4>1. Author(index_dat) = q /\ written[q] = length[q]
        BY <2>1, <2>2, <3>3, LoneAuthor
      <4>2. engine'[r] = engine[q] /\ engine'[q] = engine[q] /\ engine[q] \in Nat
        BY <2>1, <2>2, <2>3, <2>4, <3>3, <4>1 DEF TypeOK
      <4> QED
        BY <4>1, <4>2
    <3> QED
      BY <2>1, <3>1, <3>2, <3>3 DEF files, save
  <2>5. CASE r # p
    BY <2>1, <2>3, <2>5, <1>0 DEF SourcesKept, TypeOK, files, save
  <2> QED
    BY <2>4, <2>5
<1>3. ASSUME NEW p \in Process, IndexRun(p)
      PROVE  SourcesKept'
  <2>1. /\ pc[p] = "run" /\ engine' = [engine EXCEPT ![p] = runs + 1]
        /\ UNCHANGED <<files, source, save>>
    BY <1>3 DEF IndexRun, Go
  <2>2. \A q \in Process, i \in Inodes : inodes[i].writers = {q} => engine'[q] = engine[q]
    BY <2>1 DEF TypeOK, FilesInv, WritersBegan
  <2>3. \A r \in Process : engine[r] <= engine'[r]
    BY <2>1 DEF TypeOK, EnginesKnown
  <2>4. engine \in [Process -> Nat] /\ engine' \in [Process -> Nat]
    BY <2>1 DEF TypeOK
  <2> QED
    BY <2>1, <2>2, <2>3, <2>4, <1>0 DEF SourcesKept, files, save
<1>4. ASSUME NEW p \in Process, SaveCreate(p) \/ SaveTruncate(p)
      PROVE  SourcesKept'
  <2>1. /\ pc[p] = "save" /\ UNCHANGED <<source, engine>>
        /\ written' = [written EXCEPT ![p] = 0]
        /\ \E n : length' = [length EXCEPT ![p] = n]
    BY <1>4 DEF SaveCreate, SaveTruncate, BeginsWriting, Go
  <2>2. \A q \in Process, i \in Inodes : inodes[i].writers = {q} =>
           written'[q] = written[q] /\ length'[q] = length[q]
    <3>1. \A q \in Process, i \in Inodes : inodes[i].writers = {q} => q # p
      BY <2>1 DEF FilesInv, WritersBegan
    <3>2. \A q \in Process \ {p} : written'[q] = written[q] /\ length'[q] = length[q]
      BY <2>1 DEF TypeOK
    <3> QED
      BY <3>1, <3>2
  <2>3. \A i \in Inodes : i # tmp => i # tmp' /\ inodes'[i] = inodes[i]
    <3>1. CASE SaveCreate(p)
      BY <3>1 DEF SaveCreate, TypeOK, Inodes
    <3>2. CASE SaveTruncate(p)
      BY <3>2 DEF SaveTruncate, TypeOK, Inodes
    <3> QED
      BY <1>4, <3>1, <3>2
  <2> QED
    BY <2>1, <2>2, <2>3, <1>0 DEF SourcesKept
<1>5. ASSUME NEW p \in Process, SaveWrite(p)
      PROVE  SourcesKept'
  <2>1. /\ pc[p] = "write" /\ written[p] < length[p]
        /\ written' = [written EXCEPT ![p] = @ + 1]
        /\ UNCHANGED <<tmp, source, engine, length>>
    BY <1>5 DEF SaveWrite
  <2>2. \A i \in Inodes : inodes'[i].writers = inodes[i].writers
    BY <1>5 DEF SaveWrite, TypeOK, Inodes, Files
  <2>3. \A q \in Process : written[q] = length[q] => written'[q] = length'[q]
    BY <2>1 DEF TypeOK
  <2> QED
    BY <2>1, <2>2, <2>3, <1>0 DEF SourcesKept
<1>6. ASSUME NEW p \in Process, SaveRename(p)
      PROVE  SourcesKept'
  BY <1>1, <1>6 DEF SaveRename, save
<1> QED
  BY <1>1, <1>2, <1>3, <1>4, <1>5, <1>6 DEF Next, vars, files, save, Start, NoIndex, LoadFails,
     LoadGarbage, IndexFails, Shutdown, SaveFails, Crash

LEMMA InvKept == Inv /\ [Next]_vars => Inv'
  BY TypesKept, FilesKept, EnginesStayKnown, SourcesStayKept DEF Inv

(* Types, and which process has which file in which state: the inductive   *)
(* invariant.                                                              *)
THEOREM FilesInvariance == Spec => []Inv
<1> QED
  BY InitInv, InvKept, PTL DEF Spec

-----------------------------------------------------------------------------

(* A torn index.dat always has a writer that has not reported success.     *)
(* Proof: of the writers of the file at most one has renamed, so if all    *)
(* have, there is one, which found the file as it wrote it.                *)
THEOREM TornFilesReported == Spec => []TornFileIsReported
<1>1. ASSUME Inv PROVE TornFileIsReported
  <2> SUFFICES ASSUME index_dat # NoFile, \A p \in inodes[index_dat].writers : pc[p] = "saved"
               PROVE  Whole(index_dat)
    BY DEF TornFileIsReported
  <2>1. index_dat \in Inodes
    BY <1>1 DEF Inv, TypeOK, NoFile, Inodes
  <2>2. PICK p \in inodes[index_dat].writers : inodes[index_dat].writers = {p}
    BY <1>1, <2>1 DEF Inv, FilesInv, OneSaved, WritersBegan
  <2>3. p \in Process
    <3>1. inodes[index_dat] \in Files
      BY <1>1, <2>1, ElementOfSeq DEF Inv, TypeOK, Inodes
    <3> QED
      BY <3>1, <2>2 DEF Files
  <2>4. length[p] > 0 /\ written[p] = length[p]
    BY <1>1, <2>1, <2>2 DEF Inv, FilesInv, WritersBegan
  <2> QED
    BY <1>1, <2>1, <2>2, <2>3, <2>4, LoneImage DEF Inv, Whole
<1> QED
  BY <1>1, FilesInvariance, PTL

(* A save that has path.tmp for itself puts its whole index in place, and  *)
(* over a file it has loaded, written by a save like that, no older one.   *)
THEOREM LoneSavesCorrect == Spec => LoneSavesAreSafe
<1>1. ASSUME Inv, [Next]_vars, NEW p \in Process, Renames(p), inodes[tmp].writers = {p}
      PROVE  /\ inodes[index_dat'].blocks = Image(p)
             /\ (index_dat # NoFile /\ index_dat = source[p] /\ LoneWriter(index_dat)) =>
                   engine[p] >= engine[Author(index_dat)]
  <2>1. SaveRename(p)
    <3>1. pc[p] = "write" /\ pc'[p] = "saved" /\ pc \in [Process -> Labels]
      BY <1>1 DEF Renames, Inv, TypeOK
    <3>2. PICK q \in Process :
             \/ \E c \in Commands : Start(q, c)
             \/ NoIndex(q) \/ Load(q) \/ LoadFails(q) \/ LoadGarbage(q)
             \/ IndexRun(q) \/ IndexFails(q) \/ Shutdown(q)
             \/ SaveCreate(q) \/ SaveTruncate(q) \/ SaveWrite(q) \/ SaveRename(q) \/ SaveFails(q)
             \/ Crash(q)
      BY <1>1, <3>1 DEF Next, vars
    <3>3. CASE \/ \E c \in Commands : Start(q, c)
               \/ NoIndex(q) \/ Load(q) \/ LoadFails(q) \/ LoadGarbage(q)
               \/ IndexRun(q) \/ IndexFails(q) \/ Shutdown(q)
      <4>1. pc[q] \in {"idle", "load", "run"} /\ \E to : pc' = [pc EXCEPT ![q] = to]
        BY <3>3 DEF Start, NoIndex, Load, LoadFails, LoadGarbage, IndexRun, IndexFails, Shutdown, Go
      <4> QED
        BY <3>1, <4>1
    <3>4. CASE SaveCreate(q) \/ SaveTruncate(q) \/ SaveFails(q) \/ Crash(q)
      <4>1. \E to \in {"write", "failed", "dead"} : pc' = [pc EXCEPT ![q] = to]
        BY <3>4 DEF SaveCreate, SaveTruncate, BeginsWriting, SaveFails, Crash, Go
      <4> QED
        BY <3>1, <4>1
    <3>5. CASE SaveWrite(q)
      BY <3>1, <3>5 DEF SaveWrite
    <3>6. CASE SaveRename(q)
      <4>1. pc' = [pc EXCEPT ![q] = "saved"]
        BY <3>6 DEF SaveRename, Go
      <4> QED
        BY <3>1, <3>6, <4>1
    <3> QED
      BY <3>2, <3>3, <3>4, <3>5, <3>6
  <2>2. written[p] = length[p] /\ tmp # NoFile /\ index_dat' = tmp
    BY <2>1 DEF SaveRename
  <2>3. tmp \in Inodes
    BY <1>1, <2>2 DEF Inv, TypeOK, NoFile, Inodes
  <2>4. inodes[index_dat'].blocks = Image(p)
    BY <1>1, <2>2, <2>3, LoneImage DEF Inv
  <2>5. ASSUME index_dat # NoFile, index_dat = source[p], LoneWriter(index_dat)
        PROVE  engine[p] >= engine[Author(index_dat)]
    <3>1. PICK q \in Process : inodes[index_dat].writers = {q}
      BY <2>5 DEF LoneWriter
    <3>2. index_dat \in Inodes
      BY <1>1, <2>5 DEF Inv, TypeOK, NoFile, Inodes
    <3>3. written[q] = length[q] /\ engine[q] <= engine[p]
      BY <1>1, <2>5, <3>1 DEF Inv, SourcesKept
    <3>4. Author(index_dat) = q
      BY <1>1, <3>1, <3>2, <3>3, LoneImage, LoneAuthor DEF Inv, Whole
    <3>5. engine[q] \in Nat /\ engine[p] \in Nat
      BY <1>1 DEF Inv, TypeOK
    <3> QED
      BY <3>3, <3>4, <3>5
  <2> QED
    BY <2>4, <2>5
<1>2. Inv /\ [Next]_vars =>
         [\A p \in Process : Renames(p) /\ inodes[tmp].writers = {p} =>
             /\ inodes[index_dat'].blocks = Image(p)
             /\ (index_dat # NoFile /\ index_dat = source[p] /\ LoneWriter(index_dat)) =>
                   engine[p] >= engine[Author(index_dat)]]_vars
  BY <1>1
<1> QED
  BY <1>2, FilesInvariance, PTL DEF Spec, LoneSavesAreSafe
=============================================================================
