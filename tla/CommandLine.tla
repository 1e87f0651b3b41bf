---------------------------- MODULE CommandLine ----------------------------
(***************************************************************************)
(* The commands of tinysearch (src/main.cpp) as processes that share an    *)
(* index file: each loads it, may index, and may save it by writing        *)
(* path.tmp and renaming it (src/index_store.cpp).  Nothing locks the      *)
(* files, and every process may die at any time.                           *)
(*                                                                         *)
(* A file is an inode, which outlives its name as long as it is open.  An  *)
(* index is the number of the index run that made it (see IndexStore for   *)
(* what is in it), and its image a number of blocks.                       *)
(***************************************************************************)
EXTENDS Naturals, Sequences

CONSTANTS Process,    \* commands that are run, one after the other or at once
          MaxBlocks,  \* blocks of the largest image
          MaxRuns     \* bound: index runs

ASSUME CommandLineAssumption == MaxBlocks \in Nat \ {0} /\ MaxRuns \in Nat

NoFile == 0  \* no inode

VARIABLES index_dat,  \* the inode that has the name
          tmp,        \* the same for index.dat.tmp
          inodes,     \* all inodes there have been
          runs,       \* index runs so far
          command,    \* what each process was started as
          pc,         \* where it is
          engine,     \* the index it has in memory: 0 is the empty one
          source,     \* the inode it loaded
          fd,         \* the inode it writes
          written,    \* blocks it has written
          length      \* blocks it has to write

files == <<index_dat, tmp, inodes>>
save  == <<fd, written, length>>
vars  == <<files, runs, command, pc, engine, source, save>>

Commands == {"none", "index", "serve", "search"}
Labels   == {"idle", "load", "run", "save", "write",
             "answered", "saved", "failed", "dead"}
Running  == {"load", "run", "save", "write"}

\* Block k of the image process p writes, and what a file has where nothing was written.
Block(p, k) == [by |-> p, number |-> k]
Hole        == [by |-> "nobody", number |-> 0]

\* `writers` are the processes that had the file open when it was truncated last or after.
Inode(blocks, writers) == [blocks |-> blocks, writers |-> writers]

Image(p) == [k \in 1..length[p] |-> Block(p, k)]

\* A file that is the image of one index, and not empty.
Made(p, i) == length[p] > 0 /\ inodes[i].blocks = Image(p)
Whole(i)   == \E p \in Process : Made(p, i)
Author(i)  == CHOOSE p \in Process : Made(p, i)

-----------------------------------------------------------------------------

Init == /\ index_dat = NoFile /\ tmp = NoFile /\ inodes = << >>
        /\ runs = 0
        /\ command = [p \in Process |-> "none"]
        /\ pc = [p \in Process |-> "idle"]
        /\ engine = [p \in Process |-> 0]
        /\ source = [p \in Process |-> NoFile]
        /\ fd = [p \in Process |-> NoFile]
        /\ written = [p \in Process |-> 0]
        /\ length = [p \in Process |-> 0]

Go(p, from, to) == pc[p] = from /\ pc' = [pc EXCEPT ![p] = to]

\* "stats" is like "search" here, and the other commands do nothing.
Start(p, c) == /\ c # "none"
               /\ command' = [command EXCEPT ![p] = c]
               /\ Go(p, "idle", "load")
               /\ UNCHANGED <<files, runs, engine, source, save>>

\* There is no index: index and serve start with an empty one, search gives up.
NoIndex(p) == /\ index_dat = NoFile
              /\ Go(p, "load", IF command[p] = "search" THEN "answered" ELSE "run")
              /\ UNCHANGED <<files, runs, command, engine, source, save>>

\* load() of a whole file.
Load(p) == /\ index_dat # NoFile /\ Whole(index_dat)
           /\ Go(p, "load", IF command[p] = "search" THEN "answered" ELSE "run")
           /\ source' = [source EXCEPT ![p] = index_dat]
           /\ engine' = [engine EXCEPT ![p] = engine[Author(index_dat)]]
           /\ UNCHANGED <<files, runs, command, save>>

\* load() throws: index and serve warn and start empty, search and stats die.
LoadFails(p) == /\ index_dat # NoFile
                /\ Go(p, "load", IF command[p] = "search" THEN "failed" ELSE "run")
                /\ UNCHANGED <<files, runs, command, engine, source, save>>

\* A file that is not whole may still be read to an end: there is no checksum.
LoadGarbage(p) == /\ index_dat # NoFile /\ ~Whole(index_dat)
                  /\ Go(p, "load", IF command[p] = "search" THEN "answered" ELSE "run")
                  /\ UNCHANGED <<files, runs, command, engine, source, save>>

\* index_directory(): once in `index`, on requests in `serve`.
IndexRun(p) == /\ runs < MaxRuns
               /\ Go(p, "run", IF command[p] = "index" THEN "save" ELSE "run")
               /\ runs' = runs + 1
               /\ engine' = [engine EXCEPT ![p] = runs + 1]
               /\ UNCHANGED <<files, command, source, save>>

\* The scan throws: in serve it is a request that failed.
IndexFails(p) == /\ command[p] = "index"
                 /\ Go(p, "run", "failed")
                 /\ UNCHANGED <<files, runs, command, engine, source, save>>

\* serve has been stopped.
Shutdown(p) == /\ command[p] = "serve"
               /\ Go(p, "run", "save")
               /\ UNCHANGED <<files, runs, command, engine, source, save>>

-----------------------------------------------------------------------------
(* IndexStore::save().                                                     *)

Writing(i) == {p \in Process : pc[p] = "write" /\ fd[p] = i}

\* The image to write has some number of blocks.
BeginsWriting(p, i) == /\ Go(p, "save", "write")
                       /\ \E n \in 1..MaxBlocks : length' = [length EXCEPT ![p] = n]
                       /\ fd' = [fd EXCEPT ![p] = i]
                       /\ written' = [written EXCEPT ![p] = 0]
                       /\ UNCHANGED <<index_dat, runs, command, engine, source>>

SaveCreate(p) == /\ tmp = NoFile
                 /\ tmp' = Len(inodes) + 1
                 /\ inodes' = Append(inodes, Inode(<< >>, {p}))
                 /\ BeginsWriting(p, Len(inodes) + 1)

\* Mutant: what is there is not cut off.
SaveOverwrite(p) == /\ tmp # NoFile
                    /\ inodes' = [inodes EXCEPT ![tmp].writers = Writing(tmp) \cup {p}]
                    /\ BeginsWriting(p, tmp)
                    /\ UNCHANGED tmp

\* path.tmp is there: its inode is truncated, whoever else has it open.
SaveTruncate(p) == /\ tmp # NoFile
                   /\ inodes' = [inodes EXCEPT ![tmp] = Inode(<< >>, Writing(tmp) \cup {p})]
                   /\ BeginsWriting(p, tmp)
                   /\ UNCHANGED tmp

\* Writes at the writer's own offset; a gap before it reads as zeros.
WriteAt(blocks, k, b) ==
    [j \in 1..(IF k > Len(blocks) THEN k ELSE Len(blocks)) |->
        IF j = k THEN b ELSE IF j <= Len(blocks) THEN blocks[j] ELSE Hole]

SaveWrite(p) == /\ pc[p] = "write" /\ written[p] < length[p]
                /\ written' = [written EXCEPT ![p] = @ + 1]
                /\ inodes' = [inodes EXCEPT ![fd[p]].blocks =
                                 WriteAt(@, written[p] + 1, Block(p, written[p] + 1))]
                /\ UNCHANGED <<index_dat, tmp, runs, command, pc, engine, source, fd, length>>

\* Mutant: renamed before the last block is flushed.
RenameEarly(p) == /\ written[p] + 1 >= length[p] /\ tmp # NoFile
                  /\ Go(p, "write", "saved")
                  /\ index_dat' = tmp
                  /\ tmp' = NoFile
                  /\ UNCHANGED <<inodes, runs, command, engine, source, save>>

\* rename() moves whatever file has the name by now.
SaveRename(p) == /\ written[p] = length[p] /\ tmp # NoFile
                 /\ Go(p, "write", "saved")
                 /\ index_dat' = tmp
                 /\ tmp' = NoFile
                 /\ UNCHANGED <<inodes, runs, command, engine, source, save>>

\* The file cannot be opened or written, or is not there any more when it is to be
\* renamed: index dies of it, serve warns and ends.
SaveFails(p) == /\ Go(p, "save", "failed") \/ Go(p, "write", "failed")
                /\ UNCHANGED <<files, runs, command, engine, source, save>>

Crash(p) == /\ pc[p] \in Running
            /\ pc' = [pc EXCEPT ![p] = "dead"]
            /\ UNCHANGED <<files, runs, command, engine, source, save>>

Next == \E p \in Process :
           \/ \E c \in Commands : Start(p, c)
           \/ NoIndex(p) \/ Load(p) \/ LoadFails(p) \/ LoadGarbage(p)
           \/ IndexRun(p) \/ IndexFails(p) \/ Shutdown(p)
           \/ SaveCreate(p) \/ SaveTruncate(p) \/ SaveWrite(p) \/ SaveRename(p) \/ SaveFails(p)
           \/ Crash(p)

Spec == Init /\ [][Next]_vars

-----------------------------------------------------------------------------

Blocks == [by : Process \cup {"nobody"}, number : Nat]
Files  == [blocks : Seq(Blocks), writers : SUBSET Process]

(* Types.                                                                  *)
TypeOK == /\ index_dat \in 0..Len(inodes) /\ tmp \in 0..Len(inodes)
          /\ inodes \in Seq(Files)
          /\ runs \in Nat
          /\ command \in [Process -> Commands]
          /\ pc \in [Process -> Labels]
          /\ engine \in [Process -> Nat]
          /\ source \in [Process -> 0..Len(inodes)]
          /\ fd \in [Process -> 0..Len(inodes)]
          /\ written \in [Process -> Nat] /\ length \in [Process -> Nat]

(* A torn index.dat never comes from saves that all report success: if it  *)
(* is not one whole image, a process that had it open for writing is still *)
(* at it, has failed, or has died.  Two writers of one path.tmp cannot both*)
(* rename it, whatever other saves create that name anew in between.       *)
TornFileIsReported ==
    index_dat # NoFile /\ ~Whole(index_dat) =>
        \E p \in inodes[index_dat].writers : pc[p] # "saved"

Renames(p) == pc[p] = "write" /\ pc'[p] = "saved"
LoneWriter(i) == \E q \in Process : inodes[i].writers = {q}

(* A save that has path.tmp for itself puts its whole index in place,      *)
(* whatever a process that failed or died left under that name; and if the *)
(* file it replaces is the one it loaded, written by a save like that, the *)
(* index does not go back.  (serve saves the index it has in memory: what  *)
(* `index` saved in the meantime is lost, which this does not exclude.)    *)
LoneSavesAreSafe ==
    [][\A p \in Process : Renames(p) /\ inodes[tmp].writers = {p} =>
          /\ inodes[index_dat'].blocks = Image(p)
          /\ (index_dat # NoFile /\ index_dat = source[p] /\ LoneWriter(index_dat)) =>
                engine[p] >= engine[Author(index_dat)]]_vars
=============================================================================
