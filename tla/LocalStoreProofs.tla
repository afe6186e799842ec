-------------------------- MODULE LocalStoreProofs --------------------------
(***************************************************************************)
(* Proofs about the store of reports, for any sets of uploads, readers,    *)
(* names and bodies and any number of restarts: the inductive invariant,   *)
(* the safety properties and the refinement of the put-if-absent map.      *)
(***************************************************************************)
EXTENDS LocalStore, TLAPS

\* The empty store satisfies the inductive invariant.
LEMMA InitIInv == Init => IInv
<1> SUFFICES ASSUME Init PROVE IInv
  OBVIOUS
<1>1. TypeOK
  BY DEF Init, TypeOK, PcValues, File, Upload, NoBlob, File
<1>2. QED
  BY <1>1, NoneAssumption DEF Init, IInv, Exclusive, Critical, OwnNames,
     OwnFiles, Writing, StillFree, StillThere, CommittedIsWhole,
     ReaderSizeIsRight, NoLitter

\* Every step of an upload, a reader, a delete and a restart preserves the
\* inductive invariant.
LEMMA NextIInv == IInv /\ [Next]_vars => IInv'
<1> SUFFICES ASSUME IInv, [Next]_vars PROVE IInv'
  OBVIOUS
<1> USE NoneAssumption, ActorsAssumption, SizeAssumption, BoundsAssumption
    DEF IInv
<1>t. ASSUME NEW c \in Clients, pc[c] # "idle"
      PROVE  name[c] \in TempNames /\ request[c] \in Upload
  BY <1>t DEF TypeOK, OwnNames
<1>1. ASSUME NEW c \in Clients, OpenWriter(c) PROVE IInv'
  <2>1. TypeOK'
    BY <1>1 DEF OpenWriter, Goto, TypeOK, PcValues, readers, Upload,
       FreshNames, File
  <2>2. Exclusive'
    BY <1>1 DEF OpenWriter, Goto, Exclusive, Critical, readers, File
  <2>3. OwnNames'
    BY <1>1 DEF OpenWriter, Goto, TypeOK, OwnNames, Upload, FreshNames, File
  <2>4. OwnFiles'
    BY <1>1 DEF OpenWriter, Goto, TypeOK, OwnFiles, OwnFile, Upload,
       FreshNames, File
  <2>5. StillFree'
    BY <1>1 DEF OpenWriter, Goto, StillFree, File
  <2>6. StillThere'
    BY <1>1 DEF OpenWriter, StillThere, readers, File
  <2>7. CommittedIsWhole'
    BY <1>1 DEF OpenWriter, CommittedIsWhole, File
  <2>8. ReaderSizeIsRight'
    BY <1>1 DEF OpenWriter, ReaderSizeIsRight, readers, File
  <2>9. NoLitter'
    BY <1>1 DEF OpenWriter, TypeOK, OwnNames, NoLitter, File
  <2>10. QED
    BY <2>1, <2>2, <2>3, <2>4, <2>5, <2>6, <2>7, <2>8, <2>9
<1>2. ASSUME NEW c \in Clients, Write(c) PROVE IInv'
  <2>0. name[c] \in TempNames /\ request[c] \in Upload
    BY <1>2, <1>t DEF Write
  <2>1. TypeOK'
    <3>1. ingest[name[c]] \in File
      BY <1>2, <2>0 DEF Write, TypeOK, OwnFiles, OwnFile, Writing
    <3> DEFINE longer == [ingest[name[c]] EXCEPT !.size = @ + 1]
    <3>2. ingest' = [ingest EXCEPT ![name[c]] = longer]
      BY <1>2 DEF Write
    <3>3. longer \in File
      BY <3>1 DEF File
    <3>4. ingest' \in [TempNames -> File \cup {None}]
      BY <3>2, <3>3, <2>0 DEF TypeOK
    <3>5. QED
      BY <1>2, <3>4 DEF Write, TypeOK, writers, readers
  <2>2. Exclusive'
    BY <1>2, <2>0 DEF Write, Exclusive, writers, readers, File
  <2>3. OwnNames'
    BY <1>2, <2>0 DEF Write, OwnNames, writers, File
  <2>4. OwnFiles'
    BY <1>2, <2>0 DEF Write, TypeOK, OwnFiles, OwnFile, Writing, writers, File
  <2>5. StillFree'
    BY <1>2, <2>0 DEF Write, StillFree, writers, File
  <2>6. StillThere'
    BY <1>2, <2>0 DEF Write, StillThere, readers, File
  <2>7. CommittedIsWhole'
    BY <1>2, <2>0 DEF Write, CommittedIsWhole, File
  <2>8. ReaderSizeIsRight'
    BY <1>2, <2>0 DEF Write, ReaderSizeIsRight, readers, File
  <2>9. NoLitter'
    BY <1>2, <2>0 DEF Write, NoLitter, writers, File
  <2>10. QED
    BY <2>1, <2>2, <2>3, <2>4, <2>5, <2>6, <2>7, <2>8, <2>9
<1>3. ASSUME NEW c \in Clients, CopyFailed(c) PROVE IInv'
  <2>0. name[c] \in TempNames /\ request[c] \in Upload
    BY <1>3, <1>t DEF CopyFailed
  <2>1. TypeOK'
    BY <1>3, <2>0 DEF CopyFailed, Goto, TypeOK, PcValues, readers, File
  <2>2. Exclusive'
    BY <1>3, <2>0 DEF CopyFailed, Goto, Exclusive, Critical, readers, File
  <2>3. OwnNames'
    BY <1>3, <2>0 DEF CopyFailed, Goto, OwnNames, File
  <2>4. OwnFiles'
    BY <1>3, <2>0 DEF CopyFailed, Goto, TypeOK, OwnFiles, OwnFile, Writing,
       File
  <2>5. StillFree'
    BY <1>3, <2>0 DEF CopyFailed, Goto, StillFree, File
  <2>6. StillThere'
    BY <1>3, <2>0 DEF CopyFailed, StillThere, readers, File
  <2>7. CommittedIsWhole'
    BY <1>3, <2>0 DEF CopyFailed, CommittedIsWhole, File
  <2>8. ReaderSizeIsRight'
    BY <1>3, <2>0 DEF CopyFailed, ReaderSizeIsRight, readers, File
  <2>9. NoLitter'
    BY <1>3, <2>0 DEF CopyFailed, NoLitter, File
  <2>10. QED
    BY <2>1, <2>2, <2>3, <2>4, <2>5, <2>6, <2>7, <2>8, <2>9
<1>4. ASSUME NEW c \in Clients, CopyDone(c) PROVE IInv'
  <2>0. name[c] \in TempNames /\ request[c] \in Upload
    BY <1>4, <1>t DEF CopyDone
  <2>1. TypeOK'
    BY <1>4, <2>0 DEF CopyDone, Goto, TypeOK, PcValues, readers, File
  <2>2. Exclusive'
    BY <1>4, <2>0 DEF CopyDone, Goto, Exclusive, Critical, readers, File
  <2>3. OwnNames'
    BY <1>4, <2>0 DEF CopyDone, Goto, OwnNames, File
  <2>4. OwnFiles'
    BY <1>4, <2>0 DEF CopyDone, Goto, OwnFiles, OwnFile, Writing, File
  <2>5. StillFree'
    BY <1>4, <2>0 DEF CopyDone, Goto, StillFree, File
  <2>6. StillThere'
    BY <1>4, <2>0 DEF CopyDone, StillThere, readers, File
  <2>7. CommittedIsWhole'
    BY <1>4, <2>0 DEF CopyDone, CommittedIsWhole, File
  <2>8. ReaderSizeIsRight'
    BY <1>4, <2>0 DEF CopyDone, ReaderSizeIsRight, readers, File
  <2>9. NoLitter'
    BY <1>4, <2>0 DEF CopyDone, NoLitter, File
  <2>10. QED
    BY <2>1, <2>2, <2>3, <2>4, <2>5, <2>6, <2>7, <2>8, <2>9
<1>5. ASSUME NEW c \in Clients, CommitLock(c) PROVE IInv'
  <2>0. name[c] \in TempNames /\ request[c] \in Upload
    BY <1>5, <1>t DEF CommitLock
  <2>1. TypeOK'
    BY <1>5, <2>0 DEF CommitLock, Goto, TypeOK, PcValues, readers, File
  <2>2. Exclusive'
    BY <1>5, <2>0 DEF CommitLock, Goto, TypeOK, Exclusive, Critical, readers,
       File
  <2>3. OwnNames'
    BY <1>5, <2>0 DEF CommitLock, Goto, OwnNames, File
  <2>4. OwnFiles'
    BY <1>5, <2>0 DEF CommitLock, Goto, OwnFiles, OwnFile, Writing, File
  <2>5. StillFree'
    BY <1>5, <2>0 DEF CommitLock, Goto, StillFree, File
  <2>6. StillThere'
    BY <1>5, <2>0 DEF CommitLock, StillThere, readers, File
  <2>7. CommittedIsWhole'
    BY <1>5, <2>0 DEF CommitLock, CommittedIsWhole, File
  <2>8. ReaderSizeIsRight'
    BY <1>5, <2>0 DEF CommitLock, ReaderSizeIsRight, readers, File
  <2>9. NoLitter'
    BY <1>5, <2>0 DEF CommitLock, NoLitter, File
  <2>10. QED
    BY <2>1, <2>2, <2>3, <2>4, <2>5, <2>6, <2>7, <2>8, <2>9
<1>6. ASSUME NEW c \in Clients, CommitSync(c) PROVE IInv'
  <2>0. name[c] \in TempNames /\ request[c] \in Upload
    BY <1>6, <1>t DEF CommitSync
  <2>1. TypeOK'
    BY <1>6, <2>0 DEF CommitSync, Goto, TypeOK, PcValues, readers, File
  <2>2. Exclusive'
    BY <1>6, <2>0 DEF CommitSync, Goto, Exclusive, Critical, readers, File
  <2>3. OwnNames'
    BY <1>6, <2>0 DEF CommitSync, Goto, OwnNames, File
  <2>4. OwnFiles'
    BY <1>6, <2>0 DEF CommitSync, Goto, OwnFiles, OwnFile, Writing, File
  <2>5. StillFree'
    BY <1>6, <2>0 DEF CommitSync, Goto, StillFree, File
  <2>6. StillThere'
    BY <1>6, <2>0 DEF CommitSync, StillThere, readers, File
  <2>7. CommittedIsWhole'
    BY <1>6, <2>0 DEF CommitSync, CommittedIsWhole, File
  <2>8. ReaderSizeIsRight'
    BY <1>6, <2>0 DEF CommitSync, ReaderSizeIsRight, readers, File
  <2>9. NoLitter'
    BY <1>6, <2>0 DEF CommitSync, NoLitter, File
  <2>10. QED
    BY <2>1, <2>2, <2>3, <2>4, <2>5, <2>6, <2>7, <2>8, <2>9
<1>7. ASSUME NEW c \in Clients, CommitFailed(c) PROVE IInv'
  <2>0. name[c] \in TempNames /\ request[c] \in Upload
    BY <1>7, <1>t DEF CommitFailed
  <2>1. TypeOK'
    BY <1>7, <2>0 DEF CommitFailed, Goto, TypeOK, PcValues, readers, File
  <2>2. Exclusive'
    BY <1>7, <2>0 DEF CommitFailed, Goto, Exclusive, Critical, readers, File
  <2>3. OwnNames'
    BY <1>7, <2>0 DEF CommitFailed, Goto, OwnNames, File
  <2>4. OwnFiles'
    BY <1>7, <2>0 DEF CommitFailed, Goto, TypeOK, OwnFiles, OwnFile, Writing,
       File
  <2>5. StillFree'
    BY <1>7, <2>0 DEF CommitFailed, Goto, StillFree, File
  <2>6. StillThere'
    BY <1>7, <2>0 DEF CommitFailed, StillThere, readers, File
  <2>7. CommittedIsWhole'
    BY <1>7, <2>0 DEF CommitFailed, CommittedIsWhole, File
  <2>8. ReaderSizeIsRight'
    BY <1>7, <2>0 DEF CommitFailed, ReaderSizeIsRight, readers, File
  <2>9. NoLitter'
    BY <1>7, <2>0 DEF CommitFailed, NoLitter, File
  <2>10. QED
    BY <2>1, <2>2, <2>3, <2>4, <2>5, <2>6, <2>7, <2>8, <2>9
<1>8. ASSUME NEW c \in Clients, CommitStat(c) PROVE IInv'
  <2>0. name[c] \in TempNames /\ request[c] \in Upload
    BY <1>8, <1>t DEF CommitStat
  <2>1. TypeOK'
    BY <1>8, <2>0 DEF CommitStat, Goto, TypeOK, PcValues, readers, File
  <2>2. Exclusive'
    BY <1>8, <2>0 DEF CommitStat, Goto, TypeOK, Exclusive, Critical, readers,
       File
  <2>3. OwnNames'
    BY <1>8, <2>0 DEF CommitStat, Goto, TypeOK, OwnNames, File
  <2>4. OwnFiles'
    BY <1>8, <2>0 DEF CommitStat, Goto, TypeOK, OwnFiles, OwnFile, Writing,
       File
  <2>5. StillFree'
    BY <1>8, <2>0 DEF CommitStat, Goto, TypeOK, StillFree, File
  <2>6. StillThere'
    BY <1>8, <2>0 DEF CommitStat, StillThere, readers, File
  <2>7. CommittedIsWhole'
    BY <1>8, <2>0 DEF CommitStat, CommittedIsWhole, File
  <2>8. ReaderSizeIsRight'
    BY <1>8, <2>0 DEF CommitStat, ReaderSizeIsRight, readers, File
  <2>9. NoLitter'
    BY <1>8, <2>0 DEF CommitStat, NoLitter, File
  <2>10. QED
    BY <2>1, <2>2, <2>3, <2>4, <2>5, <2>6, <2>7, <2>8, <2>9
<1>9. ASSUME NEW c \in Clients, CommitRename(c) PROVE IInv'
  <2>0. name[c] \in TempNames /\ request[c] \in Upload
    BY <1>9, <1>t DEF CommitRename
  <2>1. TypeOK'
    BY <1>9, <2>0, Zenon DEF CommitRename, Goto, TypeOK, PcValues, readers, File
  <2>2. Exclusive'
    BY <1>9, <2>0 DEF CommitRename, Goto, Exclusive, Critical, readers, File
  <2>3. OwnNames'
    BY <1>9, <2>0 DEF CommitRename, Goto, OwnNames, File
  <2>4. OwnFiles'
    BY <1>9, <2>0 DEF CommitRename, Goto, TypeOK, OwnNames, OwnFiles, OwnFile,
       Writing, File
  <2>5. StillFree'
    BY <1>9, <2>0 DEF CommitRename, Goto, TypeOK, Exclusive, Critical,
       StillFree, File
  <2>6. StillThere'
    BY <1>9, <2>0 DEF CommitRename, Exclusive, Critical, StillThere, readers,
       File
  <2>7. CommittedIsWhole'
    BY <1>9, <2>0 DEF CommitRename, OwnFiles, OwnFile, Writing,
       CommittedIsWhole, File
  <2>8. ReaderSizeIsRight'
    BY <1>9, <2>0 DEF CommitRename, ReaderSizeIsRight, readers, File
  <2>9. NoLitter'
    BY <1>9, <2>0 DEF CommitRename, NoLitter, File
  <2>10. QED
    BY <2>1, <2>2, <2>3, <2>4, <2>5, <2>6, <2>7, <2>8, <2>9
<1>10. ASSUME NEW c \in Clients, CommitClose(c) PROVE IInv'
  <2>0. name[c] \in TempNames /\ request[c] \in Upload
    BY <1>10, <1>t DEF CommitClose
  <2>1. TypeOK'
    BY <1>10, <2>0 DEF CommitClose, Goto, TypeOK, PcValues, readers, File
  <2>2. Exclusive'
    BY <1>10, <2>0 DEF CommitClose, Goto, TypeOK, Exclusive, Critical,
       readers, File
  <2>3. OwnNames'
    BY <1>10, <2>0 DEF CommitClose, Goto, OwnNames, File
  <2>4. OwnFiles'
    BY <1>10, <2>0 DEF CommitClose, Goto, OwnNames, OwnFiles, OwnFile,
       Writing, File
  <2>5. StillFree'
    BY <1>10, <2>0 DEF CommitClose, Goto, StillFree, File
  <2>6. StillThere'
    BY <1>10, <2>0 DEF CommitClose, StillThere, readers, File
  <2>7. CommittedIsWhole'
    BY <1>10, <2>0 DEF CommitClose, CommittedIsWhole, File
  <2>8. ReaderSizeIsRight'
    BY <1>10, <2>0 DEF CommitClose, ReaderSizeIsRight, readers, File
  <2>9. NoLitter'
    BY <1>10, <2>0 DEF CommitClose, NoLitter, File
  <2>10. QED
    BY <2>1, <2>2, <2>3, <2>4, <2>5, <2>6, <2>7, <2>8, <2>9
<1>11. ASSUME NEW c \in Clients, Return(c) PROVE IInv'
  <2>0. name[c] \in TempNames /\ request[c] \in Upload
    BY <1>11, <1>t DEF Return
  <2>1. TypeOK'
    BY <1>11, <2>0 DEF Return, Goto, TypeOK, PcValues, readers, File
  <2>2. Exclusive'
    BY <1>11, <2>0 DEF Return, Goto, Exclusive, Critical, readers, File
  <2>3. OwnNames'
    BY <1>11, <2>0 DEF Return, Goto, TypeOK, OwnNames, File
  <2>4. OwnFiles'
    BY <1>11, <2>0 DEF Return, Goto, OwnNames, OwnFiles, OwnFile, Writing,
       File
  <2>5. StillFree'
    BY <1>11, <2>0 DEF Return, Goto, StillFree, File
  <2>6. StillThere'
    BY <1>11, <2>0 DEF Return, StillThere, readers, File
  <2>7. CommittedIsWhole'
    BY <1>11, <2>0 DEF Return, CommittedIsWhole, File
  <2>8. ReaderSizeIsRight'
    BY <1>11, <2>0 DEF Return, ReaderSizeIsRight, readers, File
  <2>9. NoLitter'
    BY <1>11, <2>0 DEF Return, TypeOK, NoLitter, File
  <2>10. QED
    BY <2>1, <2>2, <2>3, <2>4, <2>5, <2>6, <2>7, <2>8, <2>9
<1>12. ASSUME NEW d \in Readers, NEW r \in Refs, OpenReaderLock(d, r)
       PROVE  IInv'
  <2>1. TypeOK'
    BY <1>12 DEF OpenReaderLock, TypeOK, writers, NoBlob, File
  <2>2. Exclusive'
    BY <1>12 DEF OpenReaderLock, TypeOK, Exclusive, writers, File
  <2>3. OwnNames'
    BY <1>12 DEF OpenReaderLock, OwnNames, writers, File
  <2>4. OwnFiles'
    BY <1>12 DEF OpenReaderLock, OwnFiles, OwnFile, writers, File
  <2>5. StillFree'
    BY <1>12 DEF OpenReaderLock, StillFree, writers, File
  <2>6. StillThere'
    BY <1>12 DEF OpenReaderLock, TypeOK, StillThere, File
  <2>7. CommittedIsWhole'
    BY <1>12 DEF OpenReaderLock, CommittedIsWhole, File
  <2>8. ReaderSizeIsRight'
    BY <1>12 DEF OpenReaderLock, ReaderSizeIsRight, File
  <2>9. NoLitter'
    BY <1>12 DEF OpenReaderLock, NoLitter, writers, File
  <2>10. QED
    BY <2>1, <2>2, <2>3, <2>4, <2>5, <2>6, <2>7, <2>8, <2>9
<1>13. ASSUME NEW d \in Readers, OpenReaderStat(d) PROVE IInv'
  <2>1. TypeOK'
    <3>1. blob[d].ref \in Refs
      BY <1>13 DEF OpenReaderStat, TypeOK, StillThere
    <3>2. data[blob[d].ref] # None => data[blob[d].ref].size \in Nat
      BY <3>1 DEF TypeOK, File
    <3>3. blob' \in [Readers -> [ref : Refs \cup {None}, size : Nat,
                                file : File \cup {None}]]
      BY <1>13, <3>2 DEF OpenReaderStat, TypeOK
    <3>4. QED
      BY <1>13, <3>3 DEF OpenReaderStat, TypeOK, writers
  <2>2. Exclusive'
    BY <1>13 DEF OpenReaderStat, TypeOK, Exclusive, writers, File
  <2>3. OwnNames'
    BY <1>13 DEF OpenReaderStat, OwnNames, writers, File
  <2>4. OwnFiles'
    BY <1>13 DEF OpenReaderStat, OwnFiles, OwnFile, writers, File
  <2>5. StillFree'
    BY <1>13 DEF OpenReaderStat, StillFree, writers, File
  <2>6. StillThere'
    BY <1>13 DEF OpenReaderStat, TypeOK, StillThere, File
  <2>7. CommittedIsWhole'
    BY <1>13 DEF OpenReaderStat, CommittedIsWhole, File
  <2>8. ReaderSizeIsRight'
    BY <1>13 DEF OpenReaderStat, TypeOK, ReaderSizeIsRight, File
  <2>9. NoLitter'
    BY <1>13 DEF OpenReaderStat, NoLitter, writers, File
  <2>10. QED
    BY <2>1, <2>2, <2>3, <2>4, <2>5, <2>6, <2>7, <2>8, <2>9
<1>14. ASSUME NEW d \in Readers, OpenReaderOpen(d) PROVE IInv'
  <2>1. TypeOK'
    <3>1. blob[d].ref \in Refs
      BY <1>14 DEF OpenReaderOpen, TypeOK, StillThere
    <3>2. blob' \in [Readers -> [ref : Refs \cup {None}, size : Nat,
                                file : File \cup {None}]]
      BY <1>14, <3>1 DEF OpenReaderOpen, TypeOK
    <3>3. QED
      BY <1>14, <3>2 DEF OpenReaderOpen, TypeOK, writers
  <2>2. Exclusive'
    BY <1>14 DEF OpenReaderOpen, TypeOK, Exclusive, writers, File
  <2>3. OwnNames'
    BY <1>14 DEF OpenReaderOpen, OwnNames, writers, File
  <2>4. OwnFiles'
    BY <1>14 DEF OpenReaderOpen, OwnFiles, OwnFile, writers, File
  <2>5. StillFree'
    BY <1>14 DEF OpenReaderOpen, StillFree, writers, File
  <2>6. StillThere'
    BY <1>14 DEF OpenReaderOpen, StillThere, File
  <2>7. CommittedIsWhole'
    BY <1>14 DEF OpenReaderOpen, CommittedIsWhole, File
  <2>8. ReaderSizeIsRight'
    BY <1>14 DEF OpenReaderOpen, TypeOK, StillThere, CommittedIsWhole,
       ReaderSizeIsRight, File
  <2>9. NoLitter'
    BY <1>14 DEF OpenReaderOpen, NoLitter, writers, File
  <2>10. QED
    BY <2>1, <2>2, <2>3, <2>4, <2>5, <2>6, <2>7, <2>8, <2>9
<1>15. ASSUME NEW d \in Readers, CloseReader(d) PROVE IInv'
  <2>1. TypeOK'
    BY <1>15 DEF CloseReader, TypeOK, writers, File
  <2>2. Exclusive'
    BY <1>15 DEF CloseReader, Exclusive, writers, File
  <2>3. OwnNames'
    BY <1>15 DEF CloseReader, OwnNames, writers, File
  <2>4. OwnFiles'
    BY <1>15 DEF CloseReader, OwnFiles, OwnFile, writers, File
  <2>5. StillFree'
    BY <1>15 DEF CloseReader, StillFree, writers, File
  <2>6. StillThere'
    BY <1>15 DEF CloseReader, StillThere, File
  <2>7. CommittedIsWhole'
    BY <1>15 DEF CloseReader, CommittedIsWhole, File
  <2>8. ReaderSizeIsRight'
    BY <1>15 DEF CloseReader, ReaderSizeIsRight, File
  <2>9. NoLitter'
    BY <1>15 DEF CloseReader, NoLitter, writers, File
  <2>10. QED
    BY <2>1, <2>2, <2>3, <2>4, <2>5, <2>6, <2>7, <2>8, <2>9
<1>16. ASSUME NEW r \in Refs, Delete(r) PROVE IInv'
  <2>1. TypeOK'
    BY <1>16 DEF Delete, TypeOK, writers, readers, File
  <2>2. Exclusive'
    BY <1>16 DEF Delete, Exclusive, writers, readers, File
  <2>3. OwnNames'
    BY <1>16 DEF Delete, OwnNames, writers, File
  <2>4. OwnFiles'
    BY <1>16 DEF Delete, OwnFiles, OwnFile, writers, File
  <2>5. StillFree'
    BY <1>16 DEF Delete, StillFree, writers, File
  <2>6. StillThere'
    BY <1>16 DEF Delete, Exclusive, StillThere, readers, File
  <2>7. CommittedIsWhole'
    BY <1>16 DEF Delete, CommittedIsWhole, File
  <2>8. ReaderSizeIsRight'
    BY <1>16 DEF Delete, ReaderSizeIsRight, readers, File
  <2>9. NoLitter'
    BY <1>16 DEF Delete, NoLitter, writers, File
  <2>10. QED
    BY <2>1, <2>2, <2>3, <2>4, <2>5, <2>6, <2>7, <2>8, <2>9
<1>17. ASSUME Crash PROVE IInv'
  <2>1. TypeOK'
    BY <1>17 DEF Crash, TypeOK, PcValues, NoBlob, File
  <2>2. Exclusive'
    BY <1>17 DEF Crash, Exclusive, Critical, File
  <2>3. OwnNames'
    BY <1>17 DEF Crash, OwnNames, File
  <2>4. OwnFiles'
    BY <1>17 DEF Crash, OwnFiles, Writing, File
  <2>5. StillFree'
    BY <1>17 DEF Crash, StillFree, File
  <2>6. StillThere'
    BY <1>17 DEF Crash, StillThere, File
  <2>7. CommittedIsWhole'
    BY <1>17 DEF Crash, CommittedIsWhole, File
  <2>8. ReaderSizeIsRight'
    BY <1>17 DEF Crash, ReaderSizeIsRight, File
  <2>9. NoLitter'
    BY <1>17 DEF Crash, TypeOK, NoLitter, File
  <2>10. QED
    BY <2>1, <2>2, <2>3, <2>4, <2>5, <2>6, <2>7, <2>8, <2>9
<1>18. CASE UNCHANGED vars
  BY <1>18 DEF vars, TypeOK, Exclusive, OwnNames, OwnFiles, OwnFile,
     StillFree, StillThere, CommittedIsWhole, ReaderSizeIsRight, NoLitter
<1>19. QED
  BY <1>1, <1>2, <1>3, <1>4, <1>5, <1>6, <1>7, <1>8, <1>9, <1>10, <1>11,
     <1>12, <1>13, <1>14, <1>15, <1>16, <1>17, <1>18 DEF Next, Handle, Commit,
     OpenReader

\* The inductive invariant holds in every reachable state of the store.
LEMMA SpecIInv == Spec => []IInv
  BY InitIInv, NextIInv, PTL DEF Spec

\* The variables of the store keep their types.
THEOREM TypeCorrect == Spec => []TypeOK
  BY SpecIInv, PTL DEF IInv

\* For any number of uploads, readers and restarts, a committed report is a
\* whole body.
THEOREM CommittedIsWholeHolds == Spec => []CommittedIsWhole
  BY SpecIInv, PTL DEF IInv

\* For any number of uploads and readers, the size of a reader is the size of
\* the file it opened.
THEOREM ReaderSizeIsRightHolds == Spec => []ReaderSizeIsRight
  BY SpecIInv, PTL DEF IInv

\* Before the first restart every temporary file belongs to an upload.
THEOREM NoLitterHolds == Spec => []NoLitter
  BY SpecIInv, PTL DEF IInv

\* The initial store is the empty map.
LEMMA RefinesInit == Init => Abstract!Init
  BY DEF Init, Abstract!Init, stored

\* What is stored under a name changes only with the file of that name.
LEMMA StoredKept == data' = data => stored' = stored
  BY DEF stored

\* Every step of the store is a step of the put-if-absent map or leaves it as
\* it is: an upload takes effect at its Stat when the name is taken and at its
\* Rename when it is free.
LEMMA RefinesNext == IInv /\ [Next]_vars => [Abstract!Next]_(Abstract!vars)
<1> SUFFICES ASSUME IInv, [Next]_vars
             PROVE  Abstract!Next \/ UNCHANGED Abstract!vars
  OBVIOUS
<1> USE NoneAssumption
<1>1. ASSUME NEW c \in Clients, OpenWriter(c) PROVE Abstract!Next
  <2>1. PICK u \in Upload : request' = [request EXCEPT ![c] = u]
    BY <1>1, Zenon DEF OpenWriter
  <2>2. /\ u = [ref |-> u.ref, body |-> u.body]
        /\ u.ref \in Refs /\ u.body \in Bodies
    BY DEF Upload
  <2>3. Abstract!Begin(c, u.ref, u.body)
    BY <1>1, <2>1, <2>2, StoredKept, Zenon DEF OpenWriter, Abstract!Begin
  <2>4. QED
    BY <2>2, <2>3 DEF Abstract!Next
<1>2. ASSUME NEW c \in Clients, CopyFailed(c) \/ CommitFailed(c)
      PROVE  Abstract!Next
  <2>1. outcome[c] = "none" /\ request[c] # None
    BY <1>2 DEF CopyFailed, CommitFailed, IInv, OwnFiles, OwnFile, Writing,
       OwnNames
  <2>2. Abstract!Failed(c)
    BY <1>2, <2>1, StoredKept DEF CopyFailed, CommitFailed, Abstract!Failed
  <2>3. QED
    BY <2>2 DEF Abstract!Next
<1>3. ASSUME NEW c \in Clients, CommitStat(c)
      PROVE  Abstract!Next \/ UNCHANGED Abstract!vars
  <2>1. /\ outcome[c] = "none" /\ request[c] # None
        /\ request[c] \in Upload
    BY <1>3 DEF CommitStat, IInv, TypeOK, OwnFiles, OwnFile, Writing, OwnNames
  <2>2. CASE data[request[c].ref] # None
    <3>1. stored[request[c].ref] # None
      BY <2>1, <2>2 DEF stored, Upload, IInv, TypeOK, File
    <3>2. Abstract!Conflict(c)
      BY <1>3, <2>1, <2>2, <3>1, StoredKept DEF CommitStat, Abstract!Conflict
    <3>3. QED
      BY <3>2 DEF Abstract!Next
  <2>3. CASE data[request[c].ref] = None
    BY <1>3, <2>3, StoredKept DEF CommitStat, Abstract!vars
  <2>4. QED
    BY <2>2, <2>3
<1>4. ASSUME NEW c \in Clients, CommitRename(c) PROVE Abstract!Next
  <2>1. /\ outcome[c] = "none" /\ request[c] # None
        /\ request[c].ref \in Refs
        /\ ingest[name[c]] # None /\ ingest[name[c]].body = request[c].body
        /\ data[request[c].ref] = None
    BY <1>4 DEF CommitRename, IInv, TypeOK, Upload, OwnFiles, OwnFile,
       Writing, OwnNames, StillFree
  <2>2. stored[request[c].ref] = None
    BY <2>1 DEF stored
  <2>3. stored' = [stored EXCEPT ![request[c].ref] = request[c].body]
    BY <1>4, <2>1, Zenon DEF CommitRename, stored, IInv, TypeOK
  <2>4. Abstract!Created(c)
    BY <1>4, <2>1, <2>2, <2>3 DEF CommitRename, Abstract!Created
  <2>5. QED
    BY <2>4 DEF Abstract!Next
<1>5. ASSUME NEW r \in Refs, Delete(r) PROVE Abstract!Next
  <2>1. stored' = [stored EXCEPT ![r] = None]
    BY <1>5, Zenon DEF Delete, stored, IInv, TypeOK
  <2>2. Abstract!Remove(r)
    BY <1>5, <2>1 DEF Delete, writers, Abstract!Remove
  <2>3. QED
    BY <2>2 DEF Abstract!Next
<1>6. CASE Crash
  <2>1. Abstract!Restart
    BY <1>6, StoredKept DEF Crash, Abstract!Restart
  <2>2. QED
    BY <2>1 DEF Abstract!Next
<1>7. ASSUME NEW c \in Clients,
             Write(c) \/ CopyDone(c) \/ CommitLock(c) \/ CommitSync(c)
               \/ CommitClose(c) \/ Return(c)
      PROVE  UNCHANGED Abstract!vars
  BY <1>7, StoredKept DEF Write, CopyDone, CommitLock, CommitSync,
     CommitClose, Return, writers, Abstract!vars
<1>8. ASSUME NEW d \in Readers, NEW r \in Refs,
             OpenReaderLock(d, r)
      PROVE  UNCHANGED Abstract!vars
  BY <1>8, StoredKept DEF OpenReaderLock, writers, Abstract!vars
<1>9. ASSUME NEW d \in Readers, OpenReader(d) \/ CloseReader(d)
      PROVE  UNCHANGED Abstract!vars
  BY <1>9, StoredKept DEF OpenReader, OpenReaderStat, OpenReaderOpen,
     CloseReader, writers, Abstract!vars
<1>10. CASE UNCHANGED vars
  BY <1>10, StoredKept DEF vars, Abstract!vars
<1>11. QED
  BY <1>1, <1>2, <1>3, <1>4, <1>5, <1>6, <1>7, <1>8, <1>9, <1>10 DEF Next,
     Handle, Commit

\* The store implements the put-if-absent map, for any number of concurrent
\* uploads, readers, names, bodies and restarts.
THEOREM Refinement == Spec => AbstractSpec
  BY RefinesInit, RefinesNext, SpecIInv, PTL DEF Spec, AbstractSpec,
     Abstract!Spec
=============================================================================
