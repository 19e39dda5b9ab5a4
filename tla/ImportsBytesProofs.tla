-------------------------- MODULE ImportsBytesProofs --------------------------
(***************************************************************************)
(* Where the bytes of each file are: the invariants of Imports that are    *)
(* about what a slot, a job's temp or a source holds, over the ones that   *)
(* ImportsProofs keeps, and the properties that follow from all of them.   *)
(***************************************************************************)
EXTENDS ImportsProofs

\* What the provers may take over a leaf that names none.
USE SMTT(30), ZenonT(30), SMTT(60)

\* A job and its bytes.
LEMMA HashedKept ==
  ASSUME Types, Types', Claims, Hashed, Effect
  PROVE  Hashed'
PROOF
<1>1. file \in [File -> FileRow] /\ imp \in [File -> ImportRow] /\ job \in [Token -> JobRow] /\
  tick \in TickState
  BY DEF Types
<1>2. \A t \in Token : job[t].f \in File /\ job[t].type \in Type /\ job[t].got \in Bytes
  BY DEF Types, JobRow
<1>3. \A f \in File : imp[f].state = "active" <=> imp[f].token # 0
  BY DEF Types, Paired
<1>4. 0 \notin Token /\ Importing \subseteq File
  BY ImportsAssumption DEF Token
<1>5. ASSUME NEW f \in File, GetFileUriDoes(f)
      PROVE  Hashed'
  BY <1>5, <1>1, <1>2, <1>3, <1>4 DEF GetFileUriDoes, getFsFileUri, Claims, Gone, Hashed, Owns,
    Waited, Copying
<1>6. ASSUME NEW f \in File, DownloadStartDoes(f)
      PROVE  Hashed'
  BY <1>6, <1>1, <1>2, <1>3, <1>4 DEF DownloadStartDoes, DlIs, Claims, Gone, Hashed, Owns,
    Waited, Copying
<1>7. ASSUME NEW f \in File, DownloadOpensDoes(f)
      PROVE  Hashed'
  BY <1>7, <1>1, <1>2, <1>3, <1>4 DEF DownloadOpensDoes, DlIs, Claims, Gone, Hashed, Owns,
    Waited, Copying
<1>8. ASSUME NEW f \in File, DownloadArrivesDoes(f)
      PROVE  Hashed'
  BY <1>8, <1>1, <1>2, <1>3, <1>4 DEF DownloadArrivesDoes, DlIs, Claims, Gone, Hashed, Owns,
    Waited, Copying
<1>9. ASSUME NEW f \in File, DownloadRecordsDoes(f)
      PROVE  Hashed'
  BY <1>9, <1>1, <1>2, <1>3, <1>4 DEF DownloadRecordsDoes, DlIs, Recorded, Claims, Gone, Hashed,
    Owns, Waited, Copying
<1>10. ASSUME NEW f \in File, DownloadStopsDoes(f)
      PROVE  Hashed'
  BY <1>10, <1>1, <1>2, <1>3, <1>4 DEF DownloadStopsDoes, DlIs, Claims, Gone, Hashed, Owns,
    Waited, Copying
<1>11. ASSUME NEW f \in File, EditDoes(f)
      PROVE  Hashed'
  BY <1>11, <1>1, <1>2, <1>3, <1>4 DEF EditDoes, FileIs, Claims, Gone, Hashed, Owns, Waited,
    Copying
<1>12. ASSUME NEW f \in File, TombstoneDoes(f)
      PROVE  Hashed'
  BY <1>12, <1>1, <1>2, <1>3, <1>4 DEF TombstoneDoes, FileIs, Claims, Gone, Hashed, Owns,
    Waited, Copying
<1>13. ASSUME NEW f \in File, UploadDoes(f)
      PROVE  Hashed'
  BY <1>13, <1>1, <1>2, <1>3, <1>4 DEF UploadDoes, Claims, Gone, Hashed, Owns, Waited, Copying
<1>14. ASSUME NEW f \in File, NEW y \in Type, RetypeDoes(f, y)
      PROVE  Hashed'
  BY <1>14, <1>1, <1>2, <1>3, <1>4 DEF RetypeDoes, FileIs, Recorded, Claims, Gone, Hashed, Owns,
    Waited, Copying
<1>15. ASSUME NEW f \in File, NEW y \in Type, removeTombstonedDoes(f, y)
      PROVE  Hashed'
  BY <1>15, <1>1, <1>2, <1>3, <1>4 DEF removeTombstonedDoes, removeNow, Claims, Gone, Hashed,
    Owns, Waited, Copying
<1>16. ASSUME ScanJudgeDoes
      PROVE  Hashed'
  BY <1>16, <1>1, <1>2, <1>3, <1>4 DEF ScanJudgeDoes, ScanIs, Claims, Gone, Hashed, Owns,
    Waited, Copying
<1>17. ASSUME RemoveTempDoes
      PROVE  Hashed'
  BY <1>17, <1>1, <1>2, <1>3, <1>4 DEF RemoveTempDoes, ScanIs, Claims, Gone, Hashed, Owns,
    Waited, Copying
<1>18. ASSUME NEW f \in File, NEW y \in Type, ScanEntryDoes(f, y)
      PROVE  Hashed'
  BY <1>18, <1>1, <1>2, <1>3, <1>4 DEF ScanEntryDoes, Misjudged, Recorded, ScanIs, ScansOn,
    getFsFileUri, removeNow, Claims, Gone, Hashed, Owns, Waited, Copying
<1>19. ASSUME ScanEndDoes
      PROVE  Hashed'
  BY <1>19, <1>1, <1>2, <1>3, <1>4 DEF ScanEndDoes, ScanIs, Claims, Gone, Hashed, Owns, Waited,
    Copying
<1>20. ASSUME EvictReadDoes
      PROVE  Hashed'
  BY <1>20, <1>1, <1>2, <1>3, <1>4 DEF EvictReadDoes, EvictIs, Claims, Gone, Hashed, Owns,
    Waited, Copying
<1>21. ASSUME NEW f \in File, NEW y \in Type, EvictCountDoes(f, y)
      PROVE  Hashed'
  BY <1>21, <1>1, <1>2, <1>3, <1>4 DEF EvictCountDoes, EvictIs, Claims, Gone, Hashed, Owns,
    Waited, Copying
<1>22. ASSUME NEW f \in File, NEW y \in Type, EvictTryDoes(f, y)
      PROVE  Hashed'
  BY <1>22, <1>1, <1>2, <1>3, <1>4 DEF EvictTryDoes, EvictIs, Claims, Gone, Hashed, Owns,
    Waited, Copying
<1>23. ASSUME NEW f \in File, NEW y \in Type, EvictRowDoes(f, y)
      PROVE  Hashed'
  BY <1>23, <1>1, <1>2, <1>3, <1>4 DEF EvictRowDoes, EvictIs, Claims, Gone, Hashed, Owns,
    Waited, Copying
<1>24. ASSUME EvictEndDoes
      PROVE  Hashed'
  BY <1>24, <1>1, <1>2, <1>3, <1>4 DEF EvictEndDoes, EvictIs, Claims, Gone, Hashed, Owns,
    Waited, Copying
<1>25. ASSUME NEW f \in File, NEW y \in Type, NEW z \in Type \union {"none"}, retypeFileDoes(f,
  y, z)
      PROVE  Hashed'
  BY <1>25, <1>1, <1>2, <1>3, <1>4 DEF retypeFileDoes, FileIs, Recorded, Claims, Gone, Hashed,
    Owns, Waited, Copying
<1>26. ASSUME SwitchIndexerDoes
      PROVE  Hashed'
  BY <1>26, <1>1, <1>2, <1>3, <1>4 DEF SwitchIndexerDoes, Claims, Gone, Hashed, Owns, Waited,
    Copying
<1>27. ASSUME ScanListDoes
      PROVE  Hashed'
  BY <1>27, <1>1, <1>2, <1>3, <1>4 DEF ScanListDoes, ScanIs, Claims, Gone, Hashed, Owns, Waited,
    Copying
<1>28. ASSUME TickBeginDoes
      PROVE  Hashed'
  BY <1>28, <1>1, <1>2, <1>3, <1>4 DEF TickBeginDoes, RowIs, Claims, Gone, Hashed, Owns, Waited,
    Copying
<1>29. ASSUME TickDoes
      PROVE  Hashed'
  BY <1>29, <1>1, <1>2, <1>3, <1>4 DEF TickDoes, Claims, Gone, Hashed, Owns, Waited, Copying
<1>30. ASSUME NEW f \in File, NEW t \in Token, ClaimDoes(f, t)
      PROVE  Hashed'
  BY <1>30, <1>1, <1>2, <1>3, <1>4 DEF ClaimDoes, ImpIs, RowIs, Claims, Gone, Hashed,
    Owns, Waited, Copying
<1>31. ASSUME NEW t \in Token, JobStartDoes(t)
      PROVE  Hashed'
  BY <1>31, <1>1, <1>2, <1>3, <1>4 DEF JobStartDoes, JobIs, Claims, Gone, Hashed, Owns,
    Waited, Copying
<1>32. ASSUME NEW t \in Token, ResolveDoes(t)
      PROVE  Hashed'
  BY <1>32, <1>1, <1>2, <1>3, <1>4 DEF ResolveDoes, ImpIs, JobIs, RowIs, Settles, Claims, Gone,
    Hashed, Owns, Waited, Copying
<1>33. ASSUME NEW t \in Token, CopyDoes(t)
      PROVE  Hashed'
  BY <1>33, <1>1, <1>2, <1>3, <1>4 DEF CopyDoes, JobIs, Late, Claims, Gone, Hashed, Owns,
    Waited, Copying
<1>34. ASSUME NEW t \in Token, CancelCopyDoes(t)
      PROVE  Hashed'
  BY <1>34, <1>1, <1>2, <1>3, <1>4 DEF CancelCopyDoes, JobIs, Claims, Gone, Hashed, Owns,
    Waited, Copying
<1>35. ASSUME NEW t \in Token, PublishDoes(t)
      PROVE  Hashed'
  BY <1>35, <1>1, <1>2, <1>3, <1>4 DEF PublishDoes, JobIs, Late, Claims, Gone, Hashed, Owns,
    Waited, Copying
<1>36. ASSUME NEW t \in Token, RecordDoes(t)
      PROVE  Hashed'
  BY <1>36, <1>1, <1>2, <1>3, <1>4 DEF RecordDoes, JobIs, Late, Claims, Gone, Hashed, Owns,
    Waited, Copying
<1>37. ASSUME NEW t \in Token, RecordCutDoes(t)
      PROVE  Hashed'
  BY <1>37, <1>1, <1>2, <1>3, <1>4 DEF RecordCutDoes, JobIs, Claims, Gone, Hashed, Owns, Waited,
    Copying
<1>38. ASSUME NEW t \in Token, HashDoes(t)
      PROVE  Hashed'
  BY <1>38, <1>1, <1>2, <1>3, <1>4 DEF HashDoes, JobIs, Claims, Gone, Hashed, Owns, Waited,
    Copying
<1>39. ASSUME NEW t \in Token, RefuseEmptyDoes(t)
      PROVE  Hashed'
  BY <1>39, <1>1, <1>2, <1>3, <1>4 DEF RefuseEmptyDoes, ImpIs, JobIs, RowIs, Settles, removeNow,
    Claims, Gone, Hashed, Owns, Waited, Copying
<1>40. ASSUME NEW t \in Token, RenameDoes(t)
      PROVE  Hashed'
  BY <1>40, <1>1, <1>2, <1>3, <1>4 DEF RenameDoes, JobIs, Claims, Gone, Hashed, Owns, Waited,
    Copying
<1>41. ASSUME NEW t \in Token, RecordHashDoes(t)
      PROVE  Hashed'
  BY <1>41, <1>1, <1>2, <1>3, <1>4 DEF RecordHashDoes, JobIs, Claims, Gone, Hashed, Owns,
    Waited, Copying
<1>42. ASSUME NEW t \in Token, FinalizeDoes(t)
      PROVE  Hashed'
  <2>1. /\ temp' = temp /\ job[t].pc = "final" /\ job'[t].pc \in {"over", "dup"}
        /\ job'[t].f = job[t].f /\ \A u \in Token \ {t} : job'[u] = job[u]
    BY <1>42 DEF FinalizeDoes, JobIs
  <2>2. \A f \in File : imp'[f].type = imp[f].type /\ imp'[f].hash = imp[f].hash
    BY <1>1, <1>2, <1>42 DEF FinalizeDoes, ImpIs, RowIs
  <2>3. job'[t].pc = "dup" => job'[t].type = job[t].type /\ job'[t].got = job[t].got /\ ~Owns(t)'
    BY <1>2, <1>3, <1>42 DEF FinalizeDoes, ImpIs, RowIs, JobIs, Owns
  <2>4. \A u \in Token \ {t} : Waited(u)' <=> Waited(u)
    BY <2>1 DEF Waited
  <2>5. \A f \in File : imp'[f] = imp[f] \/ imp'[f].state \in {"duplicate", "added"}
    BY <1>2, <1>42 DEF FinalizeDoes, ImpIs, RowIs
  <2>6. \A u \in Token \ {t} : Owns(u)' => Owns(u)
    BY <1>2, <2>1, <2>5 DEF Owns
  <2>7. QED
    BY <1>2, <2>1, <2>2, <2>3, <2>4, <2>6 DEF Hashed, Owns, Waited
<1>43. ASSUME NEW t \in Token, CleanDuplicateDoes(t)
      PROVE  Hashed'
  BY <1>43, <1>1, <1>2, <1>3, <1>4 DEF CleanDuplicateDoes, JobIs, removeNow, Claims, Gone,
    Hashed, Owns, Waited, Copying
<1>44. ASSUME NEW t \in Token, JobFailsDoes(t)
      PROVE  Hashed'
  BY <1>44, <1>1, <1>2, <1>3, <1>4 DEF JobFailsDoes, ImpIs, JobIs, RowIs, Settles, Claims, Gone,
    Hashed, Owns, Waited, Copying
<1>45. ASSUME NEW t \in Token, CopyFindsNothingDoes(t)
      PROVE  Hashed'
  BY <1>45, <1>1, <1>2, <1>3, <1>4 DEF CopyFindsNothingDoes, ImpIs, JobIs, RowIs, Settles,
    Claims, Gone, Hashed, Owns, Waited, Copying
<1>46. ASSUME NEW f \in File, GiveUpDoes(f)
      PROVE  Hashed'
  BY <1>46, <1>1, <1>2, <1>3, <1>4 DEF GiveUpDoes, ImpIs, RowIs, Claims, Gone, Hashed, Owns,
    Waited, Copying
<1>47. ASSUME NEW f \in File, RependDoes(f)
      PROVE  Hashed'
  BY <1>47, <1>1, <1>2, <1>3, <1>4 DEF RependDoes, ImpIs, RowIs, Claims, Gone, Hashed, Owns,
    Waited, Copying
<1>48. ASSUME NEW f \in File, EditSourceDoes(f)
      PROVE  Hashed'
  BY <1>48, <1>1, <1>2, <1>3, <1>4 DEF EditSourceDoes, Claims, Gone, Hashed, Owns, Waited,
    Copying
<1>49. ASSUME AbortDoes
      PROVE  Hashed'
  BY <1>49, <1>1, <1>2, <1>3, <1>4 DEF AbortDoes, Claims, Gone, Hashed, Owns, Waited, Copying
<1>50. ASSUME KillDoes
      PROVE  Hashed'
  BY <1>50, <1>1, <1>2, <1>3, <1>4 DEF KillDoes, EvictIs, Late, ScanIs, Claims, Gone, Hashed,
    Owns, Waited, Copying
<1>51. ASSUME DropReadDoes
      PROVE  Hashed'
  BY <1>51, <1>1, <1>2, <1>3, <1>4 DEF DropReadDoes, Claims, Gone, Hashed, Owns, Waited, Copying
<1>52. ASSUME failImportDoes
      PROVE  Hashed'
  BY <1>52, <1>1, <1>2, <1>3, <1>4 DEF failImportDoes, RowIs, Claims, Gone, Hashed, Owns,
    Waited, Copying
<1>53. ASSUME NEW f \in File, NEW y \in Type, DropBytesDoes(f, y)
      PROVE  Hashed'
  BY <1>53, <1>1, <1>2, <1>3, <1>4 DEF DropBytesDoes, removeNow, Claims, Gone, Hashed, Owns,
    Waited, Copying
<1>54. ASSUME deleteDirectoryDoes
      PROVE  Hashed'
  BY <1>54, <1>1, <1>2, <1>3, <1>4 DEF deleteDirectoryDoes, Claims, Gone, Hashed, Owns, Waited,
    Copying
<1>55. QED
  BY <1>5, <1>6, <1>7, <1>8, <1>9, <1>10, <1>11, <1>12, <1>13, <1>14, <1>15, <1>16, <1>17,
    <1>18, <1>19, <1>20, <1>21, <1>22, <1>23, <1>24, <1>25, <1>26, <1>27, <1>28, <1>29, <1>30,
    <1>31, <1>32, <1>33, <1>34, <1>35, <1>36, <1>37, <1>38, <1>39, <1>40, <1>41, <1>42, <1>43,
    <1>44, <1>45, <1>46, <1>47, <1>48, <1>49, <1>50, <1>51, <1>52, <1>53, <1>54 DEF Effect

\* A file and its hash.
LEMMA HashesKept ==
  ASSUME Types, Types', Claims, Hashed, Hashes, Effect
  PROVE  Hashes'
PROOF
<1>1. file \in [File -> FileRow] /\ imp \in [File -> ImportRow] /\ job \in [Token -> JobRow] /\
  tick \in TickState
  BY DEF Types
<1>2. \A t \in Token : job[t].f \in File /\ job[t].type \in Type /\ job[t].got \in Bytes
  BY DEF Types, JobRow
<1>3. \A f \in File : imp[f].state = "active" <=> imp[f].token # 0
  BY DEF Types, Paired
<1>4. 0 \notin Token /\ Importing \subseteq File
  BY ImportsAssumption DEF Token
<1>5. ASSUME NEW f \in File, GetFileUriDoes(f)
      PROVE  Hashes'
  BY <1>5, <1>1, <1>2, <1>3, <1>4 DEF GetFileUriDoes, getFsFileUri, Claims, Hashed, Hashes,
    Exists, Owns, Waited, Copying
<1>6. ASSUME NEW f \in File, DownloadStartDoes(f)
      PROVE  Hashes'
  BY <1>6, <1>1, <1>2, <1>3, <1>4 DEF DownloadStartDoes, DlIs, Claims, Hashed, Hashes, Exists,
    Owns, Waited, Copying
<1>7. ASSUME NEW f \in File, DownloadOpensDoes(f)
      PROVE  Hashes'
  BY <1>7, <1>1, <1>2, <1>3, <1>4 DEF DownloadOpensDoes, DlIs, Claims, Hashed, Hashes, Exists,
    Owns, Waited, Copying
<1>8. ASSUME NEW f \in File, DownloadArrivesDoes(f)
      PROVE  Hashes'
  BY <1>8, <1>1, <1>2, <1>3, <1>4 DEF DownloadArrivesDoes, DlIs, Claims, Hashed, Hashes, Exists,
    Owns, Waited, Copying
<1>9. ASSUME NEW f \in File, DownloadRecordsDoes(f)
      PROVE  Hashes'
  BY <1>9, <1>1, <1>2, <1>3, <1>4 DEF DownloadRecordsDoes, DlIs, Recorded, Claims, Hashed,
    Hashes, Exists, Owns, Waited, Copying
<1>10. ASSUME NEW f \in File, DownloadStopsDoes(f)
      PROVE  Hashes'
  BY <1>10, <1>1, <1>2, <1>3, <1>4 DEF DownloadStopsDoes, DlIs, Claims, Hashed, Hashes, Exists,
    Owns, Waited, Copying
<1>11. ASSUME NEW f \in File, EditDoes(f)
      PROVE  Hashes'
  BY <1>11, <1>1, <1>2, <1>3, <1>4 DEF EditDoes, FileIs, Claims, Hashed, Hashes, Exists, Owns,
    Waited, Copying
<1>12. ASSUME NEW f \in File, TombstoneDoes(f)
      PROVE  Hashes'
  BY <1>12, <1>1, <1>2, <1>3, <1>4 DEF TombstoneDoes, FileIs, Claims, Hashed, Hashes, Exists,
    Owns, Waited, Copying
<1>13. ASSUME NEW f \in File, UploadDoes(f)
      PROVE  Hashes'
  BY <1>13, <1>1, <1>2, <1>3, <1>4 DEF UploadDoes, Claims, Hashed, Hashes, Exists, Owns, Waited,
    Copying
<1>14. ASSUME NEW f \in File, NEW y \in Type, RetypeDoes(f, y)
      PROVE  Hashes'
  BY <1>14, <1>1, <1>2, <1>3, <1>4 DEF RetypeDoes, FileIs, Recorded, Claims, Hashed, Hashes,
    Exists, Owns, Waited, Copying
<1>15. ASSUME NEW f \in File, NEW y \in Type, removeTombstonedDoes(f, y)
      PROVE  Hashes'
  BY <1>15, <1>1, <1>2, <1>3, <1>4 DEF removeTombstonedDoes, removeNow, Claims, Hashed, Hashes,
    Exists, Owns, Waited, Copying
<1>16. ASSUME ScanJudgeDoes
      PROVE  Hashes'
  BY <1>16, <1>1, <1>2, <1>3, <1>4 DEF ScanJudgeDoes, ScanIs, Claims, Hashed, Hashes, Exists,
    Owns, Waited, Copying
<1>17. ASSUME RemoveTempDoes
      PROVE  Hashes'
  BY <1>17, <1>1, <1>2, <1>3, <1>4 DEF RemoveTempDoes, ScanIs, Claims, Hashed, Hashes, Exists,
    Owns, Waited, Copying
<1>18. ASSUME NEW f \in File, NEW y \in Type, ScanEntryDoes(f, y)
      PROVE  Hashes'
  BY <1>18, <1>1, <1>2, <1>3, <1>4 DEF ScanEntryDoes, Misjudged, Recorded, ScanIs, ScansOn,
    getFsFileUri, removeNow, Claims, Hashed, Hashes, Exists, Owns, Waited, Copying
<1>19. ASSUME ScanEndDoes
      PROVE  Hashes'
  BY <1>19, <1>1, <1>2, <1>3, <1>4 DEF ScanEndDoes, ScanIs, Claims, Hashed, Hashes, Exists,
    Owns, Waited, Copying
<1>20. ASSUME EvictReadDoes
      PROVE  Hashes'
  BY <1>20, <1>1, <1>2, <1>3, <1>4 DEF EvictReadDoes, EvictIs, Claims, Hashed, Hashes, Exists,
    Owns, Waited, Copying
<1>21. ASSUME NEW f \in File, NEW y \in Type, EvictCountDoes(f, y)
      PROVE  Hashes'
  BY <1>21, <1>1, <1>2, <1>3, <1>4 DEF EvictCountDoes, EvictIs, Claims, Hashed, Hashes, Exists,
    Owns, Waited, Copying
<1>22. ASSUME NEW f \in File, NEW y \in Type, EvictTryDoes(f, y)
      PROVE  Hashes'
  BY <1>22, <1>1, <1>2, <1>3, <1>4 DEF EvictTryDoes, EvictIs, Claims, Hashed, Hashes, Exists,
    Owns, Waited, Copying
<1>23. ASSUME NEW f \in File, NEW y \in Type, EvictRowDoes(f, y)
      PROVE  Hashes'
  BY <1>23, <1>1, <1>2, <1>3, <1>4 DEF EvictRowDoes, EvictIs, Claims, Hashed, Hashes, Exists,
    Owns, Waited, Copying
<1>24. ASSUME EvictEndDoes
      PROVE  Hashes'
  BY <1>24, <1>1, <1>2, <1>3, <1>4 DEF EvictEndDoes, EvictIs, Claims, Hashed, Hashes, Exists,
    Owns, Waited, Copying
<1>25. ASSUME NEW f \in File, NEW y \in Type, NEW z \in Type \union {"none"}, retypeFileDoes(f,
  y, z)
      PROVE  Hashes'
  BY <1>25, <1>1, <1>2, <1>3, <1>4 DEF retypeFileDoes, FileIs, Recorded, Claims, Hashed, Hashes,
    Exists, Owns, Waited, Copying
<1>26. ASSUME SwitchIndexerDoes
      PROVE  Hashes'
  BY <1>26, <1>1, <1>2, <1>3, <1>4 DEF SwitchIndexerDoes, Claims, Hashed, Hashes, Exists, Owns,
    Waited, Copying
<1>27. ASSUME ScanListDoes
      PROVE  Hashes'
  BY <1>27, <1>1, <1>2, <1>3, <1>4 DEF ScanListDoes, ScanIs, Claims, Hashed, Hashes, Exists,
    Owns, Waited, Copying
<1>28. ASSUME TickBeginDoes
      PROVE  Hashes'
  BY <1>28, <1>1, <1>2, <1>3, <1>4 DEF TickBeginDoes, RowIs, Claims, Hashed, Hashes, Exists,
    Owns, Waited, Copying
<1>29. ASSUME TickDoes
      PROVE  Hashes'
  BY <1>29, <1>1, <1>2, <1>3, <1>4 DEF TickDoes, Claims, Hashed, Hashes, Exists, Owns, Waited,
    Copying
<1>30. ASSUME NEW f \in File, NEW t \in Token, ClaimDoes(f, t)
      PROVE  Hashes'
  BY <1>30, <1>1, <1>2, <1>3, <1>4 DEF ClaimDoes, ImpIs, RowIs, Claims, Hashed, Hashes, Exists,
    Owns, Waited, Copying
<1>31. ASSUME NEW t \in Token, JobStartDoes(t)
      PROVE  Hashes'
  BY <1>31, <1>1, <1>2, <1>3, <1>4 DEF JobStartDoes, JobIs, Claims, Hashed, Hashes, Exists,
    Owns, Waited, Copying
<1>32. ASSUME NEW t \in Token, ResolveDoes(t)
      PROVE  Hashes'
  BY <1>32, <1>1, <1>2, <1>3, <1>4 DEF ResolveDoes, ImpIs, JobIs, RowIs, Settles, Claims,
    Hashed, Hashes, Exists, Owns, Waited, Copying
<1>33. ASSUME NEW t \in Token, CopyDoes(t)
      PROVE  Hashes'
  BY <1>33, <1>1, <1>2, <1>3, <1>4 DEF CopyDoes, JobIs, Late, Claims, Hashed, Hashes, Exists,
    Owns, Waited, Copying
<1>34. ASSUME NEW t \in Token, CancelCopyDoes(t)
      PROVE  Hashes'
  BY <1>34, <1>1, <1>2, <1>3, <1>4 DEF CancelCopyDoes, JobIs, Claims, Hashed, Hashes, Exists,
    Owns, Waited, Copying
<1>35. ASSUME NEW t \in Token, PublishDoes(t)
      PROVE  Hashes'
  BY <1>35, <1>1, <1>2, <1>3, <1>4 DEF PublishDoes, JobIs, Late, Claims, Hashed, Hashes, Exists,
    Owns, Waited, Copying
<1>36. ASSUME NEW t \in Token, RecordDoes(t)
      PROVE  Hashes'
  BY <1>36, <1>1, <1>2, <1>3, <1>4 DEF RecordDoes, JobIs, Late, Claims, Hashed, Hashes, Exists,
    Owns, Waited, Copying
<1>37. ASSUME NEW t \in Token, RecordCutDoes(t)
      PROVE  Hashes'
  BY <1>37, <1>1, <1>2, <1>3, <1>4 DEF RecordCutDoes, JobIs, Claims, Hashed, Hashes, Exists,
    Owns, Waited, Copying
<1>38. ASSUME NEW t \in Token, HashDoes(t)
      PROVE  Hashes'
  BY <1>38, <1>1, <1>2, <1>3, <1>4 DEF HashDoes, JobIs, Claims, Hashed, Hashes, Exists, Owns,
    Waited, Copying
<1>39. ASSUME NEW t \in Token, RefuseEmptyDoes(t)
      PROVE  Hashes'
  BY <1>39, <1>1, <1>2, <1>3, <1>4 DEF RefuseEmptyDoes, ImpIs, JobIs, RowIs, Settles, removeNow,
    Claims, Hashed, Hashes, Exists, Owns, Waited, Copying
<1>40. ASSUME NEW t \in Token, RenameDoes(t)
      PROVE  Hashes'
  BY <1>40, <1>1, <1>2, <1>3, <1>4 DEF RenameDoes, JobIs, Claims, Hashed, Hashes, Exists, Owns,
    Waited, Copying
<1>41. ASSUME NEW t \in Token, RecordHashDoes(t)
      PROVE  Hashes'
  BY <1>41, <1>1, <1>2, <1>3, <1>4 DEF RecordHashDoes, JobIs, Claims, Hashed, Hashes,
    Exists, Owns, Waited, Copying
<1>42. ASSUME NEW t \in Token, FinalizeDoes(t)
      PROVE  Hashes'
  BY <1>42, <1>1, <1>2, <1>3, <1>4 DEF FinalizeDoes, FileIs, ImpIs, JobIs, RowIs, Claims,
    Hashed, Hashes, Exists, Owns, Waited, Copying
<1>43. ASSUME NEW t \in Token, CleanDuplicateDoes(t)
      PROVE  Hashes'
  BY <1>43, <1>1, <1>2, <1>3, <1>4 DEF CleanDuplicateDoes, JobIs, removeNow, Claims, Hashed,
    Hashes, Exists, Owns, Waited, Copying
<1>44. ASSUME NEW t \in Token, JobFailsDoes(t)
      PROVE  Hashes'
  BY <1>44, <1>1, <1>2, <1>3, <1>4 DEF JobFailsDoes, ImpIs, JobIs, RowIs, Settles, Claims,
    Hashed, Hashes, Exists, Owns, Waited, Copying
<1>45. ASSUME NEW t \in Token, CopyFindsNothingDoes(t)
      PROVE  Hashes'
  BY <1>45, <1>1, <1>2, <1>3, <1>4 DEF CopyFindsNothingDoes, ImpIs, JobIs, RowIs, Settles,
    Claims, Hashed, Hashes, Exists, Owns, Waited, Copying
<1>46. ASSUME NEW f \in File, GiveUpDoes(f)
      PROVE  Hashes'
  BY <1>46, <1>1, <1>2, <1>3, <1>4 DEF GiveUpDoes, ImpIs, RowIs, Claims, Hashed, Hashes, Exists,
    Owns, Waited, Copying
<1>47. ASSUME NEW f \in File, RependDoes(f)
      PROVE  Hashes'
  BY <1>47, <1>1, <1>2, <1>3, <1>4 DEF RependDoes, ImpIs, RowIs, Claims, Hashed, Hashes, Exists,
    Owns, Waited, Copying
<1>48. ASSUME NEW f \in File, EditSourceDoes(f)
      PROVE  Hashes'
  BY <1>48, <1>1, <1>2, <1>3, <1>4 DEF EditSourceDoes, Claims, Hashed, Hashes, Exists, Owns,
    Waited, Copying
<1>49. ASSUME AbortDoes
      PROVE  Hashes'
  BY <1>49, <1>1, <1>2, <1>3, <1>4 DEF AbortDoes, Claims, Hashed, Hashes, Exists, Owns, Waited,
    Copying
<1>50. ASSUME KillDoes
      PROVE  Hashes'
  BY <1>50, <1>1, <1>2, <1>3, <1>4 DEF KillDoes, EvictIs, Late, ScanIs, Claims, Hashed, Hashes,
    Exists, Owns, Waited, Copying
<1>51. ASSUME DropReadDoes
      PROVE  Hashes'
  BY <1>51, <1>1, <1>2, <1>3, <1>4 DEF DropReadDoes, Claims, Hashed, Hashes, Exists, Owns,
    Waited, Copying
<1>52. ASSUME failImportDoes
      PROVE  Hashes'
  BY <1>52, <1>1, <1>2, <1>3, <1>4 DEF failImportDoes, RowIs, Claims, Hashed, Hashes, Exists,
    Owns, Waited, Copying
<1>53. ASSUME NEW f \in File, NEW y \in Type, DropBytesDoes(f, y)
      PROVE  Hashes'
  BY <1>53, <1>1, <1>2, <1>3, <1>4 DEF DropBytesDoes, removeNow, Claims, Hashed, Hashes, Exists,
    Owns, Waited, Copying
<1>54. ASSUME deleteDirectoryDoes
      PROVE  Hashes'
  BY <1>54, <1>1, <1>2, <1>3, <1>4 DEF deleteDirectoryDoes, Claims, Hashed, Hashes, Exists,
    Owns, Waited, Copying
<1>55. QED
  BY <1>5, <1>6, <1>7, <1>8, <1>9, <1>10, <1>11, <1>12, <1>13, <1>14, <1>15, <1>16, <1>17,
    <1>18, <1>19, <1>20, <1>21, <1>22, <1>23, <1>24, <1>25, <1>26, <1>27, <1>28, <1>29, <1>30,
    <1>31, <1>32, <1>33, <1>34, <1>35, <1>36, <1>37, <1>38, <1>39, <1>40, <1>41, <1>42, <1>43,
    <1>44, <1>45, <1>46, <1>47, <1>48, <1>49, <1>50, <1>51, <1>52, <1>53, <1>54 DEF Effect

\* The bytes of claims.
LEMMA InPlaceKept ==
  ASSUME Types, Types', Claims, Rows, Unmade, Dropped, Hashed, InPlace, Effect
  PROVE  InPlace'
PROOF
<1>1. file \in [File -> FileRow] /\ imp \in [File -> ImportRow] /\ job \in [Token -> JobRow] /\
  tick \in TickState /\ disk \in [File -> [Type -> Bytes]]
  BY DEF Types
<1>2. \A t \in Token : job[t].f \in File /\ job[t].type \in Type /\ job[t].got \in Bytes
  BY DEF Types, JobRow
<1>3. \A f \in File : imp[f].state = "active" <=> imp[f].token # 0
  BY DEF Types, Paired
<1>4. 0 \notin Token /\ Classify \in [File -> Type]
  BY ImportsAssumption DEF Token
<1>5. \A t \in Token : Owns(t) => file[job[t].f].state = "none"
  BY Owners
<1>6. \A t, u \in Token : Owns(t) /\ u # t /\ job[u].f = job[t].f => ~Owns(u) /\ ~Waited(u)
  BY Owners
<1>7. \A t \in Token : job[t].pc \in {"start", "resolve", "hash", "hashed", "moved", "final",
  "dup"} => Waited(t)
  BY Owners
<1>8. \A f \in File, t \in Token : imp[f].token = t => job[t].f = f /\ job[t].pc # "free"
  BY DEF Claims
<1>9. ASSUME NEW f \in File, GetFileUriDoes(f)
      PROVE  InPlace'
  BY <1>9, <1>1, <1>2, <1>3, <1>4, <1>5, <1>6, <1>7, <1>8 DEF GetFileUriDoes, getFsFileUri,
    InPlace, Owns, ClaimInPlace, AtItsTypes
<1>10. ASSUME NEW f \in File, DownloadStartDoes(f)
      PROVE  InPlace'
  BY <1>10, <1>1, <1>2, <1>3, <1>4, <1>5, <1>6, <1>7, <1>8 DEF DownloadStartDoes, DlIs, InPlace,
    Owns, ClaimInPlace, AtItsTypes, Unmade, Exists
<1>11. ASSUME NEW f \in File, DownloadOpensDoes(f)
      PROVE  InPlace'
  <2>1. file[f].state # "none"
    BY <1>11 DEF DownloadOpensDoes, Unmade
  <2>2. UNCHANGED <<imp, file, job>> /\ hazard \subseteq hazard' /\ \A g \in File \ {f} : disk'[g] = disk[g]
    BY <1>1, <1>11 DEF DownloadOpensDoes
  <2>3. QED
    BY <1>2, <1>5, <2>1, <2>2 DEF InPlace, Owns, ClaimInPlace, AtItsTypes
<1>12. ASSUME NEW f \in File, DownloadArrivesDoes(f)
      PROVE  InPlace'
  <2>1. file[f].state # "none"
    BY <1>12 DEF DownloadArrivesDoes, Unmade
  <2>2. UNCHANGED <<hazard, imp, file, job>> /\ \A g \in File \ {f} : disk'[g] = disk[g]
    BY <1>1, <1>12 DEF DownloadArrivesDoes
  <2>3. QED
    BY <1>2, <1>5, <2>1, <2>2 DEF InPlace, Owns, ClaimInPlace, AtItsTypes
<1>13. ASSUME NEW f \in File, DownloadRecordsDoes(f)
      PROVE  InPlace'
  BY <1>13, <1>1, <1>2, <1>3, <1>4, <1>5, <1>6, <1>7, <1>8 DEF DownloadRecordsDoes, DlIs,
    Recorded, InPlace, Owns, ClaimInPlace, AtItsTypes
<1>14. ASSUME NEW f \in File, DownloadStopsDoes(f)
      PROVE  InPlace'
  <2>1. file[f].state # "none"
    BY <1>14 DEF DownloadStopsDoes, Unmade
  <2>2. UNCHANGED <<hazard, imp, file, job>> /\ \A g \in File \ {f} : disk'[g] = disk[g]
    BY <1>1, <1>14 DEF DownloadStopsDoes
  <2>3. QED
    BY <1>2, <1>5, <2>1, <2>2 DEF InPlace, Owns, ClaimInPlace, AtItsTypes
<1>15. ASSUME NEW f \in File, EditDoes(f)
      PROVE  InPlace'
  BY <1>15, <1>1, <1>2, <1>3, <1>4, <1>5, <1>6, <1>7, <1>8 DEF EditDoes, FileIs, InPlace, Owns,
    ClaimInPlace, AtItsTypes, Unmade, Exists
<1>16. ASSUME NEW f \in File, TombstoneDoes(f)
      PROVE  InPlace'
  BY <1>16, <1>1, <1>2, <1>3, <1>4, <1>5, <1>6, <1>7, <1>8 DEF TombstoneDoes, FileIs, InPlace,
    Owns, ClaimInPlace, AtItsTypes, Unmade, Exists
<1>17. ASSUME NEW f \in File, UploadDoes(f)
      PROVE  InPlace'
  BY <1>17, <1>1, <1>2, <1>3, <1>4, <1>5, <1>6, <1>7, <1>8 DEF UploadDoes, InPlace, Owns,
    ClaimInPlace, AtItsTypes
<1>18. ASSUME NEW f \in File, NEW y \in Type, RetypeDoes(f, y)
      PROVE  InPlace'
  BY <1>18, <1>1, <1>2, <1>3, <1>4, <1>5, <1>6, <1>7, <1>8 DEF RetypeDoes, FileIs, Recorded,
    InPlace, Owns, ClaimInPlace, AtItsTypes, Unmade, Exists
<1>19. ASSUME NEW f \in File, NEW y \in Type, removeTombstonedDoes(f, y)
      PROVE  InPlace'
  <2>1. file[f].state # "none"
    BY <1>19 DEF removeTombstonedDoes, Unmade
  <2>2. UNCHANGED <<hazard, imp, file, job>> /\ \A g \in File \ {f} : disk'[g] = disk[g]
    BY <1>1, <1>19 DEF removeTombstonedDoes, removeNow
  <2>3. QED
    BY <1>2, <1>5, <2>1, <2>2 DEF InPlace, Owns, ClaimInPlace, AtItsTypes
<1>20. ASSUME ScanJudgeDoes
      PROVE  InPlace'
  BY <1>20, <1>1, <1>2, <1>3, <1>4, <1>5, <1>6, <1>7, <1>8 DEF ScanJudgeDoes, ScanIs, InPlace,
    Owns, ClaimInPlace, AtItsTypes
<1>21. ASSUME RemoveTempDoes
      PROVE  InPlace'
  BY <1>21, <1>1, <1>2, <1>3, <1>4, <1>5, <1>6, <1>7, <1>8 DEF RemoveTempDoes, ScanIs, InPlace,
    Owns, ClaimInPlace, AtItsTypes
<1>22. ASSUME NEW f \in File, NEW y \in Type, ScanEntryDoes(f, y)
      PROVE  InPlace'
  <2>. SUFFICES ASSUME hazard' \cap {"judgedEarly", "latePublish"} = {}
       PROVE  (\A u \in Token : Owns(u)' => ClaimInPlace(u)') /\ \A g \in File : AtItsTypes(g)'
    BY DEF InPlace
  <2>1. (\A u \in Token : Owns(u) => ClaimInPlace(u)) /\ \A g \in File : AtItsTypes(g)
    BY <1>22 DEF ScanEntryDoes, InPlace, Misjudged, getFsFileUri
  <2>2. UNCHANGED <<imp, file, job>> /\ \A g \in File \ {f} : disk'[g] = disk[g]
    BY <1>1, <1>22 DEF ScanEntryDoes, removeNow
  <2>3. CASE file[f].state # "none"
    BY <1>2, <1>5, <2>1, <2>2, <2>3 DEF Owns, ClaimInPlace, AtItsTypes
  <2>4. CASE disk' = disk
    BY <2>1, <2>2, <2>4 DEF Owns, ClaimInPlace, AtItsTypes
  <2>5. CASE imp[f].state # "active" /\ disk' = [disk EXCEPT ![f][y] = "none"]
    <3>1. \A u \in Token : Owns(u) => job[u].f # f
      BY <2>5 DEF Owns
    <3>2. AtItsTypes(f)'
      BY <1>1, <2>1, <2>2, <2>5 DEF AtItsTypes
    <3>3. QED
      BY <1>2, <2>1, <2>2, <3>1, <3>2 DEF Owns, ClaimInPlace, AtItsTypes
  <2>6. QED
    BY <2>3, <2>4, <2>5, <1>22 DEF ScanEntryDoes, Unmade, Misjudged, removeNow, InFlight
<1>23. ASSUME ScanEndDoes
      PROVE  InPlace'
  BY <1>23, <1>1, <1>2, <1>3, <1>4, <1>5, <1>6, <1>7, <1>8 DEF ScanEndDoes, ScanIs, InPlace,
    Owns, ClaimInPlace, AtItsTypes
<1>24. ASSUME EvictReadDoes
      PROVE  InPlace'
  BY <1>24, <1>1, <1>2, <1>3, <1>4, <1>5, <1>6, <1>7, <1>8 DEF EvictReadDoes, EvictIs, InPlace,
    Owns, ClaimInPlace, AtItsTypes
<1>25. ASSUME NEW f \in File, NEW y \in Type, EvictCountDoes(f, y)
      PROVE  InPlace'
  BY <1>25, <1>1, <1>2, <1>3, <1>4, <1>5, <1>6, <1>7, <1>8 DEF EvictCountDoes, EvictIs, InPlace,
    Owns, ClaimInPlace, AtItsTypes
<1>26. ASSUME NEW f \in File, NEW y \in Type, EvictTryDoes(f, y)
      PROVE  InPlace'
  <2>1. file[f].state # "none"
    BY <1>26 DEF EvictTryDoes, Unmade
  <2>2. UNCHANGED <<hazard, imp, file, job>> /\ \A g \in File \ {f} : disk'[g] = disk[g]
    BY <1>1, <1>26 DEF EvictTryDoes
  <2>3. QED
    BY <1>2, <1>5, <2>1, <2>2 DEF InPlace, Owns, ClaimInPlace, AtItsTypes
<1>27. ASSUME NEW f \in File, NEW y \in Type, EvictRowDoes(f, y)
      PROVE  InPlace'
  BY <1>27, <1>1, <1>2, <1>3, <1>4, <1>5, <1>6, <1>7, <1>8 DEF EvictRowDoes, EvictIs, InPlace,
    Owns, ClaimInPlace, AtItsTypes
<1>28. ASSUME EvictEndDoes
      PROVE  InPlace'
  BY <1>28, <1>1, <1>2, <1>3, <1>4, <1>5, <1>6, <1>7, <1>8 DEF EvictEndDoes, EvictIs, InPlace,
    Owns, ClaimInPlace, AtItsTypes
<1>29. ASSUME NEW f \in File, NEW y \in Type, NEW z \in Type \union {"none"}, retypeFileDoes(f,
  y, z)
      PROVE  InPlace'
  <2>1. file[f].state # "none" /\ file'[f].state = file[f].state
    BY <1>1, <1>29 DEF retypeFileDoes, Unmade, FileIs
  <2>2. /\ UNCHANGED <<imp, job>> /\ hazard \subseteq hazard'
        /\ \A g \in File \ {f} : disk'[g] = disk[g] /\ file'[g] = file[g]
    BY <1>1, <1>29 DEF retypeFileDoes, FileIs
  <2>3. QED
    BY <1>2, <1>5, <2>1, <2>2 DEF InPlace, Owns, ClaimInPlace, AtItsTypes
<1>30. ASSUME SwitchIndexerDoes
      PROVE  InPlace'
  BY <1>30, <1>1, <1>2, <1>3, <1>4, <1>5, <1>6, <1>7, <1>8 DEF SwitchIndexerDoes, InPlace, Owns,
    ClaimInPlace, AtItsTypes
<1>31. ASSUME ScanListDoes
      PROVE  InPlace'
  BY <1>31, <1>1, <1>2, <1>3, <1>4, <1>5, <1>6, <1>7, <1>8 DEF ScanListDoes, ScanIs, InPlace,
    Owns, ClaimInPlace, AtItsTypes
<1>32. ASSUME TickBeginDoes
      PROVE  InPlace'
  <2>1. UNCHANGED <<disk, file, job>> /\ hazard \subseteq hazard'
    BY <1>32 DEF TickBeginDoes
  <2>2. \A g \in File : imp'[g].type = imp[g].type /\ (imp'[g].state = "active" => imp'[g] = imp[g])
    BY <1>1, <1>32 DEF TickBeginDoes, ImpIs, RowIs
  <2>3. QED
    BY <1>2, <2>1, <2>2 DEF InPlace, Owns, ClaimInPlace, AtItsTypes
<1>33. ASSUME TickDoes
      PROVE  InPlace'
  BY <1>33, <1>1, <1>2, <1>3, <1>4, <1>5, <1>6, <1>7, <1>8 DEF TickDoes, InPlace, Owns,
    ClaimInPlace, AtItsTypes
<1>34. ASSUME NEW f \in File, NEW t \in Token, ClaimDoes(f, t)
      PROVE  InPlace'
  <2>1. UNCHANGED <<disk, file>> /\ hazard \subseteq hazard' /\ job'[t].pc = "start" /\ job[t].pc = "free"
    BY <1>34 DEF ClaimDoes
  <2>2. /\ \A u \in Token \ {t} : job'[u] = job[u]
        /\ \A g \in File : imp'[g].type = imp[g].type
        /\ \A g \in File \ {f} : imp'[g] = imp[g]
        /\ imp'[f].token = t
    BY <1>1, <1>34 DEF ClaimDoes, ImpIs, RowIs
  <2>3. \A u \in Token \ {t} : Owns(u)' => Owns(u)
    BY <1>2, <2>2 DEF Owns
  <2>4. QED
    BY <1>2, <2>1, <2>2, <2>3 DEF InPlace, ClaimInPlace, AtItsTypes
<1>35. ASSUME NEW t \in Token, JobStartDoes(t)
      PROVE  InPlace'
  <2>. SUFFICES ASSUME hazard' \cap {"judgedEarly", "latePublish"} = {}
       PROVE  (\A u \in Token : Owns(u)' => ClaimInPlace(u)') /\ \A f \in File : AtItsTypes(f)'
    BY DEF InPlace
  <2>1. (\A u \in Token : Owns(u) => ClaimInPlace(u)) /\ \A f \in File : AtItsTypes(f)
    BY <1>35 DEF JobStartDoes, InPlace
  <2>2. /\ \A u \in Token \ {t} : job'[u] = job[u]
        /\ job'[t].f = job[t].f /\ job'[t].type = job[t].type
    BY <1>35 DEF JobStartDoes, JobIs
  <2>3. \A g \in File \ {job[t].f} : disk'[g] = disk[g] /\ imp'[g] = imp[g] /\ file'[g] = file[g]
    BY <1>1, <1>2, <1>35 DEF JobStartDoes
  <2>4. \A u \in Token : Owns(u)' => Owns(u)
    BY <1>2, <1>3, <1>4, <2>2, <2>3, <1>35 DEF JobStartDoes, Owns
  <2>5. ASSUME NEW u \in Token \ {t}, Owns(u)'
        PROVE  ClaimInPlace(u)'
    <3>1. disk'[job[u].f] = disk[job[u].f]
      BY <1>2, <1>6, <1>7, <2>3, <2>4, <2>5, <1>35 DEF JobStartDoes
    <3>2. QED
      BY <2>1, <2>2, <2>4, <2>5, <3>1 DEF ClaimInPlace
  <2>6. ASSUME Owns(t)'
        PROVE  ClaimInPlace(t)'
    BY <1>1, <1>2, <1>4, <2>1, <2>4, <2>6, <1>35 DEF JobStartDoes, JobIs, ClaimInPlace
  <2>7. ASSUME NEW f \in File
        PROVE  AtItsTypes(f)'
    <3>1. job[t].type \in {imp[job[t].f].type, Classify[job[t].f]}
      BY <1>2, <1>7, <2>1, <1>35 DEF JobStartDoes, Hashed
    <3>2. imp' = imp /\ file' = file
      BY <1>35 DEF JobStartDoes
    <3>3. CASE f = job[t].f
      <4>1. \A w \in Type \ {job[t].type} : disk'[f][w] \in {disk[f][w], "none"}
        <5>1. CASE disk' = disk
          BY <5>1
        <5>2. ASSUME NEW y \in Type, disk[job[t].f][y] # "none", disk[job[t].f][job[t].type] = "none",
                     disk' = [disk EXCEPT ![job[t].f][job[t].type] = disk[job[t].f][y], ![job[t].f][y] = "none"]
              PROVE  \A w \in Type \ {job[t].type} : disk'[f][w] \in {disk[f][w], "none"}
          <6>1. disk[job[t].f][y] \in Bytes
            BY <1>1, <1>2
          <6>2. QED
            BY <1>1, <1>2, <3>3, <5>2, <6>1, MovedBytes
        <5>3. QED
          BY <5>1, <5>2, <1>35 DEF JobStartDoes
      <4>2. disk' = disk \/ job[t].type \in {imp[job[t].f].type, Classify[job[t].f]}
        BY <3>1
      <4>3. QED
        BY <1>2, <2>1, <3>2, <3>3, <4>1, <4>2 DEF AtItsTypes
    <3>4. CASE f # job[t].f
      BY <2>1, <2>3, <3>2, <3>4 DEF AtItsTypes
    <3>5. QED
      BY <3>3, <3>4
  <2>8. QED
    BY <2>5, <2>6, <2>7
<1>36. ASSUME NEW t \in Token, ResolveDoes(t)
      PROVE  InPlace'
  <2>. SUFFICES ASSUME hazard' \cap {"judgedEarly", "latePublish"} = {}
       PROVE  (\A u \in Token : Owns(u)' => ClaimInPlace(u)') /\ \A f \in File : AtItsTypes(f)'
    BY DEF InPlace
  <2>1. (\A u \in Token : Owns(u) => ClaimInPlace(u)) /\ \A f \in File : AtItsTypes(f)
    BY <1>36 DEF ResolveDoes, InPlace
  <2>2. /\ \A u \in Token \ {t} : job'[u] = job[u]
        /\ job'[t].f = job[t].f /\ job'[t].type = job[t].type
    BY <1>36 DEF ResolveDoes, JobIs
  <2>3. \A g \in File \ {job[t].f} : disk'[g] = disk[g] /\ imp'[g] = imp[g] /\ file'[g] = file[g]
    BY <1>1, <1>2, <1>36 DEF ResolveDoes, Settles, ImpIs, RowIs
  <2>4. \A u \in Token : Owns(u)' => Owns(u)
    <3>1. \A h \in File : /\ imp'[h].state = "active" => imp'[h] = imp[h]
                         /\ imp'[h].type = imp[h].type
      BY <1>1, <1>2, <1>36 DEF ResolveDoes, Settles, ImpIs, RowIs
    <3>2. QED
      BY <1>2, <2>2, <3>1 DEF Owns
  <2>5. ASSUME NEW u \in Token \ {t}, Owns(u)'
        PROVE  ClaimInPlace(u)'
    <3>1. disk'[job[u].f] = disk[job[u].f]
      BY <1>2, <1>6, <1>7, <2>3, <2>4, <2>5, <1>36 DEF ResolveDoes
    <3>2. QED
      BY <2>1, <2>2, <2>4, <2>5, <3>1 DEF ClaimInPlace
  <2>6. ASSUME Owns(t)'
        PROVE  ClaimInPlace(t)'
    BY <1>1, <1>2, <1>4, <2>1, <2>4, <2>6, <1>36 DEF ResolveDoes, JobIs, ClaimInPlace
  <2>7. ASSUME NEW f \in File
        PROVE  AtItsTypes(f)'
    <3>1. imp'[f].type = imp[f].type /\ (file'[f].state = "none" => file[f].state = "none") /\ disk' = disk
      BY <1>1, <1>2, <1>36 DEF ResolveDoes, Settles, ImpIs, RowIs
    <3>2. QED
      BY <2>1, <3>1 DEF AtItsTypes
  <2>8. QED
    BY <2>5, <2>6, <2>7
<1>37. ASSUME NEW t \in Token, CopyDoes(t)
      PROVE  InPlace'
  <2>. SUFFICES ASSUME hazard' \cap {"judgedEarly", "latePublish"} = {}
       PROVE  (\A u \in Token : Owns(u)' => ClaimInPlace(u)') /\ \A f \in File : AtItsTypes(f)'
    BY DEF InPlace
  <2>1. (\A u \in Token : Owns(u) => ClaimInPlace(u)) /\ \A f \in File : AtItsTypes(f)
    BY <1>37 DEF CopyDoes, InPlace, Late
  <2>2. /\ \A u \in Token \ {t} : job'[u] = job[u]
        /\ job'[t].f = job[t].f /\ job'[t].type = job[t].type
    BY <1>37 DEF CopyDoes, JobIs
  <2>3. \A g \in File \ {job[t].f} : disk'[g] = disk[g] /\ imp'[g] = imp[g] /\ file'[g] = file[g]
    BY <1>1, <1>2, <1>37 DEF CopyDoes
  <2>4. \A u \in Token : Owns(u)' => Owns(u)
    BY <1>2, <1>3, <1>4, <2>2, <2>3, <1>37 DEF CopyDoes, Owns
  <2>5. ASSUME NEW u \in Token \ {t}, Owns(u)'
        PROVE  ClaimInPlace(u)'
    <3>1. disk'[job[u].f] = disk[job[u].f]
      BY <1>2, <1>6, <1>7, <2>3, <2>4, <2>5, <1>37 DEF CopyDoes, Late
    <3>2. QED
      BY <2>1, <2>2, <2>4, <2>5, <3>1 DEF ClaimInPlace
  <2>6. ASSUME Owns(t)'
        PROVE  ClaimInPlace(t)'
    BY <1>1, <1>2, <1>4, <2>1, <2>4, <2>6, <1>37 DEF CopyDoes, JobIs, ClaimInPlace, Hashed
  <2>7. ASSUME NEW f \in File
        PROVE  AtItsTypes(f)'
    <3>1. disk' = disk \/ job[t].type = imp[job[t].f].type
      BY <1>2, <1>7, <2>1, <1>37 DEF CopyDoes, Hashed, Late
    <3>2. imp' = imp /\ file' = file
      BY <1>37 DEF CopyDoes
    <3>3. CASE f = job[t].f
      <4>1. \A w \in Type \ {job[t].type} : disk'[f][w] \in {disk[f][w], "none"}
        BY <1>1, <1>2, <3>3, <1>37 DEF CopyDoes
      <4>2. disk' = disk \/ job[t].type \in {imp[job[t].f].type, Classify[job[t].f]}
        BY <3>1
      <4>3. QED
        BY <1>2, <2>1, <3>2, <3>3, <4>1, <4>2 DEF AtItsTypes
    <3>4. CASE f # job[t].f
      BY <2>1, <2>3, <3>2, <3>4 DEF AtItsTypes
    <3>5. QED
      BY <3>3, <3>4
  <2>8. QED
    BY <2>5, <2>6, <2>7
<1>38. ASSUME NEW t \in Token, CancelCopyDoes(t)
      PROVE  InPlace'
  <2>. SUFFICES ASSUME hazard' \cap {"judgedEarly", "latePublish"} = {}
       PROVE  (\A u \in Token : Owns(u)' => ClaimInPlace(u)') /\ \A f \in File : AtItsTypes(f)'
    BY DEF InPlace
  <2>1. (\A u \in Token : Owns(u) => ClaimInPlace(u)) /\ \A f \in File : AtItsTypes(f)
    BY <1>38 DEF CancelCopyDoes, InPlace
  <2>2. /\ \A u \in Token \ {t} : job'[u] = job[u]
        /\ job'[t].f = job[t].f /\ job'[t].type = job[t].type
    BY <1>38 DEF CancelCopyDoes, JobIs
  <2>3. \A g \in File \ {job[t].f} : disk'[g] = disk[g] /\ imp'[g] = imp[g] /\ file'[g] = file[g]
    BY <1>1, <1>2, <1>38 DEF CancelCopyDoes
  <2>4. \A u \in Token : Owns(u)' => Owns(u)
    BY <1>2, <1>3, <1>4, <2>2, <2>3, <1>38 DEF CancelCopyDoes, Owns
  <2>5. ASSUME NEW u \in Token \ {t}, Owns(u)'
        PROVE  ClaimInPlace(u)'
    <3>1. disk'[job[u].f] = disk[job[u].f]
      BY <1>2, <1>6, <1>7, <2>3, <2>4, <2>5, <1>38 DEF CancelCopyDoes
    <3>2. QED
      BY <2>1, <2>2, <2>4, <2>5, <3>1 DEF ClaimInPlace
  <2>6. ASSUME Owns(t)'
        PROVE  ClaimInPlace(t)'
    BY <1>1, <1>2, <1>4, <2>1, <2>4, <2>6, <1>38 DEF CancelCopyDoes, JobIs, ClaimInPlace
  <2>7. ASSUME NEW f \in File
        PROVE  AtItsTypes(f)'
    BY <1>1, <1>2, <1>4, <1>5, <1>7, <2>1, <2>3, <2>7, <1>38 DEF CancelCopyDoes, AtItsTypes
  <2>8. QED
    BY <2>5, <2>6, <2>7
<1>39. ASSUME NEW t \in Token, PublishDoes(t)
      PROVE  InPlace'
  <2>. SUFFICES ASSUME hazard' \cap {"judgedEarly", "latePublish"} = {}
       PROVE  (\A u \in Token : Owns(u)' => ClaimInPlace(u)') /\ \A f \in File : AtItsTypes(f)'
    BY DEF InPlace
  <2>1. (\A u \in Token : Owns(u) => ClaimInPlace(u)) /\ \A f \in File : AtItsTypes(f)
    BY <1>39 DEF PublishDoes, InPlace, Late
  <2>2. /\ \A u \in Token \ {t} : job'[u] = job[u]
        /\ job'[t].f = job[t].f /\ job'[t].type = job[t].type
    BY <1>39 DEF PublishDoes, JobIs
  <2>3. \A g \in File \ {job[t].f} : disk'[g] = disk[g] /\ imp'[g] = imp[g] /\ file'[g] = file[g]
    BY <1>1, <1>2, <1>39 DEF PublishDoes
  <2>4. \A u \in Token : Owns(u)' => Owns(u)
    BY <1>2, <1>3, <1>4, <2>2, <2>3, <1>39 DEF PublishDoes, Owns
  <2>5. ASSUME NEW u \in Token \ {t}, Owns(u)'
        PROVE  ClaimInPlace(u)'
    <3>1. disk'[job[u].f] = disk[job[u].f]
      BY <1>2, <1>6, <1>7, <2>3, <2>4, <2>5, <1>39 DEF PublishDoes, Late
    <3>2. QED
      BY <2>1, <2>2, <2>4, <2>5, <3>1 DEF ClaimInPlace
  <2>6. ASSUME Owns(t)'
        PROVE  ClaimInPlace(t)'
    BY <1>1, <1>2, <1>4, <2>1, <2>4, <2>6, <1>39 DEF PublishDoes, JobIs, ClaimInPlace, Hashed
  <2>7. ASSUME NEW f \in File
        PROVE  AtItsTypes(f)'
    <3>1. disk' = disk \/ job[t].type = imp[job[t].f].type
      BY <1>2, <1>7, <2>1, <1>39 DEF PublishDoes, Hashed, Late
    <3>2. imp' = imp /\ file' = file
      BY <1>39 DEF PublishDoes
    <3>3. CASE f = job[t].f
      <4>1. \A w \in Type \ {job[t].type} : disk'[f][w] \in {disk[f][w], "none"}
        BY <1>1, <1>2, <3>3, <1>39 DEF PublishDoes
      <4>2. disk' = disk \/ job[t].type \in {imp[job[t].f].type, Classify[job[t].f]}
        BY <3>1
      <4>3. QED
        BY <1>2, <2>1, <3>2, <3>3, <4>1, <4>2 DEF AtItsTypes
    <3>4. CASE f # job[t].f
      BY <2>1, <2>3, <3>2, <3>4 DEF AtItsTypes
    <3>5. QED
      BY <3>3, <3>4
  <2>8. QED
    BY <2>5, <2>6, <2>7
<1>40. ASSUME NEW t \in Token, RecordDoes(t)
      PROVE  InPlace'
  <2>. SUFFICES ASSUME hazard' \cap {"judgedEarly", "latePublish"} = {}
       PROVE  (\A u \in Token : Owns(u)' => ClaimInPlace(u)') /\ \A f \in File : AtItsTypes(f)'
    BY DEF InPlace
  <2>1. (\A u \in Token : Owns(u) => ClaimInPlace(u)) /\ \A f \in File : AtItsTypes(f)
    BY <1>40 DEF RecordDoes, InPlace, Late
  <2>2. /\ \A u \in Token \ {t} : job'[u] = job[u]
        /\ job'[t].f = job[t].f /\ job'[t].type = job[t].type
    BY <1>40 DEF RecordDoes, JobIs
  <2>3. \A g \in File \ {job[t].f} : disk'[g] = disk[g] /\ imp'[g] = imp[g] /\ file'[g] = file[g]
    BY <1>1, <1>2, <1>40 DEF RecordDoes
  <2>4. \A u \in Token : Owns(u)' => Owns(u)
    BY <1>2, <1>3, <1>4, <2>2, <2>3, <1>40 DEF RecordDoes, Owns
  <2>5. ASSUME NEW u \in Token \ {t}, Owns(u)'
        PROVE  ClaimInPlace(u)'
    <3>1. disk'[job[u].f] = disk[job[u].f]
      BY <1>2, <1>6, <1>7, <2>3, <2>4, <2>5, <1>40 DEF RecordDoes, Late
    <3>2. QED
      BY <2>1, <2>2, <2>4, <2>5, <3>1 DEF ClaimInPlace
  <2>6. ASSUME Owns(t)'
        PROVE  ClaimInPlace(t)'
    BY <1>1, <1>2, <1>4, <2>1, <2>4, <2>6, <1>40 DEF RecordDoes, JobIs, ClaimInPlace
  <2>7. ASSUME NEW f \in File
        PROVE  AtItsTypes(f)'
    BY <1>1, <1>2, <1>4, <1>5, <1>7, <2>1, <2>3, <2>7, <1>40 DEF RecordDoes, AtItsTypes
  <2>8. QED
    BY <2>5, <2>6, <2>7
<1>41. ASSUME NEW t \in Token, RecordCutDoes(t)
      PROVE  InPlace'
  <2>. SUFFICES ASSUME hazard' \cap {"judgedEarly", "latePublish"} = {}
       PROVE  (\A u \in Token : Owns(u)' => ClaimInPlace(u)') /\ \A f \in File : AtItsTypes(f)'
    BY DEF InPlace
  <2>1. (\A u \in Token : Owns(u) => ClaimInPlace(u)) /\ \A f \in File : AtItsTypes(f)
    BY <1>41 DEF RecordCutDoes, InPlace
  <2>2. /\ \A u \in Token \ {t} : job'[u] = job[u]
        /\ job'[t].f = job[t].f /\ job'[t].type = job[t].type
    BY <1>41 DEF RecordCutDoes, JobIs
  <2>3. \A g \in File \ {job[t].f} : disk'[g] = disk[g] /\ imp'[g] = imp[g] /\ file'[g] = file[g]
    BY <1>1, <1>2, <1>41 DEF RecordCutDoes
  <2>4. \A u \in Token : Owns(u)' => Owns(u)
    BY <1>2, <1>3, <1>4, <2>2, <2>3, <1>41 DEF RecordCutDoes, Owns
  <2>5. ASSUME NEW u \in Token \ {t}, Owns(u)'
        PROVE  ClaimInPlace(u)'
    <3>1. disk'[job[u].f] = disk[job[u].f]
      BY <1>2, <1>6, <1>7, <2>3, <2>4, <2>5, <1>41 DEF RecordCutDoes
    <3>2. QED
      BY <2>1, <2>2, <2>4, <2>5, <3>1 DEF ClaimInPlace
  <2>6. ASSUME Owns(t)'
        PROVE  ClaimInPlace(t)'
    BY <1>1, <1>2, <1>4, <2>1, <2>4, <2>6, <1>41 DEF RecordCutDoes, JobIs, ClaimInPlace
  <2>7. ASSUME NEW f \in File
        PROVE  AtItsTypes(f)'
    BY <1>1, <1>2, <1>4, <1>5, <1>7, <2>1, <2>3, <2>7, <1>41 DEF RecordCutDoes, AtItsTypes
  <2>8. QED
    BY <2>5, <2>6, <2>7
<1>42. ASSUME NEW t \in Token, HashDoes(t)
      PROVE  InPlace'
  <2>. SUFFICES ASSUME hazard' \cap {"judgedEarly", "latePublish"} = {}
       PROVE  (\A u \in Token : Owns(u)' => ClaimInPlace(u)') /\ \A f \in File : AtItsTypes(f)'
    BY DEF InPlace
  <2>1. (\A u \in Token : Owns(u) => ClaimInPlace(u)) /\ \A f \in File : AtItsTypes(f)
    BY <1>42 DEF HashDoes, InPlace
  <2>2. /\ \A u \in Token \ {t} : job'[u] = job[u]
        /\ job'[t].f = job[t].f /\ job'[t].type = job[t].type
    BY <1>42 DEF HashDoes, JobIs
  <2>3. \A g \in File \ {job[t].f} : disk'[g] = disk[g] /\ imp'[g] = imp[g] /\ file'[g] = file[g]
    BY <1>1, <1>2, <1>42 DEF HashDoes
  <2>4. \A u \in Token : Owns(u)' => Owns(u)
    BY <1>2, <1>3, <1>4, <2>2, <2>3, <1>42 DEF HashDoes, Owns
  <2>5. ASSUME NEW u \in Token \ {t}, Owns(u)'
        PROVE  ClaimInPlace(u)'
    <3>1. disk'[job[u].f] = disk[job[u].f]
      BY <1>2, <1>6, <1>7, <2>3, <2>4, <2>5, <1>42 DEF HashDoes
    <3>2. QED
      BY <2>1, <2>2, <2>4, <2>5, <3>1 DEF ClaimInPlace
  <2>6. ASSUME Owns(t)'
        PROVE  ClaimInPlace(t)'
    BY <1>1, <1>2, <1>4, <2>1, <2>4, <2>6, <1>42 DEF HashDoes, JobIs, ClaimInPlace
  <2>7. ASSUME NEW f \in File
        PROVE  AtItsTypes(f)'
    BY <1>1, <1>2, <1>4, <1>5, <1>7, <2>1, <2>3, <2>7, <1>42 DEF HashDoes, AtItsTypes
  <2>8. QED
    BY <2>5, <2>6, <2>7
<1>43. ASSUME NEW t \in Token, RefuseEmptyDoes(t)
      PROVE  InPlace'
  <2>. SUFFICES ASSUME hazard' \cap {"judgedEarly", "latePublish"} = {}
       PROVE  (\A u \in Token : Owns(u)' => ClaimInPlace(u)') /\ \A f \in File : AtItsTypes(f)'
    BY DEF InPlace
  <2>1. (\A u \in Token : Owns(u) => ClaimInPlace(u)) /\ \A f \in File : AtItsTypes(f)
    BY <1>43 DEF RefuseEmptyDoes, InPlace
  <2>2. /\ \A u \in Token \ {t} : job'[u] = job[u]
        /\ job'[t].f = job[t].f /\ job'[t].type = job[t].type
    BY <1>43 DEF RefuseEmptyDoes, JobIs
  <2>3. \A g \in File \ {job[t].f} : disk'[g] = disk[g] /\ imp'[g] = imp[g] /\ file'[g] = file[g]
    BY <1>1, <1>2, <1>43 DEF RefuseEmptyDoes, Settles, ImpIs, RowIs, removeNow
  <2>4. \A u \in Token : Owns(u)' => Owns(u)
    BY <1>2, <1>3, <1>4, <2>2, <2>3, <1>43 DEF RefuseEmptyDoes, Owns, Settles, ImpIs, RowIs, removeNow
  <2>5. ASSUME NEW u \in Token \ {t}, Owns(u)'
        PROVE  ClaimInPlace(u)'
    <3>1. disk'[job[u].f] = disk[job[u].f]
      BY <1>2, <1>6, <1>7, <2>3, <2>4, <2>5, <1>43 DEF RefuseEmptyDoes
    <3>2. QED
      BY <2>1, <2>2, <2>4, <2>5, <3>1 DEF ClaimInPlace
  <2>6. ASSUME Owns(t)'
        PROVE  ClaimInPlace(t)'
    BY <1>1, <1>2, <1>4, <2>1, <2>4, <2>6, <1>43 DEF RefuseEmptyDoes, JobIs, ClaimInPlace
  <2>7. ASSUME NEW f \in File
        PROVE  AtItsTypes(f)'
    BY <1>1, <1>2, <1>4, <1>5, <1>7, <2>1, <2>3, <2>7, <1>43 DEF RefuseEmptyDoes, AtItsTypes, Settles, ImpIs, RowIs, removeNow
  <2>8. QED
    BY <2>5, <2>6, <2>7
<1>44. ASSUME NEW t \in Token, RenameDoes(t)
      PROVE  InPlace'
  <2>. SUFFICES ASSUME hazard' \cap {"judgedEarly", "latePublish"} = {}
       PROVE  (\A u \in Token : Owns(u)' => ClaimInPlace(u)') /\ \A f \in File : AtItsTypes(f)'
    BY DEF InPlace
  <2>1. (\A u \in Token : Owns(u) => ClaimInPlace(u)) /\ \A f \in File : AtItsTypes(f)
    BY <1>44 DEF RenameDoes, InPlace
  <2>2. /\ \A u \in Token \ {t} : job'[u] = job[u]
        /\ job'[t].f = job[t].f /\ job'[t].type = job[t].type
    BY <1>44 DEF RenameDoes, JobIs
  <2>3. \A g \in File \ {job[t].f} : disk'[g] = disk[g] /\ imp'[g] = imp[g] /\ file'[g] = file[g]
    BY <1>1, <1>2, <1>44 DEF RenameDoes
  <2>4. \A u \in Token : Owns(u)' => Owns(u)
    BY <1>2, <1>3, <1>4, <2>2, <2>3, <1>44 DEF RenameDoes, Owns
  <2>5. ASSUME NEW u \in Token \ {t}, Owns(u)'
        PROVE  ClaimInPlace(u)'
    <3>1. disk'[job[u].f] = disk[job[u].f]
      BY <1>2, <1>6, <1>7, <2>3, <2>4, <2>5, <1>44 DEF RenameDoes
    <3>2. QED
      BY <2>1, <2>2, <2>4, <2>5, <3>1 DEF ClaimInPlace
  <2>6. ASSUME Owns(t)'
        PROVE  ClaimInPlace(t)'
    BY <1>1, <1>2, <1>4, <2>1, <2>4, <2>6, <1>44 DEF RenameDoes, JobIs, ClaimInPlace, Hashed
  <2>7. ASSUME NEW f \in File
        PROVE  AtItsTypes(f)'
    BY <1>1, <1>2, <1>4, <1>5, <1>7, <2>1, <2>3, <2>7, <1>44 DEF RenameDoes, AtItsTypes, Hashed
  <2>8. QED
    BY <2>5, <2>6, <2>7
<1>45. ASSUME NEW t \in Token, RecordHashDoes(t)
      PROVE  InPlace'
  <2>. SUFFICES ASSUME hazard' \cap {"judgedEarly", "latePublish"} = {}
       PROVE  (\A u \in Token : Owns(u)' => ClaimInPlace(u)') /\ \A f \in File : AtItsTypes(f)'
    BY DEF InPlace
  <2>1. (\A u \in Token : Owns(u) => ClaimInPlace(u)) /\ \A f \in File : AtItsTypes(f)
    BY <1>45 DEF RecordHashDoes, InPlace
  <2>2. /\ \A u \in Token \ {t} : job'[u] = job[u]
        /\ job'[t].f = job[t].f /\ job'[t].type = job[t].type
    BY <1>45 DEF RecordHashDoes, JobIs
  <2>3. \A g \in File \ {job[t].f} : disk'[g] = disk[g] /\ imp'[g] = imp[g] /\ file'[g] = file[g]
    BY <1>1, <1>2, <1>45 DEF RecordHashDoes
  <2>4. \A u \in Token : Owns(u)' => Owns(u)
    BY <1>2, <1>3, <1>4, <2>2, <2>3, <1>45 DEF RecordHashDoes, Owns
  <2>5. ASSUME NEW u \in Token \ {t}, Owns(u)'
        PROVE  ClaimInPlace(u)'
    <3>1. disk'[job[u].f] = disk[job[u].f]
      BY <1>2, <1>6, <1>7, <2>3, <2>4, <2>5, <1>45 DEF RecordHashDoes
    <3>2. QED
      BY <2>1, <2>2, <2>4, <2>5, <3>1 DEF ClaimInPlace
  <2>6. ASSUME Owns(t)'
        PROVE  ClaimInPlace(t)'
    BY <1>1, <1>2, <1>4, <2>1, <2>4, <2>6, <1>45 DEF RecordHashDoes, JobIs, ClaimInPlace
  <2>7. ASSUME NEW f \in File
        PROVE  AtItsTypes(f)'
    BY <1>1, <1>2, <1>4, <1>5, <1>7, <2>1, <2>3, <2>7, <1>45 DEF RecordHashDoes, AtItsTypes, Hashed, ClaimInPlace
  <2>8. QED
    BY <2>5, <2>6, <2>7
<1>46. ASSUME NEW t \in Token, FinalizeDoes(t)
      PROVE  InPlace'
  <2>. SUFFICES ASSUME hazard' \cap {"judgedEarly", "latePublish"} = {}
       PROVE  (\A u \in Token : Owns(u)' => ClaimInPlace(u)') /\ \A f \in File : AtItsTypes(f)'
    BY DEF InPlace
  <2>1. (\A u \in Token : Owns(u) => ClaimInPlace(u)) /\ \A f \in File : AtItsTypes(f)
    BY <1>46 DEF FinalizeDoes, InPlace
  <2>2. /\ \A u \in Token \ {t} : job'[u] = job[u]
        /\ job'[t].f = job[t].f /\ job'[t].type = job[t].type
    BY <1>46 DEF FinalizeDoes, JobIs
  <2>3. \A g \in File \ {job[t].f} : disk'[g] = disk[g] /\ imp'[g] = imp[g] /\ file'[g] = file[g]
    BY <1>1, <1>2, <1>46 DEF FinalizeDoes, ImpIs, RowIs, FileIs
  <2>4. \A u \in Token : Owns(u)' => Owns(u)
    <3>1. \A h \in File : /\ imp'[h].state = "active" => imp'[h] = imp[h]
                         /\ imp'[h].type = imp[h].type
      BY <1>1, <1>2, <1>46 DEF FinalizeDoes, ImpIs, RowIs, FileIs
    <3>2. QED
      BY <1>2, <2>2, <3>1 DEF Owns
  <2>5. ASSUME NEW u \in Token \ {t}, Owns(u)'
        PROVE  ClaimInPlace(u)'
    <3>1. disk'[job[u].f] = disk[job[u].f]
      BY <1>2, <1>6, <1>7, <2>3, <2>4, <2>5, <1>46 DEF FinalizeDoes
    <3>2. QED
      BY <2>1, <2>2, <2>4, <2>5, <3>1 DEF ClaimInPlace
  <2>6. ASSUME Owns(t)'
        PROVE  ClaimInPlace(t)'
    BY <1>1, <1>2, <1>4, <2>1, <2>4, <2>6, <1>46 DEF FinalizeDoes, JobIs, ClaimInPlace
  <2>7. ASSUME NEW f \in File
        PROVE  AtItsTypes(f)'
    <3>1. imp'[f].type = imp[f].type /\ (file'[f].state = "none" => file[f].state = "none") /\ disk' = disk
      BY <1>1, <1>2, <1>46 DEF FinalizeDoes, ImpIs, RowIs, FileIs
    <3>2. QED
      BY <2>1, <3>1 DEF AtItsTypes
  <2>8. QED
    BY <2>5, <2>6, <2>7
<1>47. ASSUME NEW t \in Token, CleanDuplicateDoes(t)
      PROVE  InPlace'
  <2>. SUFFICES ASSUME hazard' \cap {"judgedEarly", "latePublish"} = {}
       PROVE  (\A u \in Token : Owns(u)' => ClaimInPlace(u)') /\ \A f \in File : AtItsTypes(f)'
    BY DEF InPlace
  <2>1. (\A u \in Token : Owns(u) => ClaimInPlace(u)) /\ \A f \in File : AtItsTypes(f)
    BY <1>47 DEF CleanDuplicateDoes, InPlace
  <2>2. /\ \A u \in Token \ {t} : job'[u] = job[u]
        /\ job'[t].f = job[t].f /\ job'[t].type = job[t].type
    BY <1>47 DEF CleanDuplicateDoes, JobIs
  <2>3. \A g \in File \ {job[t].f} : disk'[g] = disk[g] /\ imp'[g] = imp[g] /\ file'[g] = file[g]
    BY <1>1, <1>2, <1>47 DEF CleanDuplicateDoes, removeNow
  <2>4. \A u \in Token : Owns(u)' => Owns(u)
    BY <1>2, <1>3, <1>4, <2>2, <2>3, <1>47 DEF CleanDuplicateDoes, Owns, removeNow
  <2>5. ASSUME NEW u \in Token \ {t}, Owns(u)'
        PROVE  ClaimInPlace(u)'
    <3>1. disk'[job[u].f] = disk[job[u].f]
      BY <1>2, <1>6, <1>7, <2>3, <2>4, <2>5, <1>47 DEF CleanDuplicateDoes
    <3>2. QED
      BY <2>1, <2>2, <2>4, <2>5, <3>1 DEF ClaimInPlace
  <2>6. ASSUME Owns(t)'
        PROVE  ClaimInPlace(t)'
    BY <1>1, <1>2, <1>4, <2>1, <2>4, <2>6, <1>47 DEF CleanDuplicateDoes, JobIs, ClaimInPlace
  <2>7. ASSUME NEW f \in File
        PROVE  AtItsTypes(f)'
    BY <1>1, <1>2, <1>4, <1>5, <1>7, <2>1, <2>3, <2>7, <1>47 DEF CleanDuplicateDoes, AtItsTypes, removeNow
  <2>8. QED
    BY <2>5, <2>6, <2>7
<1>48. ASSUME NEW t \in Token, JobFailsDoes(t)
      PROVE  InPlace'
  <2>. SUFFICES ASSUME hazard' \cap {"judgedEarly", "latePublish"} = {}
       PROVE  (\A u \in Token : Owns(u)' => ClaimInPlace(u)') /\ \A f \in File : AtItsTypes(f)'
    BY DEF InPlace
  <2>1. (\A u \in Token : Owns(u) => ClaimInPlace(u)) /\ \A f \in File : AtItsTypes(f)
    BY <1>48 DEF JobFailsDoes, InPlace
  <2>2. /\ \A u \in Token \ {t} : job'[u] = job[u]
        /\ job'[t].f = job[t].f /\ job'[t].type = job[t].type
    BY <1>48 DEF JobFailsDoes, JobIs
  <2>3. \A g \in File \ {job[t].f} : disk'[g] = disk[g] /\ imp'[g] = imp[g] /\ file'[g] = file[g]
    BY <1>1, <1>2, <1>48 DEF JobFailsDoes, Settles, ImpIs, RowIs
  <2>4. \A u \in Token : Owns(u)' => Owns(u)
    BY <1>2, <1>3, <1>4, <2>2, <2>3, <1>48 DEF JobFailsDoes, Owns, Settles, ImpIs, RowIs
  <2>5. ASSUME NEW u \in Token \ {t}, Owns(u)'
        PROVE  ClaimInPlace(u)'
    <3>1. disk'[job[u].f] = disk[job[u].f]
      BY <1>2, <1>6, <1>7, <2>3, <2>4, <2>5, <1>48 DEF JobFailsDoes
    <3>2. QED
      BY <2>1, <2>2, <2>4, <2>5, <3>1 DEF ClaimInPlace
  <2>6. ASSUME Owns(t)'
        PROVE  ClaimInPlace(t)'
    BY <1>1, <1>2, <1>4, <2>1, <2>4, <2>6, <1>48 DEF JobFailsDoes, JobIs, ClaimInPlace
  <2>7. ASSUME NEW f \in File
        PROVE  AtItsTypes(f)'
    BY <1>1, <1>2, <1>4, <1>5, <1>7, <2>1, <2>3, <2>7, <1>48 DEF JobFailsDoes, AtItsTypes, Settles, ImpIs, RowIs
  <2>8. QED
    BY <2>5, <2>6, <2>7
<1>49. ASSUME NEW t \in Token, CopyFindsNothingDoes(t)
      PROVE  InPlace'
  <2>. SUFFICES ASSUME hazard' \cap {"judgedEarly", "latePublish"} = {}
       PROVE  (\A u \in Token : Owns(u)' => ClaimInPlace(u)') /\ \A f \in File : AtItsTypes(f)'
    BY DEF InPlace
  <2>1. (\A u \in Token : Owns(u) => ClaimInPlace(u)) /\ \A f \in File : AtItsTypes(f)
    BY <1>49 DEF CopyFindsNothingDoes, InPlace
  <2>2. /\ \A u \in Token \ {t} : job'[u] = job[u]
        /\ job'[t].f = job[t].f /\ job'[t].type = job[t].type
    BY <1>49 DEF CopyFindsNothingDoes, JobIs
  <2>3. \A g \in File \ {job[t].f} : disk'[g] = disk[g] /\ imp'[g] = imp[g] /\ file'[g] = file[g]
    BY <1>1, <1>2, <1>49 DEF CopyFindsNothingDoes, Settles, ImpIs, RowIs
  <2>4. \A u \in Token : Owns(u)' => Owns(u)
    BY <1>2, <1>3, <1>4, <2>2, <2>3, <1>49 DEF CopyFindsNothingDoes, Owns, Settles, ImpIs, RowIs
  <2>5. ASSUME NEW u \in Token \ {t}, Owns(u)'
        PROVE  ClaimInPlace(u)'
    <3>1. disk'[job[u].f] = disk[job[u].f]
      BY <1>2, <1>6, <1>7, <2>3, <2>4, <2>5, <1>49 DEF CopyFindsNothingDoes
    <3>2. QED
      BY <2>1, <2>2, <2>4, <2>5, <3>1 DEF ClaimInPlace
  <2>6. ASSUME Owns(t)'
        PROVE  ClaimInPlace(t)'
    BY <1>1, <1>2, <1>4, <2>1, <2>4, <2>6, <1>49 DEF CopyFindsNothingDoes, JobIs, ClaimInPlace
  <2>7. ASSUME NEW f \in File
        PROVE  AtItsTypes(f)'
    BY <1>1, <1>2, <1>4, <1>5, <1>7, <2>1, <2>3, <2>7, <1>49 DEF CopyFindsNothingDoes, AtItsTypes, Settles, ImpIs, RowIs
  <2>8. QED
    BY <2>5, <2>6, <2>7
<1>50. ASSUME NEW f \in File, GiveUpDoes(f)
      PROVE  InPlace'
  <2>1. UNCHANGED <<disk, file, job>> /\ hazard \subseteq hazard'
    BY <1>50 DEF GiveUpDoes
  <2>2. \A g \in File : imp'[g].type = imp[g].type /\ (imp'[g].state = "active" => imp'[g] = imp[g])
    BY <1>1, <1>50 DEF GiveUpDoes, ImpIs, RowIs
  <2>3. QED
    BY <1>2, <2>1, <2>2 DEF InPlace, Owns, ClaimInPlace, AtItsTypes
<1>51. ASSUME NEW f \in File, RependDoes(f)
      PROVE  InPlace'
  <2>1. UNCHANGED <<disk, file, job>> /\ hazard \subseteq hazard'
    BY <1>51 DEF RependDoes
  <2>2. \A g \in File : imp'[g].type = imp[g].type /\ (imp'[g].state = "active" => imp'[g] = imp[g])
    BY <1>1, <1>51 DEF RependDoes, ImpIs, RowIs
  <2>3. QED
    BY <1>2, <2>1, <2>2 DEF InPlace, Owns, ClaimInPlace, AtItsTypes
<1>52. ASSUME NEW f \in File, EditSourceDoes(f)
      PROVE  InPlace'
  BY <1>52, <1>1, <1>2, <1>3, <1>4, <1>5, <1>6, <1>7, <1>8 DEF EditSourceDoes, InPlace, Owns,
    ClaimInPlace, AtItsTypes
<1>53. ASSUME AbortDoes
      PROVE  InPlace'
  BY <1>53, <1>1, <1>2, <1>3, <1>4, <1>5, <1>6, <1>7, <1>8 DEF AbortDoes, InPlace, Owns,
    ClaimInPlace, AtItsTypes
<1>54. ASSUME KillDoes
      PROVE  InPlace'
  <2>. SUFFICES ASSUME hazard' \cap {"judgedEarly", "latePublish"} = {}
       PROVE  (\A u \in Token : Owns(u)' => ClaimInPlace(u)') /\ \A f \in File : AtItsTypes(f)'
    BY DEF InPlace
  <2>1. (\A u \in Token : Owns(u) => ClaimInPlace(u)) /\ \A f \in File : AtItsTypes(f)
    BY <1>54 DEF KillDoes, InPlace
  <2>2. \A t \in Token : job'[t].pc \in {"free", "over"}
    BY <1>54 DEF KillDoes
  <2>3. UNCHANGED <<imp, file>>
    BY <1>54 DEF KillDoes
  <2>4. ASSUME NEW f \in File, file[f].state = "none", NEW y \in Type \ {imp[f].type, Classify[f]}
        PROVE  disk'[f][y] = "none"
    <3>1. CASE disk'[f][y] = disk[f][y]
      BY <2>1, <2>4, <3>1 DEF AtItsTypes
    <3>2. ASSUME NEW t \in Token, job[t].pc = "copy", job[t].f = f, job[t].type = y,
                 Late(t) \subseteq hazard'
          PROVE  FALSE
      BY <2>4, <3>2 DEF Late, Hashed
    <3>3. QED
      BY <3>1, <3>2, <2>4, <1>54 DEF KillDoes
  <2>5. QED
    BY <2>2, <2>3, <2>4 DEF ClaimInPlace, AtItsTypes
<1>55. ASSUME DropReadDoes
      PROVE  InPlace'
  BY <1>55, <1>1, <1>2, <1>3, <1>4, <1>5, <1>6, <1>7, <1>8 DEF DropReadDoes, InPlace, Owns,
    ClaimInPlace, AtItsTypes
<1>56. ASSUME failImportDoes
      PROVE  InPlace'
  <2>1. UNCHANGED <<disk, file, job>> /\ hazard \subseteq hazard'
    BY <1>56 DEF failImportDoes
  <2>2. \A g \in File : imp'[g].type = imp[g].type /\ (imp'[g].state = "active" => imp'[g] = imp[g])
    BY <1>1, <1>56 DEF failImportDoes, ImpIs, RowIs
  <2>3. QED
    BY <1>2, <2>1, <2>2 DEF InPlace, Owns, ClaimInPlace, AtItsTypes
<1>57. ASSUME NEW f \in File, NEW y \in Type, DropBytesDoes(f, y)
      PROVE  InPlace'
  BY <1>57, <1>1, <1>2, <1>3, <1>4, <1>5, <1>6, <1>7, <1>8 DEF DropBytesDoes, removeNow,
    InPlace, Owns, ClaimInPlace, AtItsTypes, Dropped, Gone
<1>58. ASSUME deleteDirectoryDoes
      PROVE  InPlace'
  BY <1>58, <1>1, <1>2, <1>3, <1>4, <1>5, <1>6, <1>7, <1>8 DEF deleteDirectoryDoes,
    InPlace, Owns, ClaimInPlace, AtItsTypes
<1>59. QED
  BY <1>9, <1>10, <1>11, <1>12, <1>13, <1>14, <1>15, <1>16, <1>17, <1>18, <1>19, <1>20, <1>21,
    <1>22, <1>23, <1>24, <1>25, <1>26, <1>27, <1>28, <1>29, <1>30, <1>31, <1>32, <1>33, <1>34,
    <1>35, <1>36, <1>37, <1>38, <1>39, <1>40, <1>41, <1>42, <1>43, <1>44, <1>45, <1>46, <1>47,
    <1>48, <1>49, <1>50, <1>51, <1>52, <1>53, <1>54, <1>55, <1>56, <1>57, <1>58 DEF Effect

\* The bytes of files.
LEMMA SoundKept ==
  ASSUME Types, Types', Claims, Rows, Unmade, Moves, Hashed, InPlace, Sound, Effect
  PROVE  Sound'
PROOF
<1>1. file \in [File -> FileRow] /\ imp \in [File -> ImportRow] /\ job \in [Token -> JobRow] /\
  disk \in [File -> [Type -> Bytes]] /\ obj \in [File -> SUBSET Indexer] /\ sent \in [File ->
  Bytes]
  BY DEF Types
<1>2. \A t \in Token : job[t].f \in File /\ job[t].type \in Type /\ job[t].got \in Bytes
  BY DEF Types, JobRow
<1>3. \A f \in File : file[f].type \in Type /\ file[f].hash \in Bytes
  BY DEF Types, FileRow
<1>4. Classify \in [File -> Type] /\ dl \in [File -> DownloadRow]
  BY ImportsAssumption DEF Types
<1>5. \A t \in Token : Owns(t) => file[job[t].f].state = "none"
  BY Owners
<1>6. \A t \in Token : job[t].pc \in {"start", "resolve", "hash", "hashed", "moved", "final",
  "dup"} => file[job[t].f].state = "none"
  BY Owners
<1>7. ASSUME NEW f \in File, GetFileUriDoes(f)
      PROVE  Sound'
  <2>. SUFFICES ASSUME NEW g \in File, Exists(g)',
                       hazard' \cap {"judgedEarly", "partRecorded", "rewritten", "latePublish"} = {}
       PROVE  SoundAt(g)'
    BY DEF Sound
  <2>1. CASE g # f
    <3>1. SoundAt(g) /\ file'[g] = file[g]
      BY <1>1, <2>1, <1>7 DEF GetFileUriDoes, Sound, Exists, getFsFileUri
    <3>2. disk'[g] = disk[g] /\ obj'[g] = obj[g] /\ sent'[g] = sent[g] /\ (g \in fs' <=> g \in fs)
      BY <1>1, <2>1, <1>7 DEF GetFileUriDoes, getFsFileUri
    <3>3. QED
      BY <3>1, <3>2 DEF SoundAt, Slot
  <2>2. CASE g = f
    <3>1. SoundAt(f) /\ UNCHANGED <<file, obj, sent, disk>>
      BY <2>2, <1>7 DEF GetFileUriDoes, Sound, getFsFileUri
    <3>2. f \in fs' => Slot(f) # "part"
      BY <2>2, <3>1, <1>7 DEF GetFileUriDoes, getFsFileUri, Recorded, Slot
    <3>3. QED
      BY <1>3, <2>2, <3>1, <3>2 DEF SoundAt, Slot
  <2>3. QED
    BY <2>1, <2>2
<1>8. ASSUME NEW f \in File, DownloadStartDoes(f)
      PROVE  Sound'
  BY <1>8, <1>1, <1>2, <1>3, <1>4, <1>5, <1>6 DEF DownloadStartDoes, DlIs, Sound, SoundAt,
    Exists, Slot
<1>9. ASSUME NEW f \in File, DownloadOpensDoes(f)
      PROVE  Sound'
  BY <1>9, <1>1, <1>2, <1>3, <1>4, <1>5, <1>6, ZenonT(60) DEF DownloadOpensDoes, DlIs, Sound,
    SoundAt, Exists, Slot
<1>10. ASSUME NEW f \in File, DownloadArrivesDoes(f)
      PROVE  Sound'
  BY <1>10, <1>1, <1>2, <1>3, <1>4, <1>5, <1>6 DEF DownloadArrivesDoes, DlIs, Sound, SoundAt,
    Exists, Slot
<1>11. ASSUME NEW f \in File, DownloadRecordsDoes(f)
      PROVE  Sound'
  <2>. SUFFICES ASSUME NEW g \in File, Exists(g)',
                       hazard' \cap {"judgedEarly", "partRecorded", "rewritten", "latePublish"} = {}
       PROVE  SoundAt(g)'
    BY DEF Sound
  <2>1. CASE g # f
    <3>1. SoundAt(g) /\ file'[g] = file[g]
      BY <1>1, <2>1, <1>11 DEF DownloadRecordsDoes, Sound, Exists, DlIs
    <3>2. disk'[g] = disk[g] /\ obj'[g] = obj[g] /\ sent'[g] = sent[g] /\ (g \in fs' <=> g \in fs)
      BY <1>1, <2>1, <1>11 DEF DownloadRecordsDoes, DlIs
    <3>3. QED
      BY <3>1, <3>2 DEF SoundAt, Slot
  <2>2. CASE g = f
    <3>1. SoundAt(f) /\ UNCHANGED <<file, obj, sent, disk>>
      BY <2>2, <1>11 DEF DownloadRecordsDoes, Sound, Exists
    <3>2. Slot(f) # "part"
      BY <2>2, <1>11 DEF DownloadRecordsDoes, Recorded
    <3>3. QED
      BY <1>3, <2>2, <3>1, <3>2 DEF SoundAt, Slot
  <2>3. QED
    BY <2>1, <2>2
<1>12. ASSUME NEW f \in File, DownloadStopsDoes(f)
      PROVE  Sound'
  <2>. SUFFICES ASSUME NEW g \in File, Exists(g)',
                       hazard' \cap {"judgedEarly", "partRecorded", "rewritten", "latePublish"} = {}
       PROVE  SoundAt(g)'
    BY DEF Sound
  <2>1. CASE g # f
    <3>1. SoundAt(g) /\ file'[g] = file[g]
      BY <1>1, <2>1, <1>12 DEF DownloadStopsDoes, Sound, Exists, DlIs
    <3>2. disk'[g] = disk[g] /\ obj'[g] = obj[g] /\ sent'[g] = sent[g] /\ (g \in fs' <=> g \in fs)
      BY <1>1, <2>1, <1>12 DEF DownloadStopsDoes, DlIs
    <3>3. QED
      BY <3>1, <3>2 DEF SoundAt, Slot
  <2>2. CASE g = f
    <3>1. SoundAt(f) /\ UNCHANGED <<file, obj, sent, fs>>
      BY <2>2, <1>12 DEF DownloadStopsDoes, Sound, Exists
    <3>2. CASE disk' = disk
      BY <2>2, <3>1, <3>2 DEF SoundAt, Slot
    <3>3. CASE disk' = [disk EXCEPT ![f][dl[f].type] = "none"]
      BY <1>1, <1>3, <1>4, <2>2, <3>1, <3>3, WrittenBytes DEF SoundAt, Slot, DownloadRow
    <3>4. QED
      BY <3>2, <3>3, <1>12 DEF DownloadStopsDoes
  <2>3. QED
    BY <2>1, <2>2
<1>13. ASSUME NEW f \in File, EditDoes(f)
      PROVE  Sound'
  BY <1>13, <1>1, <1>2, <1>3, <1>4, <1>5, <1>6 DEF EditDoes, FileIs, Sound, SoundAt, Exists,
    Slot
<1>14. ASSUME NEW f \in File, TombstoneDoes(f)
      PROVE  Sound'
  BY <1>14, <1>1, <1>2, <1>3, <1>4, <1>5, <1>6 DEF TombstoneDoes, FileIs, Sound, SoundAt,
    Exists, Slot
<1>15. ASSUME NEW f \in File, UploadDoes(f)
      PROVE  Sound'
  BY <1>15, <1>1, <1>2, <1>3, <1>4, <1>5, <1>6 DEF UploadDoes, Sound, SoundAt, Exists, Slot
<1>16. ASSUME NEW f \in File, NEW y \in Type, RetypeDoes(f, y)
      PROVE  Sound'
  <2>. SUFFICES ASSUME NEW g \in File, Exists(g)',
                       hazard' \cap {"judgedEarly", "partRecorded", "rewritten", "latePublish"} = {}
       PROVE  SoundAt(g)'
    BY DEF Sound
  <2>1. CASE g # f
    <3>1. SoundAt(g) /\ file'[g] = file[g]
      BY <1>1, <2>1, <1>16 DEF RetypeDoes, Sound, Exists, FileIs
    <3>2. disk'[g] = disk[g] /\ obj'[g] = obj[g] /\ sent'[g] = sent[g] /\ (g \in fs' <=> g \in fs)
      BY <1>1, <2>1, <1>16 DEF RetypeDoes, FileIs
    <3>3. QED
      BY <3>1, <3>2 DEF SoundAt, Slot
  <2>2. CASE g = f
    <3>1. SoundAt(f) /\ UNCHANGED <<obj, sent, disk, fs>>
      BY <2>2, <1>16 DEF RetypeDoes, Sound, Exists
    <3>2. file'[f].type = y /\ file'[f].hash = file[f].hash
      BY <1>16 DEF RetypeDoes, FileIs
    <3>3. f \in fs => disk[f][y] # "part"
      BY <2>2, <1>16 DEF RetypeDoes, Recorded
    <3>4. QED
      BY <1>3, <2>2, <3>1, <3>2, <3>3 DEF SoundAt, Slot
  <2>3. QED
    BY <2>1, <2>2
<1>17. ASSUME NEW f \in File, NEW y \in Type, removeTombstonedDoes(f, y)
      PROVE  Sound'
  BY <1>17, <1>1, <1>2, <1>3, <1>4, <1>5, <1>6 DEF removeTombstonedDoes, removeNow, Sound,
    SoundAt, Exists, Slot
<1>18. ASSUME ScanJudgeDoes
      PROVE  Sound'
  BY <1>18, <1>1, <1>2, <1>3, <1>4, <1>5, <1>6 DEF ScanJudgeDoes, ScanIs, Sound, SoundAt,
    Exists, Slot
<1>19. ASSUME RemoveTempDoes
      PROVE  Sound'
  BY <1>19, <1>1, <1>2, <1>3, <1>4, <1>5, <1>6 DEF RemoveTempDoes, ScanIs, Sound, SoundAt,
    Exists, Slot
<1>20. ASSUME NEW f \in File, NEW y \in Type, ScanEntryDoes(f, y)
      PROVE  Sound'
  <2>. SUFFICES ASSUME NEW g \in File, Exists(g)',
                       hazard' \cap {"judgedEarly", "partRecorded", "rewritten", "latePublish"} = {}
       PROVE  SoundAt(g)'
    BY DEF Sound
  <2>1. CASE g # f
    <3>1. SoundAt(g) /\ file'[g] = file[g]
      BY <1>1, <2>1, <1>20 DEF ScanEntryDoes, Sound, Exists, removeNow, getFsFileUri, Misjudged
    <3>2. disk'[g] = disk[g] /\ obj'[g] = obj[g] /\ sent'[g] = sent[g] /\ (g \in fs' <=> g \in fs)
      BY <1>1, <2>1, <1>20 DEF ScanEntryDoes, removeNow, getFsFileUri, Misjudged
    <3>3. QED
      BY <3>1, <3>2 DEF SoundAt, Slot
  <2>2. CASE g = f
    <3>1. SoundAt(f) /\ Exists(f) /\ UNCHANGED <<file, obj, sent>>
      BY <1>1, <2>2, <1>20 DEF ScanEntryDoes, Sound, Exists, getFsFileUri, Misjudged
    <3>2. ASSUME NEW z \in Type \ {y}, fs' = fs \union {f},
                 hazard' = hazard \union Recorded(disk'[f][file[f].type]),
                 disk' = IF disk[f][y] = "none" THEN disk
                         ELSE [disk EXCEPT ![f][z] = disk[f][y], ![f][y] = "none"]
          PROVE  SoundAt(f)'
      <4>1. disk[f][y] \in Bytes
        BY <1>1
      <4>2. disk' = disk \/ (/\ disk'[f][z] = disk[f][y] /\ disk'[f][y] = "none"
                             /\ \A w \in Type \ {y, z} : disk'[f][w] = disk[f][w])
        BY <1>1, <3>2, <4>1, MovedBytes
      <4>3. \A w \in Type : disk'[f][w] \in {"none", "part", file[f].hash}
        BY <1>3, <3>1, <4>2 DEF SoundAt
      <4>4. disk'[f][file[f].type] # "part"
        BY <2>2, <3>2 DEF Recorded
      <4>5. QED
        BY <1>3, <3>1, <4>3, <4>4 DEF SoundAt, Slot
    <3>3. CASE fs' = fs \ {f} /\ disk' = [disk EXCEPT ![f][y] = "none"]
      BY <1>1, <1>3, <2>2, <3>1, <3>3, WrittenBytes DEF SoundAt, Slot
    <3>4. CASE disk' = disk /\ fs' = fs
      BY <2>2, <3>1, <3>4 DEF SoundAt, Slot
    <3>5. CASE getFsFileUri(f, y) /\ disk' = disk
      BY <1>1, <1>3, <2>2, <3>1, <3>5 DEF SoundAt, Slot, getFsFileUri, Recorded
    <3>6. CASE fs' = fs /\ disk' = [disk EXCEPT ![f][y] = "none"]
      BY <1>1, <1>3, <2>2, <3>1, <3>6, WrittenBytes DEF SoundAt, Slot
    <3>7. QED
      BY <2>2, <3>2, <3>3, <3>4, <3>5, <3>6, <1>20 DEF ScanEntryDoes, removeNow
  <2>3. QED
    BY <2>1, <2>2
<1>21. ASSUME ScanEndDoes
      PROVE  Sound'
  BY <1>21, <1>1, <1>2, <1>3, <1>4, <1>5, <1>6 DEF ScanEndDoes, ScanIs, Sound, SoundAt, Exists,
    Slot
<1>22. ASSUME EvictReadDoes
      PROVE  Sound'
  BY <1>22, <1>1, <1>2, <1>3, <1>4, <1>5, <1>6 DEF EvictReadDoes, EvictIs, Sound, SoundAt,
    Exists, Slot
<1>23. ASSUME NEW f \in File, NEW y \in Type, EvictCountDoes(f, y)
      PROVE  Sound'
  BY <1>23, <1>1, <1>2, <1>3, <1>4, <1>5, <1>6 DEF EvictCountDoes, EvictIs, Sound, SoundAt,
    Exists, Slot
<1>24. ASSUME NEW f \in File, NEW y \in Type, EvictTryDoes(f, y)
      PROVE  Sound'
  <2>. SUFFICES ASSUME NEW g \in File, Exists(g)',
                       hazard' \cap {"judgedEarly", "partRecorded", "rewritten", "latePublish"} = {}
       PROVE  SoundAt(g)'
    BY DEF Sound
  <2>1. CASE g # f
    <3>1. SoundAt(g) /\ file'[g] = file[g]
      BY <1>1, <2>1, <1>24 DEF EvictTryDoes, Sound, Exists, EvictIs
    <3>2. disk'[g] = disk[g] /\ obj'[g] = obj[g] /\ sent'[g] = sent[g] /\ (g \in fs' <=> g \in fs)
      BY <1>1, <2>1, <1>24 DEF EvictTryDoes, EvictIs
    <3>3. QED
      BY <3>1, <3>2 DEF SoundAt, Slot
  <2>2. CASE g = f
    <3>1. SoundAt(f) /\ UNCHANGED <<file, obj, sent, fs>>
      BY <2>2, <1>24 DEF EvictTryDoes, Sound, Exists
    <3>2. CASE disk' = disk
      BY <2>2, <3>1, <3>2 DEF SoundAt, Slot
    <3>3. CASE disk' = [disk EXCEPT ![f][y] = "none"]
      BY <1>1, <1>3, <1>4, <2>2, <3>1, <3>3, WrittenBytes DEF SoundAt, Slot, DownloadRow
    <3>4. QED
      BY <3>2, <3>3, <1>24 DEF EvictTryDoes
  <2>3. QED
    BY <2>1, <2>2
<1>25. ASSUME NEW f \in File, NEW y \in Type, EvictRowDoes(f, y)
      PROVE  Sound'
  BY <1>25, <1>1, <1>2, <1>3, <1>4, <1>5, <1>6 DEF EvictRowDoes, EvictIs, Sound, SoundAt,
    Exists, Slot
<1>26. ASSUME EvictEndDoes
      PROVE  Sound'
  BY <1>26, <1>1, <1>2, <1>3, <1>4, <1>5, <1>6 DEF EvictEndDoes, EvictIs, Sound, SoundAt,
    Exists, Slot
<1>27. ASSUME NEW f \in File, NEW y \in Type, NEW z \in Type \union {"none"}, retypeFileDoes(f,
  y, z)
      PROVE  Sound'
  <2>. SUFFICES ASSUME NEW g \in File, Exists(g)',
                       hazard' \cap {"judgedEarly", "partRecorded", "rewritten", "latePublish"} = {}
       PROVE  SoundAt(g)'
    BY DEF Sound
  <2>1. CASE g # f
    <3>1. SoundAt(g) /\ file'[g] = file[g]
      BY <1>1, <2>1, <1>27 DEF retypeFileDoes, Sound, Exists, FileIs, Recorded
    <3>2. disk'[g] = disk[g] /\ obj'[g] = obj[g] /\ sent'[g] = sent[g] /\ (g \in fs' <=> g \in fs)
      BY <1>1, <2>1, <1>27 DEF retypeFileDoes, FileIs, Recorded
    <3>3. QED
      BY <3>1, <3>2 DEF SoundAt, Slot
  <2>2. CASE g = f
    <3>1. SoundAt(f) /\ Exists(f) /\ z \in Type /\ y # z
      BY <1>1, <2>2, <1>27 DEF retypeFileDoes, Sound, Exists, FileIs, Moves
    <3>2. ASSUME disk[f][y] # "none", disk' = [disk EXCEPT ![f][z] = disk[f][y], ![f][y] = "none"],
                 hazard' = hazard \union (IF f \in fs THEN Recorded(disk[f][y]) ELSE {}), file' = file
          PROVE  SoundAt(f)'
      <4>1. disk[f][y] \in Bytes
        BY <1>1
      <4>2. /\ disk'[f][z] = disk[f][y] /\ disk'[f][y] = "none"
            /\ \A w \in Type \ {y, z} : disk'[f][w] = disk[f][w]
        BY <1>1, <3>1, <3>2, <4>1, MovedBytes
      <4>3. f \in fs => disk[f][y] # "part"
        BY <3>2, <2>2 DEF Recorded
      <4>4. UNCHANGED <<obj, sent, fs>>
        BY <1>27 DEF retypeFileDoes
      <4>5. QED
        BY <1>3, <3>1, <3>2, <4>2, <4>3, <4>4 DEF SoundAt, Slot
    <3>3. QED
      BY <1>1, <1>3, <2>2, <3>1, <3>2, <1>27 DEF retypeFileDoes, FileIs, SoundAt, Slot
  <2>3. QED
    BY <2>1, <2>2
<1>28. ASSUME SwitchIndexerDoes
      PROVE  Sound'
  BY <1>28, <1>1, <1>2, <1>3, <1>4, <1>5, <1>6 DEF SwitchIndexerDoes, Sound, SoundAt, Exists,
    Slot
<1>29. ASSUME ScanListDoes
      PROVE  Sound'
  BY <1>29, <1>1, <1>2, <1>3, <1>4, <1>5, <1>6 DEF ScanListDoes, ScanIs, Sound, SoundAt, Exists,
    Slot
<1>30. ASSUME TickBeginDoes
      PROVE  Sound'
  BY <1>30, <1>1, <1>2, <1>3, <1>4, <1>5, <1>6 DEF TickBeginDoes, RowIs, Sound, SoundAt, Exists,
    Slot
<1>31. ASSUME TickDoes
      PROVE  Sound'
  BY <1>31, <1>1, <1>2, <1>3, <1>4, <1>5, <1>6 DEF TickDoes, Sound, SoundAt, Exists, Slot
<1>32. ASSUME NEW f \in File, NEW t \in Token, ClaimDoes(f, t)
      PROVE  Sound'
  BY <1>32, <1>1, <1>2, <1>3, <1>4, <1>5, <1>6 DEF ClaimDoes, ImpIs, RowIs, Sound, SoundAt,
    Exists, Slot
<1>33. ASSUME NEW t \in Token, JobStartDoes(t)
      PROVE  Sound'
  <2>. SUFFICES ASSUME NEW g \in File, Exists(g)',
                       hazard' \cap {"judgedEarly", "partRecorded", "rewritten", "latePublish"} = {}
       PROVE  SoundAt(g)'
    BY DEF Sound
  <2>1. SoundAt(g) /\ file' = file
    BY <1>33 DEF JobStartDoes, Sound, Exists
  <2>2. disk'[g] = disk[g] /\ obj' = obj /\ sent' = sent /\ (g \in fs' => g \in fs)
    BY <1>1, <1>2, <1>5, <1>6, <1>33, <2>1 DEF JobStartDoes, Exists, removeNow
  <2>3. QED
    BY <2>1, <2>2 DEF SoundAt, Slot
<1>34. ASSUME NEW t \in Token, ResolveDoes(t)
      PROVE  Sound'
  <2>. SUFFICES ASSUME NEW g \in File, Exists(g)',
                       hazard' \cap {"judgedEarly", "partRecorded", "rewritten", "latePublish"} = {}
       PROVE  SoundAt(g)'
    BY DEF Sound
  <2>1. SoundAt(g) /\ file' = file
    BY <1>34 DEF ResolveDoes, Sound, Exists
  <2>2. disk'[g] = disk[g] /\ obj' = obj /\ sent' = sent /\ (g \in fs' => g \in fs)
    BY <1>1, <1>2, <1>5, <1>6, <1>34, <2>1 DEF ResolveDoes, Exists, removeNow
  <2>3. QED
    BY <2>1, <2>2 DEF SoundAt, Slot
<1>35. ASSUME NEW t \in Token, CopyDoes(t)
      PROVE  Sound'
  <2>. SUFFICES ASSUME NEW g \in File, Exists(g)',
                       hazard' \cap {"judgedEarly", "partRecorded", "rewritten", "latePublish"} = {}
       PROVE  SoundAt(g)'
    BY DEF Sound
  <2>1. SoundAt(g) /\ file' = file
    BY <1>35 DEF CopyDoes, Sound, Exists, Late
  <2>2. disk'[g] = disk[g] /\ obj' = obj /\ sent' = sent /\ (g \in fs' => g \in fs)
    BY <1>1, <1>2, <1>5, <1>6, <1>35, <2>1 DEF CopyDoes, Exists, removeNow, Late
  <2>3. QED
    BY <2>1, <2>2 DEF SoundAt, Slot
<1>36. ASSUME NEW t \in Token, CancelCopyDoes(t)
      PROVE  Sound'
  BY <1>36, <1>1, <1>2, <1>3, <1>4, <1>5, <1>6 DEF CancelCopyDoes, JobIs, Sound, SoundAt,
    Exists, Slot
<1>37. ASSUME NEW t \in Token, PublishDoes(t)
      PROVE  Sound'
  <2>. SUFFICES ASSUME NEW g \in File, Exists(g)',
                       hazard' \cap {"judgedEarly", "partRecorded", "rewritten", "latePublish"} = {}
       PROVE  SoundAt(g)'
    BY DEF Sound
  <2>1. SoundAt(g) /\ file' = file
    BY <1>37 DEF PublishDoes, Sound, Exists, Late
  <2>2. disk'[g] = disk[g] /\ obj' = obj /\ sent' = sent /\ (g \in fs' => g \in fs)
    BY <1>1, <1>2, <1>5, <1>6, <1>37, <2>1 DEF PublishDoes, Exists, removeNow, Late
  <2>3. QED
    BY <2>1, <2>2 DEF SoundAt, Slot
<1>38. ASSUME NEW t \in Token, RecordDoes(t)
      PROVE  Sound'
  <2>. SUFFICES ASSUME NEW g \in File, Exists(g)',
                       hazard' \cap {"judgedEarly", "partRecorded", "rewritten", "latePublish"} = {}
       PROVE  SoundAt(g)'
    BY DEF Sound
  <2>1. SoundAt(g) /\ file' = file
    BY <1>38 DEF RecordDoes, Sound, Exists, Late
  <2>2. disk'[g] = disk[g] /\ obj' = obj /\ sent' = sent /\ (g \in fs' => g \in fs)
    BY <1>1, <1>2, <1>5, <1>6, <1>38, <2>1 DEF RecordDoes, Exists, removeNow, Late
  <2>3. QED
    BY <2>1, <2>2 DEF SoundAt, Slot
<1>39. ASSUME NEW t \in Token, RecordCutDoes(t)
      PROVE  Sound'
  BY <1>39, <1>1, <1>2, <1>3, <1>4, <1>5, <1>6 DEF RecordCutDoes, JobIs, Sound, SoundAt, Exists,
    Slot
<1>40. ASSUME NEW t \in Token, HashDoes(t)
      PROVE  Sound'
  <2>. SUFFICES ASSUME NEW g \in File, Exists(g)',
                       hazard' \cap {"judgedEarly", "partRecorded", "rewritten", "latePublish"} = {}
       PROVE  SoundAt(g)'
    BY DEF Sound
  <2>1. SoundAt(g) /\ file' = file
    BY <1>40 DEF HashDoes, Sound, Exists
  <2>2. disk'[g] = disk[g] /\ obj' = obj /\ sent' = sent /\ (g \in fs' => g \in fs)
    BY <1>1, <1>2, <1>5, <1>6, <1>40, <2>1 DEF HashDoes, Exists, removeNow
  <2>3. QED
    BY <2>1, <2>2 DEF SoundAt, Slot
<1>41. ASSUME NEW t \in Token, RefuseEmptyDoes(t)
      PROVE  Sound'
  <2>. SUFFICES ASSUME NEW g \in File, Exists(g)',
                       hazard' \cap {"judgedEarly", "partRecorded", "rewritten", "latePublish"} = {}
       PROVE  SoundAt(g)'
    BY DEF Sound
  <2>1. SoundAt(g) /\ file' = file
    BY <1>41 DEF RefuseEmptyDoes, Sound, Exists
  <2>2. disk'[g] = disk[g] /\ obj' = obj /\ sent' = sent /\ (g \in fs' => g \in fs)
    BY <1>1, <1>2, <1>5, <1>6, <1>41, <2>1 DEF RefuseEmptyDoes, Exists, removeNow
  <2>3. QED
    BY <2>1, <2>2 DEF SoundAt, Slot
<1>42. ASSUME NEW t \in Token, RenameDoes(t)
      PROVE  Sound'
  <2>. SUFFICES ASSUME NEW g \in File, Exists(g)',
                       hazard' \cap {"judgedEarly", "partRecorded", "rewritten", "latePublish"} = {}
       PROVE  SoundAt(g)'
    BY DEF Sound
  <2>1. SoundAt(g) /\ file' = file
    BY <1>42 DEF RenameDoes, Sound, Exists
  <2>2. disk'[g] = disk[g] /\ obj' = obj /\ sent' = sent /\ (g \in fs' => g \in fs)
    BY <1>1, <1>2, <1>5, <1>6, <1>42, <2>1 DEF RenameDoes, Exists, removeNow
  <2>3. QED
    BY <2>1, <2>2 DEF SoundAt, Slot
<1>43. ASSUME NEW t \in Token, RecordHashDoes(t)
      PROVE  Sound'
  BY <1>43, <1>1, <1>2, <1>3, <1>4, <1>5, <1>6 DEF RecordHashDoes, JobIs, Sound, SoundAt,
    Exists, Slot
<1>44. ASSUME NEW t \in Token, FinalizeDoes(t)
      PROVE  Sound'
  <2>. SUFFICES ASSUME NEW g \in File, Exists(g)',
                       hazard' \cap {"judgedEarly", "partRecorded", "rewritten", "latePublish"} = {}
       PROVE  SoundAt(g)'
    BY DEF Sound
  <2>1. UNCHANGED <<disk, fs, obj, sent, hazard>>
    BY <1>44 DEF FinalizeDoes
  <2>2. CASE file'[g] = file[g]
    BY <2>1, <2>2 DEF Sound, SoundAt, Slot, Exists
  <2>3. CASE /\ g = job[t].f /\ Owns(t) /\ file'[g].type = imp[g].type /\ file'[g].hash = imp[g].hash
    <3>1. obj[g] = {} /\ file[g].state = "none"
      BY <1>5, <2>3 DEF Unmade
    <3>2. imp[g].hash = job[t].got /\ imp[g].type = Classify[g]
      BY <2>3, <1>44 DEF FinalizeDoes, Hashed
    <3>3. disk[g][Classify[g]] = job[t].got /\ \A y \in Type \ {Classify[g]} : disk[g][y] = "none"
      BY <1>1, <2>1, <2>3, <3>1, <3>2, <1>44 DEF FinalizeDoes, InPlace, ClaimInPlace, AtItsTypes
    <3>4. QED
      BY <1>4, <2>1, <2>3, <3>1, <3>2, <3>3 DEF SoundAt, Slot
  <2>4. QED
    BY <1>1, <1>2, <2>2, <2>3, <1>44 DEF FinalizeDoes, FileIs
<1>45. ASSUME NEW t \in Token, CleanDuplicateDoes(t)
      PROVE  Sound'
  <2>. SUFFICES ASSUME NEW g \in File, Exists(g)',
                       hazard' \cap {"judgedEarly", "partRecorded", "rewritten", "latePublish"} = {}
       PROVE  SoundAt(g)'
    BY DEF Sound
  <2>1. SoundAt(g) /\ file' = file
    BY <1>45 DEF CleanDuplicateDoes, Sound, Exists
  <2>2. disk'[g] = disk[g] /\ obj' = obj /\ sent' = sent /\ (g \in fs' => g \in fs)
    BY <1>1, <1>2, <1>5, <1>6, <1>45, <2>1 DEF CleanDuplicateDoes, Exists, removeNow
  <2>3. QED
    BY <2>1, <2>2 DEF SoundAt, Slot
<1>46. ASSUME NEW t \in Token, JobFailsDoes(t)
      PROVE  Sound'
  BY <1>46, <1>1, <1>2, <1>3, <1>4, <1>5, <1>6 DEF JobFailsDoes, ImpIs, JobIs, RowIs, Settles,
    Sound, SoundAt, Exists, Slot
<1>47. ASSUME NEW t \in Token, CopyFindsNothingDoes(t)
      PROVE  Sound'
  BY <1>47, <1>1, <1>2, <1>3, <1>4, <1>5, <1>6 DEF CopyFindsNothingDoes, ImpIs, JobIs, RowIs,
    Settles, Sound, SoundAt, Exists, Slot
<1>48. ASSUME NEW f \in File, GiveUpDoes(f)
      PROVE  Sound'
  BY <1>48, <1>1, <1>2, <1>3, <1>4, <1>5, <1>6 DEF GiveUpDoes, ImpIs, RowIs, Sound, SoundAt,
    Exists, Slot
<1>49. ASSUME NEW f \in File, RependDoes(f)
      PROVE  Sound'
  BY <1>49, <1>1, <1>2, <1>3, <1>4, <1>5, <1>6 DEF RependDoes, ImpIs, RowIs, Sound, SoundAt,
    Exists, Slot
<1>50. ASSUME NEW f \in File, EditSourceDoes(f)
      PROVE  Sound'
  BY <1>50, <1>1, <1>2, <1>3, <1>4, <1>5, <1>6 DEF EditSourceDoes, Sound, SoundAt, Exists, Slot
<1>51. ASSUME AbortDoes
      PROVE  Sound'
  BY <1>51, <1>1, <1>2, <1>3, <1>4, <1>5, <1>6 DEF AbortDoes, Sound, SoundAt, Exists, Slot
<1>52. ASSUME KillDoes
      PROVE  Sound'
  <2>. SUFFICES ASSUME NEW g \in File, Exists(g)',
                       hazard' \cap {"judgedEarly", "partRecorded", "rewritten", "latePublish"} = {}
       PROVE  SoundAt(g)'
    BY DEF Sound
  <2>1. SoundAt(g) /\ Exists(g) /\ UNCHANGED <<file, obj, sent, fs>>
    BY <1>52 DEF KillDoes, Sound, Exists
  <2>2. ASSUME NEW y \in Type
        PROVE  disk'[g][y] = disk[g][y]
    <3>1. ASSUME NEW t \in Token, job[t].f = g, Late(t) \subseteq hazard'
          PROVE  FALSE
      BY <1>5, <2>1, <3>1 DEF Late, Exists
    <3>2. QED
      BY <3>1, <1>52 DEF KillDoes
  <2>3. QED
    BY <1>3, <2>1, <2>2 DEF SoundAt, Slot
<1>53. ASSUME DropReadDoes
      PROVE  Sound'
  BY <1>53, <1>1, <1>2, <1>3, <1>4, <1>5, <1>6 DEF DropReadDoes, Sound, SoundAt, Exists, Slot
<1>54. ASSUME failImportDoes
      PROVE  Sound'
  BY <1>54, <1>1, <1>2, <1>3, <1>4, <1>5, <1>6 DEF failImportDoes, RowIs, Sound, SoundAt,
    Exists, Slot
<1>55. ASSUME NEW f \in File, NEW y \in Type, DropBytesDoes(f, y)
      PROVE  Sound'
  BY <1>55, <1>1, <1>2, <1>3, <1>4, <1>5, <1>6 DEF DropBytesDoes, removeNow, Sound, SoundAt,
    Exists, Slot
<1>56. ASSUME deleteDirectoryDoes
      PROVE  Sound'
  BY <1>56, <1>1, <1>2, <1>3, <1>4, <1>5, <1>6 DEF deleteDirectoryDoes, Sound, SoundAt, Exists,
    Slot
<1>57. QED
  BY <1>7, <1>8, <1>9, <1>10, <1>11, <1>12, <1>13, <1>14, <1>15, <1>16, <1>17, <1>18, <1>19,
    <1>20, <1>21, <1>22, <1>23, <1>24, <1>25, <1>26, <1>27, <1>28, <1>29, <1>30, <1>31, <1>32,
    <1>33, <1>34, <1>35, <1>36, <1>37, <1>38, <1>39, <1>40, <1>41, <1>42, <1>43, <1>44, <1>45,
    <1>46, <1>47, <1>48, <1>49, <1>50, <1>51, <1>52, <1>53, <1>54, <1>55, <1>56 DEF Effect

\* Nothing that matters to a last copy has changed but for the better.
LastSame(f) ==
  /\ file'[f].type = file[f].type /\ file'[f].hash = file[f].hash /\ disk'[f] = disk[f]
  /\ \A y \in Type : /\ <<f, y>> \in scan'.list => <<f, y>> \in scan.list
                     /\ <<f, y>> \in scan'.present => <<f, y>> \in scan.present
                     /\ <<f, y>> \in scan'.live => <<f, y>> \in scan.live
  /\ \A y \in Type, z \in Type \union {"none"} : <<f, y, z>> \in owed' => <<f, y, z>> \in owed

\* So the copy stays one.
LEMMA LastStays ==
  ASSUME NEW f \in File, OneCopy(f), ScanKnows(f), LastSame(f)
  PROVE  OneCopy(f)' /\ ScanKnows(f)'
PROOF
<1>1. OneCopy(f)'
  BY DEF OneCopy, LastSame
<1>2. ScanKnows(f)'
  BY DEF ScanKnows, LastSame, Slot
<1>3. QED
  BY <1>1, <1>2

\* The scanner's lists.
LEMMA ListedKept ==
  ASSUME Types, Types', Listed, Effect
  PROVE  Listed'
PROOF
<1>1. scan \in ScanState
  BY DEF Types
<1>2. ASSUME NEW f \in File, GetFileUriDoes(f)
      PROVE  Listed'
  BY <1>2, <1>1 DEF GetFileUriDoes, getFsFileUri, Listed
<1>3. ASSUME NEW f \in File, DownloadStartDoes(f)
      PROVE  Listed'
  BY <1>3, <1>1 DEF DownloadStartDoes, DlIs, Listed
<1>4. ASSUME NEW f \in File, DownloadOpensDoes(f)
      PROVE  Listed'
  BY <1>4, <1>1 DEF DownloadOpensDoes, DlIs, Listed
<1>5. ASSUME NEW f \in File, DownloadArrivesDoes(f)
      PROVE  Listed'
  BY <1>5, <1>1 DEF DownloadArrivesDoes, DlIs, Listed
<1>6. ASSUME NEW f \in File, DownloadRecordsDoes(f)
      PROVE  Listed'
  BY <1>6, <1>1 DEF DownloadRecordsDoes, DlIs, Recorded, Listed
<1>7. ASSUME NEW f \in File, DownloadStopsDoes(f)
      PROVE  Listed'
  BY <1>7, <1>1 DEF DownloadStopsDoes, DlIs, Listed
<1>8. ASSUME NEW f \in File, EditDoes(f)
      PROVE  Listed'
  BY <1>8, <1>1 DEF EditDoes, FileIs, Listed
<1>9. ASSUME NEW f \in File, TombstoneDoes(f)
      PROVE  Listed'
  BY <1>9, <1>1 DEF TombstoneDoes, FileIs, Listed
<1>10. ASSUME NEW f \in File, UploadDoes(f)
      PROVE  Listed'
  BY <1>10, <1>1 DEF UploadDoes, Listed
<1>11. ASSUME NEW f \in File, NEW y \in Type, RetypeDoes(f, y)
      PROVE  Listed'
  BY <1>11, <1>1 DEF RetypeDoes, FileIs, Recorded, Listed
<1>12. ASSUME NEW f \in File, NEW y \in Type, removeTombstonedDoes(f, y)
      PROVE  Listed'
  BY <1>12, <1>1 DEF removeTombstonedDoes, removeNow, Listed
<1>13. ASSUME ScanJudgeDoes
      PROVE  Listed'
  BY <1>13, <1>1 DEF ScanJudgeDoes, ScanIs, Listed
<1>14. ASSUME RemoveTempDoes
      PROVE  Listed'
  BY <1>14, <1>1 DEF RemoveTempDoes, ScanIs, Listed
<1>15. ASSUME NEW f \in File, NEW y \in Type, ScanEntryDoes(f, y)
      PROVE  Listed'
  BY <1>15, <1>1 DEF ScanEntryDoes, Misjudged, Recorded, ScanIs, ScansOn, getFsFileUri,
    removeNow, Listed
<1>16. ASSUME ScanEndDoes
      PROVE  Listed'
  BY <1>16, <1>1 DEF ScanEndDoes, ScanIs, Listed
<1>17. ASSUME EvictReadDoes
      PROVE  Listed'
  BY <1>17, <1>1 DEF EvictReadDoes, EvictIs, Listed
<1>18. ASSUME NEW f \in File, NEW y \in Type, EvictCountDoes(f, y)
      PROVE  Listed'
  BY <1>18, <1>1 DEF EvictCountDoes, EvictIs, Listed
<1>19. ASSUME NEW f \in File, NEW y \in Type, EvictTryDoes(f, y)
      PROVE  Listed'
  BY <1>19, <1>1 DEF EvictTryDoes, EvictIs, Listed
<1>20. ASSUME NEW f \in File, NEW y \in Type, EvictRowDoes(f, y)
      PROVE  Listed'
  BY <1>20, <1>1 DEF EvictRowDoes, EvictIs, Listed
<1>21. ASSUME EvictEndDoes
      PROVE  Listed'
  BY <1>21, <1>1 DEF EvictEndDoes, EvictIs, Listed
<1>22. ASSUME NEW f \in File, NEW y \in Type, NEW z \in Type \union {"none"}, retypeFileDoes(f,
  y, z)
      PROVE  Listed'
  BY <1>22, <1>1 DEF retypeFileDoes, FileIs, Recorded, Listed
<1>23. ASSUME SwitchIndexerDoes
      PROVE  Listed'
  BY <1>23, <1>1 DEF SwitchIndexerDoes, Listed
<1>24. ASSUME ScanListDoes
      PROVE  Listed'
  BY <1>24, <1>1 DEF ScanListDoes, ScanIs, Listed
<1>25. ASSUME TickBeginDoes
      PROVE  Listed'
  BY <1>25, <1>1 DEF TickBeginDoes, RowIs, Listed
<1>26. ASSUME TickDoes
      PROVE  Listed'
  BY <1>26, <1>1 DEF TickDoes, Listed
<1>27. ASSUME NEW f \in File, NEW t \in Token, ClaimDoes(f, t)
      PROVE  Listed'
  BY <1>27, <1>1 DEF ClaimDoes, ImpIs, RowIs, Listed
<1>28. ASSUME NEW t \in Token, JobStartDoes(t)
      PROVE  Listed'
  BY <1>28, <1>1 DEF JobStartDoes, JobIs, Listed
<1>29. ASSUME NEW t \in Token, ResolveDoes(t)
      PROVE  Listed'
  BY <1>29, <1>1 DEF ResolveDoes, ImpIs, JobIs, RowIs, Settles, Listed
<1>30. ASSUME NEW t \in Token, CopyDoes(t)
      PROVE  Listed'
  BY <1>30, <1>1 DEF CopyDoes, JobIs, Late, Listed
<1>31. ASSUME NEW t \in Token, CancelCopyDoes(t)
      PROVE  Listed'
  BY <1>31, <1>1 DEF CancelCopyDoes, JobIs, Listed
<1>32. ASSUME NEW t \in Token, PublishDoes(t)
      PROVE  Listed'
  BY <1>32, <1>1 DEF PublishDoes, JobIs, Late, Listed
<1>33. ASSUME NEW t \in Token, RecordDoes(t)
      PROVE  Listed'
  BY <1>33, <1>1 DEF RecordDoes, JobIs, Late, Listed
<1>34. ASSUME NEW t \in Token, RecordCutDoes(t)
      PROVE  Listed'
  BY <1>34, <1>1 DEF RecordCutDoes, JobIs, Listed
<1>35. ASSUME NEW t \in Token, HashDoes(t)
      PROVE  Listed'
  BY <1>35, <1>1 DEF HashDoes, JobIs, Listed
<1>36. ASSUME NEW t \in Token, RefuseEmptyDoes(t)
      PROVE  Listed'
  BY <1>36, <1>1 DEF RefuseEmptyDoes, ImpIs, JobIs, RowIs, Settles, removeNow, Listed
<1>37. ASSUME NEW t \in Token, RenameDoes(t)
      PROVE  Listed'
  BY <1>37, <1>1 DEF RenameDoes, JobIs, Listed
<1>38. ASSUME NEW t \in Token, RecordHashDoes(t)
      PROVE  Listed'
  BY <1>38, <1>1 DEF RecordHashDoes, JobIs, Listed
<1>39. ASSUME NEW t \in Token, FinalizeDoes(t)
      PROVE  Listed'
  BY <1>39, <1>1 DEF FinalizeDoes, FileIs, ImpIs, JobIs, RowIs, Listed
<1>40. ASSUME NEW t \in Token, CleanDuplicateDoes(t)
      PROVE  Listed'
  BY <1>40, <1>1 DEF CleanDuplicateDoes, JobIs, removeNow, Listed
<1>41. ASSUME NEW t \in Token, JobFailsDoes(t)
      PROVE  Listed'
  BY <1>41, <1>1 DEF JobFailsDoes, ImpIs, JobIs, RowIs, Settles, Listed
<1>42. ASSUME NEW t \in Token, CopyFindsNothingDoes(t)
      PROVE  Listed'
  BY <1>42, <1>1 DEF CopyFindsNothingDoes, ImpIs, JobIs, RowIs, Settles, Listed
<1>43. ASSUME NEW f \in File, GiveUpDoes(f)
      PROVE  Listed'
  BY <1>43, <1>1 DEF GiveUpDoes, ImpIs, RowIs, Listed
<1>44. ASSUME NEW f \in File, RependDoes(f)
      PROVE  Listed'
  BY <1>44, <1>1 DEF RependDoes, ImpIs, RowIs, Listed
<1>45. ASSUME NEW f \in File, EditSourceDoes(f)
      PROVE  Listed'
  BY <1>45, <1>1 DEF EditSourceDoes, Listed
<1>46. ASSUME AbortDoes
      PROVE  Listed'
  BY <1>46, <1>1 DEF AbortDoes, Listed
<1>47. ASSUME KillDoes
      PROVE  Listed'
  BY <1>47, <1>1 DEF KillDoes, EvictIs, Late, ScanIs, Listed
<1>48. ASSUME DropReadDoes
      PROVE  Listed'
  BY <1>48, <1>1 DEF DropReadDoes, Listed
<1>49. ASSUME failImportDoes
      PROVE  Listed'
  BY <1>49, <1>1 DEF failImportDoes, RowIs, Listed
<1>50. ASSUME NEW f \in File, NEW y \in Type, DropBytesDoes(f, y)
      PROVE  Listed'
  BY <1>50, <1>1 DEF DropBytesDoes, removeNow, Listed
<1>51. ASSUME deleteDirectoryDoes
      PROVE  Listed'
  BY <1>51, <1>1 DEF deleteDirectoryDoes, Listed
<1>52. QED
  BY <1>2, <1>3, <1>4, <1>5, <1>6, <1>7, <1>8, <1>9, <1>10, <1>11, <1>12, <1>13, <1>14, <1>15,
    <1>16, <1>17, <1>18, <1>19, <1>20, <1>21, <1>22, <1>23, <1>24, <1>25, <1>26, <1>27, <1>28,
    <1>29, <1>30, <1>31, <1>32, <1>33, <1>34, <1>35, <1>36, <1>37, <1>38, <1>39, <1>40, <1>41,
    <1>42, <1>43, <1>44, <1>45, <1>46, <1>47, <1>48, <1>49, <1>50, <1>51 DEF Effect

\* The last copy.
LEMMA LastKept ==
  ASSUME Types, Types', Claims, Rows, Unmade, Moves, Backed, Dropped, Hashed, InPlace, Listed,
    Last, Effect
  PROVE  Last'
PROOF
<1>1. file \in [File -> FileRow] /\ imp \in [File -> ImportRow] /\ job \in [Token -> JobRow] /\
  disk \in [File -> [Type -> Bytes]] /\ obj \in [File -> SUBSET Indexer] /\ scan \in ScanState
  BY DEF Types
<1>2. \A t \in Token : job[t].f \in File /\ job[t].type \in Type /\ job[t].got \in Bytes
  BY DEF Types, JobRow
<1>3. \A f \in File : file[f].type \in Type /\ file[f].hash \in Bytes
  BY DEF Types, FileRow
<1>4. Classify \in [File -> Type] /\ dl \in [File -> DownloadRow]
  BY ImportsAssumption DEF Types
<1>5. \A t \in Token : Owns(t) => file[job[t].f].state = "none"
  BY Owners
<1>6. \A t \in Token : job[t].pc \in {"start", "resolve", "hash", "hashed", "moved", "final",
  "dup"} => file[job[t].f].state = "none"
  BY Owners
<1>7. ASSUME NEW f \in File, GetFileUriDoes(f)
      PROVE  Last'
  <2>. SUFFICES ASSUME NEW g \in File, Exists(g)', obj'[g] = {},
                       hazard' \cap {"judgedEarly", "failedAdded", "latePublish"} = {}
       PROVE  OneCopy(g)' /\ ScanKnows(g)'
    BY DEF Last
  <2>1. Exists(g) /\ obj[g] = {}
    BY <1>1, <1>7 DEF GetFileUriDoes, Exists, getFsFileUri
  <2>2. OneCopy(g) /\ ScanKnows(g)
    BY <2>1, <1>7 DEF GetFileUriDoes, Last, getFsFileUri
  <2>3. LastSame(g)
    BY <1>1, <1>2, <1>5, <1>6, <2>1, <1>7 DEF GetFileUriDoes, LastSame, Exists, getFsFileUri
  <2>4. QED
    BY <2>2, <2>3, LastStays
<1>8. ASSUME NEW f \in File, DownloadStartDoes(f)
      PROVE  Last'
  <2>. SUFFICES ASSUME NEW g \in File, Exists(g)', obj'[g] = {},
                       hazard' \cap {"judgedEarly", "failedAdded", "latePublish"} = {}
       PROVE  OneCopy(g)' /\ ScanKnows(g)'
    BY DEF Last
  <2>1. Exists(g) /\ obj[g] = {}
    BY <1>1, <1>8 DEF DownloadStartDoes, Exists, DlIs
  <2>2. OneCopy(g) /\ ScanKnows(g)
    BY <2>1, <1>8 DEF DownloadStartDoes, Last, DlIs
  <2>3. LastSame(g)
    BY <1>1, <1>2, <1>5, <1>6, <2>1, <1>8 DEF DownloadStartDoes, LastSame, Exists, DlIs
  <2>4. QED
    BY <2>2, <2>3, LastStays
<1>9. ASSUME NEW f \in File, DownloadOpensDoes(f)
      PROVE  Last'
  <2>. SUFFICES ASSUME NEW g \in File, Exists(g)', obj'[g] = {},
                       hazard' \cap {"judgedEarly", "failedAdded", "latePublish"} = {}
       PROVE  OneCopy(g)' /\ ScanKnows(g)'
    BY DEF Last
  <2>1. Exists(g) /\ obj[g] = {}
    BY <1>1, <1>9 DEF DownloadOpensDoes, Exists, DlIs
  <2>2. OneCopy(g) /\ ScanKnows(g)
    BY <2>1, <1>9 DEF DownloadOpensDoes, Last, DlIs
  <2>3. LastSame(g)
    BY <1>1, <1>2, <1>5, <1>6, <2>1, <1>9 DEF DownloadOpensDoes, LastSame, Exists, DlIs, Backed
  <2>4. QED
    BY <2>2, <2>3, LastStays
<1>10. ASSUME NEW f \in File, DownloadArrivesDoes(f)
      PROVE  Last'
  <2>. SUFFICES ASSUME NEW g \in File, Exists(g)', obj'[g] = {},
                       hazard' \cap {"judgedEarly", "failedAdded", "latePublish"} = {}
       PROVE  OneCopy(g)' /\ ScanKnows(g)'
    BY DEF Last
  <2>1. Exists(g) /\ obj[g] = {}
    BY <1>1, <1>10 DEF DownloadArrivesDoes, Exists, DlIs
  <2>2. OneCopy(g) /\ ScanKnows(g)
    BY <2>1, <1>10 DEF DownloadArrivesDoes, Last, DlIs
  <2>3. LastSame(g)
    BY <1>1, <1>2, <1>5, <1>6, <2>1, <1>10 DEF DownloadArrivesDoes, LastSame, Exists, DlIs, Backed
  <2>4. QED
    BY <2>2, <2>3, LastStays
<1>11. ASSUME NEW f \in File, DownloadRecordsDoes(f)
      PROVE  Last'
  <2>. SUFFICES ASSUME NEW g \in File, Exists(g)', obj'[g] = {},
                       hazard' \cap {"judgedEarly", "failedAdded", "latePublish"} = {}
       PROVE  OneCopy(g)' /\ ScanKnows(g)'
    BY DEF Last
  <2>1. Exists(g) /\ obj[g] = {}
    BY <1>1, <1>11 DEF DownloadRecordsDoes, Exists, DlIs, Recorded
  <2>2. OneCopy(g) /\ ScanKnows(g)
    BY <2>1, <1>11 DEF DownloadRecordsDoes, Last, DlIs, Recorded
  <2>3. LastSame(g)
    BY <1>1, <1>2, <1>5, <1>6, <2>1, <1>11 DEF DownloadRecordsDoes, LastSame, Exists, DlIs, Recorded
  <2>4. QED
    BY <2>2, <2>3, LastStays
<1>12. ASSUME NEW f \in File, DownloadStopsDoes(f)
      PROVE  Last'
  <2>. SUFFICES ASSUME NEW g \in File, Exists(g)', obj'[g] = {},
                       hazard' \cap {"judgedEarly", "failedAdded", "latePublish"} = {}
       PROVE  OneCopy(g)' /\ ScanKnows(g)'
    BY DEF Last
  <2>1. Exists(g) /\ obj[g] = {}
    BY <1>1, <1>12 DEF DownloadStopsDoes, Exists, DlIs
  <2>2. OneCopy(g) /\ ScanKnows(g)
    BY <2>1, <1>12 DEF DownloadStopsDoes, Last, DlIs
  <2>3. LastSame(g)
    BY <1>1, <1>2, <1>5, <1>6, <2>1, <1>12 DEF DownloadStopsDoes, LastSame, Exists, DlIs, Backed
  <2>4. QED
    BY <2>2, <2>3, LastStays
<1>13. ASSUME NEW f \in File, EditDoes(f)
      PROVE  Last'
  <2>. SUFFICES ASSUME NEW g \in File, Exists(g)', obj'[g] = {},
                       hazard' \cap {"judgedEarly", "failedAdded", "latePublish"} = {}
       PROVE  OneCopy(g)' /\ ScanKnows(g)'
    BY DEF Last
  <2>1. Exists(g) /\ obj[g] = {}
    BY <1>1, <1>13 DEF EditDoes, Exists, FileIs
  <2>2. OneCopy(g) /\ ScanKnows(g)
    BY <2>1, <1>13 DEF EditDoes, Last, FileIs
  <2>3. LastSame(g)
    BY <1>1, <1>2, <1>5, <1>6, <2>1, <1>13 DEF EditDoes, LastSame, Exists, FileIs
  <2>4. QED
    BY <2>2, <2>3, LastStays
<1>14. ASSUME NEW f \in File, TombstoneDoes(f)
      PROVE  Last'
  <2>. SUFFICES ASSUME NEW g \in File, Exists(g)', obj'[g] = {},
                       hazard' \cap {"judgedEarly", "failedAdded", "latePublish"} = {}
       PROVE  OneCopy(g)' /\ ScanKnows(g)'
    BY DEF Last
  <2>1. Exists(g) /\ obj[g] = {}
    BY <1>1, <1>14 DEF TombstoneDoes, Exists, FileIs
  <2>2. OneCopy(g) /\ ScanKnows(g)
    BY <2>1, <1>14 DEF TombstoneDoes, Last, FileIs
  <2>3. LastSame(g)
    BY <1>1, <1>2, <1>5, <1>6, <2>1, <1>14 DEF TombstoneDoes, LastSame, Exists, FileIs
  <2>4. QED
    BY <2>2, <2>3, LastStays
<1>15. ASSUME NEW f \in File, UploadDoes(f)
      PROVE  Last'
  <2>. SUFFICES ASSUME NEW g \in File, Exists(g)', obj'[g] = {},
                       hazard' \cap {"judgedEarly", "failedAdded", "latePublish"} = {}
       PROVE  OneCopy(g)' /\ ScanKnows(g)'
    BY DEF Last
  <2>1. Exists(g) /\ obj[g] = {}
    BY <1>1, <1>15 DEF UploadDoes, Exists
  <2>2. OneCopy(g) /\ ScanKnows(g)
    BY <2>1, <1>15 DEF UploadDoes, Last
  <2>3. LastSame(g)
    BY <1>1, <1>2, <1>5, <1>6, <2>1, <1>15 DEF UploadDoes, LastSame, Exists
  <2>4. QED
    BY <2>2, <2>3, LastStays
<1>16. ASSUME NEW f \in File, NEW y \in Type, RetypeDoes(f, y)
      PROVE  Last'
  <2>. SUFFICES ASSUME NEW g \in File, Exists(g)', obj'[g] = {},
                       hazard' \cap {"judgedEarly", "failedAdded", "latePublish"} = {}
       PROVE  OneCopy(g)' /\ ScanKnows(g)'
    BY DEF Last
  <2>1. Exists(g) /\ obj[g] = {} /\ file'[g].hash = file[g].hash
    BY <1>1, <1>16 DEF RetypeDoes, Exists, FileIs
  <2>2. OneCopy(g) /\ ScanKnows(g)
    BY <2>1, <1>16 DEF RetypeDoes, Last
  <2>3. UNCHANGED <<disk, scan>>
    BY <1>16 DEF RetypeDoes
  <2>4. CASE g = f
    <3>1. \A w \in Type : <<f, w>> \notin scan.list
      BY <1>16 DEF RetypeDoes
    <3>2. QED
      BY <2>1, <2>2, <2>3, <2>4, <3>1 DEF OneCopy, ScanKnows
  <2>5. CASE g # f
    <3>1. LastSame(g)
      BY <1>1, <1>16, <2>3, <2>5 DEF RetypeDoes, LastSame, FileIs
    <3>2. QED
      BY <2>2, <3>1, LastStays
  <2>6. QED
    BY <2>4, <2>5
<1>17. ASSUME NEW f \in File, NEW y \in Type, removeTombstonedDoes(f, y)
      PROVE  Last'
  <2>. SUFFICES ASSUME NEW g \in File, Exists(g)', obj'[g] = {},
                       hazard' \cap {"judgedEarly", "failedAdded", "latePublish"} = {}
       PROVE  OneCopy(g)' /\ ScanKnows(g)'
    BY DEF Last
  <2>1. Exists(g) /\ obj[g] = {}
    BY <1>1, <1>17 DEF removeTombstonedDoes, Exists, removeNow
  <2>2. OneCopy(g) /\ ScanKnows(g)
    BY <2>1, <1>17 DEF removeTombstonedDoes, Last, removeNow
  <2>3. LastSame(g)
    BY <1>1, <1>2, <1>5, <1>6, <2>1, <1>17 DEF removeTombstonedDoes, LastSame, Exists, removeNow, Moves
  <2>4. QED
    BY <2>2, <2>3, LastStays
<1>18. ASSUME ScanJudgeDoes
      PROVE  Last'
  <2>. SUFFICES ASSUME NEW g \in File, Exists(g)', obj'[g] = {},
                       hazard' \cap {"judgedEarly", "failedAdded", "latePublish"} = {}
       PROVE  OneCopy(g)' /\ ScanKnows(g)'
    BY DEF Last
  <2>1. Exists(g) /\ obj[g] = {} /\ UNCHANGED <<disk, file, owed>>
    BY <1>18 DEF ScanJudgeDoes, Exists
  <2>2. OneCopy(g) /\ ScanKnows(g)
    BY <2>1, <1>18 DEF ScanJudgeDoes, Last
  <2>3. /\ scan'.list = scan.list /\ scan'.present = scan.present
        /\ \A w \in Type : <<g, w>> \in scan'.live => w = file[g].type
    BY <1>18 DEF ScanJudgeDoes, ScanIs
  <2>4. QED
    BY <2>1, <2>2, <2>3 DEF OneCopy, ScanKnows, Slot
<1>19. ASSUME RemoveTempDoes
      PROVE  Last'
  <2>. SUFFICES ASSUME NEW g \in File, Exists(g)', obj'[g] = {},
                       hazard' \cap {"judgedEarly", "failedAdded", "latePublish"} = {}
       PROVE  OneCopy(g)' /\ ScanKnows(g)'
    BY DEF Last
  <2>1. Exists(g) /\ obj[g] = {}
    BY <1>1, <1>19 DEF RemoveTempDoes, Exists, ScanIs
  <2>2. OneCopy(g) /\ ScanKnows(g)
    BY <2>1, <1>19 DEF RemoveTempDoes, Last, ScanIs
  <2>3. LastSame(g)
    BY <1>1, <1>2, <1>5, <1>6, <2>1, <1>19 DEF RemoveTempDoes, LastSame, Exists, ScanIs
  <2>4. QED
    BY <2>2, <2>3, LastStays
<1>20. ASSUME NEW f \in File, NEW y \in Type, ScanEntryDoes(f, y)
      PROVE  Last'
  <2>. SUFFICES ASSUME NEW g \in File, Exists(g)', obj'[g] = {},
                       hazard' \cap {"judgedEarly", "failedAdded", "latePublish"} = {}
       PROVE  OneCopy(g)' /\ ScanKnows(g)'
    BY DEF Last
  <2>1. Exists(g) /\ obj[g] = {} /\ UNCHANGED <<file, owed>> /\ scan'.list = scan.list \ {<<f, y>>}
    BY <1>20 DEF ScanEntryDoes, Exists, ScansOn, ScanIs
  <2>2. OneCopy(g) /\ ScanKnows(g) /\ scan'.live = scan.live
    BY <2>1, <1>20 DEF ScanEntryDoes, Last, getFsFileUri, ScansOn, ScanIs
  <2>3. ASSUME disk'[g] = disk[g], \A w \in Type : <<g, w>> \in scan'.present => <<g, w>> \in scan.present
        PROVE  OneCopy(g)' /\ ScanKnows(g)'
    <3>1. LastSame(g)
      BY <2>1, <2>2, <2>3 DEF LastSame
    <3>2. QED
      BY <2>2, <3>1, LastStays
  <2>4. CASE g # f
    <3>1. disk'[g] = disk[g] /\ \A w \in Type : <<g, w>> \in scan'.present => <<g, w>> \in scan.present
      BY <1>1, <2>4, <1>20 DEF ScanEntryDoes, removeNow, ScansOn, ScanIs
    <3>2. QED
      BY <2>3, <3>1
  <2>5. CASE g = f
    <3>1. <<f, y>> \in scan.list /\ <<f, y>> \in scan.present
      BY <1>20 DEF ScanEntryDoes, Listed
    <3>2. CASE disk' = disk /\ ScansOn(f, y, scan.present)
      BY <2>3, <3>2 DEF ScansOn, ScanIs
    <3>3. ASSUME NEW z \in Type \ {y}, <<f, z>> \in scan.live, <<f, z>> \in scan.present,
                 ScansOn(f, y, scan.present \ {<<f, y>>}), disk' = [disk EXCEPT ![f][y] = "none"]
          PROVE  OneCopy(f)' /\ ScanKnows(f)'
      <4>1. z = file[f].type /\ disk[f][z] # "none"
        BY <2>2, <2>5, <3>1, <3>3 DEF ScanKnows, Slot
      <4>2. disk[f][y] = "none"
        BY <2>2, <2>5, <3>3, <4>1 DEF OneCopy
      <4>3. disk' = disk
        BY <1>1, <3>3, <4>2
      <4>4. QED
        BY <2>3, <2>5, <3>3, <4>3 DEF ScansOn, ScanIs
    <3>4. ASSUME NEW z \in Type \ {y}, <<f, z>> \in scan.live, <<f, z>> \notin scan.present,
                 disk[f][y] # "none" \/ disk[f][z] # "none", scan'.present = scan.present \union {<<f, z>>},
                 disk' = IF disk[f][y] = "none" THEN disk
                         ELSE [disk EXCEPT ![f][z] = disk[f][y], ![f][y] = "none"]
          PROVE  OneCopy(f)' /\ ScanKnows(f)'
      <4>1. CASE disk[f][y] = "none"
        <5>1. OneCopy(f)'
          BY <2>1, <2>2, <2>5, <3>4, <4>1 DEF OneCopy
        <5>2. ASSUME NEW v \in Type, NEW w \in Type, <<f, v>> \in scan'.list, <<f, w>> \in scan'.present, v # w
              PROVE  \E u \in Type : <<f, v>> \in scan.list /\ <<f, u>> \in scan.present /\ v # u
          BY <2>1, <3>1, <3>4, <5>2
        <5>3. ScanKnows(f)'
          BY <2>1, <2>2, <2>5, <3>4, <4>1, <5>2 DEF ScanKnows, Slot
        <5>4. QED
          BY <5>1, <5>3
      <4>2. CASE disk[f][y] # "none"
        <5>1. disk[f][y] \in Bytes
          BY <1>1
        <5>2. /\ disk'[f][z] = disk[f][y] /\ disk'[f][y] = "none"
              /\ \A w \in Type \ {y, z} : disk'[f][w] = disk[f][w]
          BY <1>1, <3>4, <4>2, <5>1, MovedBytes
        <5>3. disk[f][y] = file[f].hash /\ \A w \in Type \ {y} : disk[f][w] = "none"
          BY <2>2, <2>5, <4>2 DEF OneCopy
        <5>4. OneCopy(f)'
          BY <2>1, <5>2, <5>3 DEF OneCopy
        <5>5. \A v \in Type : <<f, v>> \in scan.list => v = y
          <6>1. SUFFICES ASSUME NEW v \in Type, <<f, v>> \in scan.list, v # y
                PROVE  FALSE
            OBVIOUS
          <6>2. z = file[f].type /\ disk[f][z] # "none"
            BY <2>2, <2>5, <3>1, <3>4, <6>1 DEF ScanKnows, Slot
          <6>3. QED
            BY <5>3, <6>2
        <5>6. ScanKnows(f)'
          BY <2>1, <5>5 DEF ScanKnows
        <5>7. QED
          BY <5>4, <5>6
      <4>3. QED
        BY <4>1, <4>2
    <3>5. QED
      BY <2>1, <2>5, <3>2, <3>3, <3>4, <1>20 DEF ScanEntryDoes, Misjudged, Exists, ScansOn, ScanIs
  <2>6. QED
    BY <2>4, <2>5
<1>21. ASSUME ScanEndDoes
      PROVE  Last'
  <2>. SUFFICES ASSUME NEW g \in File, Exists(g)', obj'[g] = {},
                       hazard' \cap {"judgedEarly", "failedAdded", "latePublish"} = {}
       PROVE  OneCopy(g)' /\ ScanKnows(g)'
    BY DEF Last
  <2>1. Exists(g) /\ obj[g] = {}
    BY <1>1, <1>21 DEF ScanEndDoes, Exists, ScanIs
  <2>2. OneCopy(g) /\ ScanKnows(g)
    BY <2>1, <1>21 DEF ScanEndDoes, Last, ScanIs
  <2>3. LastSame(g)
    BY <1>1, <1>2, <1>5, <1>6, <2>1, <1>21 DEF ScanEndDoes, LastSame, Exists, ScanIs
  <2>4. QED
    BY <2>2, <2>3, LastStays
<1>22. ASSUME EvictReadDoes
      PROVE  Last'
  <2>. SUFFICES ASSUME NEW g \in File, Exists(g)', obj'[g] = {},
                       hazard' \cap {"judgedEarly", "failedAdded", "latePublish"} = {}
       PROVE  OneCopy(g)' /\ ScanKnows(g)'
    BY DEF Last
  <2>1. Exists(g) /\ obj[g] = {}
    BY <1>1, <1>22 DEF EvictReadDoes, Exists, EvictIs
  <2>2. OneCopy(g) /\ ScanKnows(g)
    BY <2>1, <1>22 DEF EvictReadDoes, Last, EvictIs
  <2>3. LastSame(g)
    BY <1>1, <1>2, <1>5, <1>6, <2>1, <1>22 DEF EvictReadDoes, LastSame, Exists, EvictIs
  <2>4. QED
    BY <2>2, <2>3, LastStays
<1>23. ASSUME NEW f \in File, NEW y \in Type, EvictCountDoes(f, y)
      PROVE  Last'
  <2>. SUFFICES ASSUME NEW g \in File, Exists(g)', obj'[g] = {},
                       hazard' \cap {"judgedEarly", "failedAdded", "latePublish"} = {}
       PROVE  OneCopy(g)' /\ ScanKnows(g)'
    BY DEF Last
  <2>1. Exists(g) /\ obj[g] = {}
    BY <1>1, <1>23 DEF EvictCountDoes, Exists, EvictIs
  <2>2. OneCopy(g) /\ ScanKnows(g)
    BY <2>1, <1>23 DEF EvictCountDoes, Last, EvictIs
  <2>3. LastSame(g)
    BY <1>1, <1>2, <1>5, <1>6, <2>1, <1>23 DEF EvictCountDoes, LastSame, Exists, EvictIs
  <2>4. QED
    BY <2>2, <2>3, LastStays
<1>24. ASSUME NEW f \in File, NEW y \in Type, EvictTryDoes(f, y)
      PROVE  Last'
  <2>. SUFFICES ASSUME NEW g \in File, Exists(g)', obj'[g] = {},
                       hazard' \cap {"judgedEarly", "failedAdded", "latePublish"} = {}
       PROVE  OneCopy(g)' /\ ScanKnows(g)'
    BY DEF Last
  <2>1. Exists(g) /\ obj[g] = {}
    BY <1>1, <1>24 DEF EvictTryDoes, Exists, EvictIs
  <2>2. OneCopy(g) /\ ScanKnows(g)
    BY <2>1, <1>24 DEF EvictTryDoes, Last, EvictIs
  <2>3. LastSame(g)
    BY <1>1, <1>2, <1>5, <1>6, <2>1, <1>24 DEF EvictTryDoes, LastSame, Exists, EvictIs, Backed
  <2>4. QED
    BY <2>2, <2>3, LastStays
<1>25. ASSUME NEW f \in File, NEW y \in Type, EvictRowDoes(f, y)
      PROVE  Last'
  <2>. SUFFICES ASSUME NEW g \in File, Exists(g)', obj'[g] = {},
                       hazard' \cap {"judgedEarly", "failedAdded", "latePublish"} = {}
       PROVE  OneCopy(g)' /\ ScanKnows(g)'
    BY DEF Last
  <2>1. Exists(g) /\ obj[g] = {}
    BY <1>1, <1>25 DEF EvictRowDoes, Exists, EvictIs
  <2>2. OneCopy(g) /\ ScanKnows(g)
    BY <2>1, <1>25 DEF EvictRowDoes, Last, EvictIs
  <2>3. LastSame(g)
    BY <1>1, <1>2, <1>5, <1>6, <2>1, <1>25 DEF EvictRowDoes, LastSame, Exists, EvictIs, Backed
  <2>4. QED
    BY <2>2, <2>3, LastStays
<1>26. ASSUME EvictEndDoes
      PROVE  Last'
  <2>. SUFFICES ASSUME NEW g \in File, Exists(g)', obj'[g] = {},
                       hazard' \cap {"judgedEarly", "failedAdded", "latePublish"} = {}
       PROVE  OneCopy(g)' /\ ScanKnows(g)'
    BY DEF Last
  <2>1. Exists(g) /\ obj[g] = {}
    BY <1>1, <1>26 DEF EvictEndDoes, Exists, EvictIs
  <2>2. OneCopy(g) /\ ScanKnows(g)
    BY <2>1, <1>26 DEF EvictEndDoes, Last, EvictIs
  <2>3. LastSame(g)
    BY <1>1, <1>2, <1>5, <1>6, <2>1, <1>26 DEF EvictEndDoes, LastSame, Exists, EvictIs
  <2>4. QED
    BY <2>2, <2>3, LastStays
<1>27. ASSUME NEW f \in File, NEW y \in Type, NEW z \in Type \union {"none"}, retypeFileDoes(f,
  y, z)
      PROVE  Last'
  <2>. SUFFICES ASSUME NEW g \in File, Exists(g)', obj'[g] = {},
                       hazard' \cap {"judgedEarly", "failedAdded", "latePublish"} = {}
       PROVE  OneCopy(g)' /\ ScanKnows(g)'
    BY DEF Last
  <2>1. Exists(g) /\ obj[g] = {} /\ file'[g].hash = file[g].hash
    BY <1>1, <1>27 DEF retypeFileDoes, Exists, FileIs
  <2>2. OneCopy(g) /\ ScanKnows(g)
    BY <2>1, <1>27 DEF retypeFileDoes, Last
  <2>3. UNCHANGED scan /\ owed' \subseteq owed
    BY <1>27 DEF retypeFileDoes
  <2>4. CASE g = f
    <3>1. \A u, v \in Type : ~(<<f, u>> \in scan.list /\ <<f, v>> \in scan.present /\ u # v)
      BY <2>2, <2>4, <1>27 DEF retypeFileDoes, ScanKnows
    <3>2. ScanKnows(f)'
      BY <2>3, <3>1 DEF ScanKnows
    <3>3. ASSUME disk[f][y] # "none", disk' = [disk EXCEPT ![f][z] = disk[f][y], ![f][y] = "none"]
          PROVE  OneCopy(f)'
      <4>1. disk[f][y] \in Bytes /\ z \in Type /\ y # z
        BY <1>1, <1>27 DEF retypeFileDoes, Moves
      <4>2. /\ disk'[f][z] = disk[f][y] /\ disk'[f][y] = "none"
            /\ \A w \in Type \ {y, z} : disk'[f][w] = disk[f][w]
        BY <1>1, <3>3, <4>1, MovedBytes
      <4>3. disk[f][y] = file[f].hash /\ \A w \in Type \ {y} : disk[f][w] = "none"
        BY <2>2, <2>4, <3>3 DEF OneCopy
      <4>4. QED
        BY <2>1, <2>4, <4>1, <4>2, <4>3 DEF OneCopy
    <3>4. CASE disk' = disk
      BY <2>1, <2>2, <2>4, <3>2, <3>4 DEF OneCopy
    <3>5. QED
      BY <2>4, <3>2, <3>3, <3>4, <1>27 DEF retypeFileDoes
  <2>5. CASE g # f
    <3>1. LastSame(g)
      BY <1>1, <1>27, <2>3, <2>5 DEF retypeFileDoes, LastSame, FileIs
    <3>2. QED
      BY <2>2, <3>1, LastStays
  <2>6. QED
    BY <2>4, <2>5
<1>28. ASSUME SwitchIndexerDoes
      PROVE  Last'
  <2>. SUFFICES ASSUME NEW g \in File, Exists(g)', obj'[g] = {},
                       hazard' \cap {"judgedEarly", "failedAdded", "latePublish"} = {}
       PROVE  OneCopy(g)' /\ ScanKnows(g)'
    BY DEF Last
  <2>1. Exists(g) /\ obj[g] = {}
    BY <1>1, <1>28 DEF SwitchIndexerDoes, Exists
  <2>2. OneCopy(g) /\ ScanKnows(g)
    BY <2>1, <1>28 DEF SwitchIndexerDoes, Last
  <2>3. LastSame(g)
    BY <1>1, <1>2, <1>5, <1>6, <2>1, <1>28 DEF SwitchIndexerDoes, LastSame, Exists
  <2>4. QED
    BY <2>2, <2>3, LastStays
<1>29. ASSUME ScanListDoes
      PROVE  Last'
  <2>. SUFFICES ASSUME NEW g \in File, Exists(g)', obj'[g] = {},
                       hazard' \cap {"judgedEarly", "failedAdded", "latePublish"} = {}
       PROVE  OneCopy(g)' /\ ScanKnows(g)'
    BY DEF Last
  <2>1. Exists(g) /\ obj[g] = {} /\ UNCHANGED <<disk, file>>
    BY <1>29 DEF ScanListDoes, Exists
  <2>2. OneCopy(g)
    BY <2>1, <1>29 DEF ScanListDoes, Last
  <2>3. \A y \in Type : /\ <<g, y>> \in scan'.list => disk[g][y] # "none"
                        /\ <<g, y>> \in scan'.present => disk[g][y] # "none"
    BY <1>29 DEF ScanListDoes, ScanIs
  <2>4. QED
    BY <2>1, <2>2, <2>3 DEF OneCopy, ScanKnows
<1>30. ASSUME TickBeginDoes
      PROVE  Last'
  <2>. SUFFICES ASSUME NEW g \in File, Exists(g)', obj'[g] = {},
                       hazard' \cap {"judgedEarly", "failedAdded", "latePublish"} = {}
       PROVE  OneCopy(g)' /\ ScanKnows(g)'
    BY DEF Last
  <2>1. Exists(g) /\ obj[g] = {}
    BY <1>1, <1>30 DEF TickBeginDoes, Exists, RowIs
  <2>2. OneCopy(g) /\ ScanKnows(g)
    BY <2>1, <1>30 DEF TickBeginDoes, Last, RowIs
  <2>3. LastSame(g)
    BY <1>1, <1>2, <1>5, <1>6, <2>1, <1>30 DEF TickBeginDoes, LastSame, Exists, RowIs
  <2>4. QED
    BY <2>2, <2>3, LastStays
<1>31. ASSUME TickDoes
      PROVE  Last'
  <2>. SUFFICES ASSUME NEW g \in File, Exists(g)', obj'[g] = {},
                       hazard' \cap {"judgedEarly", "failedAdded", "latePublish"} = {}
       PROVE  OneCopy(g)' /\ ScanKnows(g)'
    BY DEF Last
  <2>1. Exists(g) /\ obj[g] = {}
    BY <1>1, <1>31 DEF TickDoes, Exists
  <2>2. OneCopy(g) /\ ScanKnows(g)
    BY <2>1, <1>31 DEF TickDoes, Last
  <2>3. LastSame(g)
    BY <1>1, <1>2, <1>5, <1>6, <2>1, <1>31 DEF TickDoes, LastSame, Exists
  <2>4. QED
    BY <2>2, <2>3, LastStays
<1>32. ASSUME NEW f \in File, NEW t \in Token, ClaimDoes(f, t)
      PROVE  Last'
  <2>. SUFFICES ASSUME NEW g \in File, Exists(g)', obj'[g] = {},
                       hazard' \cap {"judgedEarly", "failedAdded", "latePublish"} = {}
       PROVE  OneCopy(g)' /\ ScanKnows(g)'
    BY DEF Last
  <2>1. Exists(g) /\ obj[g] = {}
    BY <1>1, <1>32 DEF ClaimDoes, Exists, ImpIs, RowIs
  <2>2. OneCopy(g) /\ ScanKnows(g)
    BY <2>1, <1>32 DEF ClaimDoes, Last, ImpIs, RowIs
  <2>3. LastSame(g)
    BY <1>1, <1>2, <1>5, <1>6, <2>1, <1>32 DEF ClaimDoes, LastSame, Exists, ImpIs, RowIs
  <2>4. QED
    BY <2>2, <2>3, LastStays
<1>33. ASSUME NEW t \in Token, JobStartDoes(t)
      PROVE  Last'
  <2>. SUFFICES ASSUME NEW g \in File, Exists(g)', obj'[g] = {},
                       hazard' \cap {"judgedEarly", "failedAdded", "latePublish"} = {}
       PROVE  OneCopy(g)' /\ ScanKnows(g)'
    BY DEF Last
  <2>1. Exists(g) /\ obj[g] = {}
    BY <1>1, <1>33 DEF JobStartDoes, Exists, JobIs
  <2>2. OneCopy(g) /\ ScanKnows(g)
    BY <2>1, <1>33 DEF JobStartDoes, Last, JobIs
  <2>3. LastSame(g)
    BY <1>1, <1>2, <1>5, <1>6, <2>1, <1>33 DEF JobStartDoes, LastSame, Exists, JobIs
  <2>4. QED
    BY <2>2, <2>3, LastStays
<1>34. ASSUME NEW t \in Token, ResolveDoes(t)
      PROVE  Last'
  <2>. SUFFICES ASSUME NEW g \in File, Exists(g)', obj'[g] = {},
                       hazard' \cap {"judgedEarly", "failedAdded", "latePublish"} = {}
       PROVE  OneCopy(g)' /\ ScanKnows(g)'
    BY DEF Last
  <2>1. Exists(g) /\ obj[g] = {}
    BY <1>1, <1>34 DEF ResolveDoes, Exists, ImpIs, JobIs, RowIs, Settles
  <2>2. OneCopy(g) /\ ScanKnows(g)
    BY <2>1, <1>34 DEF ResolveDoes, Last, ImpIs, JobIs, RowIs, Settles
  <2>3. LastSame(g)
    BY <1>1, <1>2, <1>5, <1>6, <2>1, <1>34 DEF ResolveDoes, LastSame, Exists, ImpIs, JobIs, RowIs, Settles
  <2>4. QED
    BY <2>2, <2>3, LastStays
<1>35. ASSUME NEW t \in Token, CopyDoes(t)
      PROVE  Last'
  <2>. SUFFICES ASSUME NEW g \in File, Exists(g)', obj'[g] = {},
                       hazard' \cap {"judgedEarly", "failedAdded", "latePublish"} = {}
       PROVE  OneCopy(g)' /\ ScanKnows(g)'
    BY DEF Last
  <2>1. Exists(g) /\ obj[g] = {}
    BY <1>1, <1>35 DEF CopyDoes, Exists, JobIs, Late
  <2>2. OneCopy(g) /\ ScanKnows(g)
    BY <2>1, <1>35 DEF CopyDoes, Last, JobIs, Late
  <2>3. LastSame(g)
    BY <1>1, <1>2, <1>5, <1>6, <2>1, <1>35 DEF CopyDoes, LastSame, Exists, JobIs, Late, Late
  <2>4. QED
    BY <2>2, <2>3, LastStays
<1>36. ASSUME NEW t \in Token, CancelCopyDoes(t)
      PROVE  Last'
  <2>. SUFFICES ASSUME NEW g \in File, Exists(g)', obj'[g] = {},
                       hazard' \cap {"judgedEarly", "failedAdded", "latePublish"} = {}
       PROVE  OneCopy(g)' /\ ScanKnows(g)'
    BY DEF Last
  <2>1. Exists(g) /\ obj[g] = {}
    BY <1>1, <1>36 DEF CancelCopyDoes, Exists, JobIs
  <2>2. OneCopy(g) /\ ScanKnows(g)
    BY <2>1, <1>36 DEF CancelCopyDoes, Last, JobIs
  <2>3. LastSame(g)
    BY <1>1, <1>2, <1>5, <1>6, <2>1, <1>36 DEF CancelCopyDoes, LastSame, Exists, JobIs
  <2>4. QED
    BY <2>2, <2>3, LastStays
<1>37. ASSUME NEW t \in Token, PublishDoes(t)
      PROVE  Last'
  <2>. SUFFICES ASSUME NEW g \in File, Exists(g)', obj'[g] = {},
                       hazard' \cap {"judgedEarly", "failedAdded", "latePublish"} = {}
       PROVE  OneCopy(g)' /\ ScanKnows(g)'
    BY DEF Last
  <2>1. Exists(g) /\ obj[g] = {}
    BY <1>1, <1>37 DEF PublishDoes, Exists, JobIs, Late
  <2>2. OneCopy(g) /\ ScanKnows(g)
    BY <2>1, <1>37 DEF PublishDoes, Last, JobIs, Late
  <2>3. LastSame(g)
    BY <1>1, <1>2, <1>5, <1>6, <2>1, <1>37 DEF PublishDoes, LastSame, Exists, JobIs, Late, Late
  <2>4. QED
    BY <2>2, <2>3, LastStays
<1>38. ASSUME NEW t \in Token, RecordDoes(t)
      PROVE  Last'
  <2>. SUFFICES ASSUME NEW g \in File, Exists(g)', obj'[g] = {},
                       hazard' \cap {"judgedEarly", "failedAdded", "latePublish"} = {}
       PROVE  OneCopy(g)' /\ ScanKnows(g)'
    BY DEF Last
  <2>1. Exists(g) /\ obj[g] = {}
    BY <1>1, <1>38 DEF RecordDoes, Exists, JobIs, Late
  <2>2. OneCopy(g) /\ ScanKnows(g)
    BY <2>1, <1>38 DEF RecordDoes, Last, JobIs, Late
  <2>3. LastSame(g)
    BY <1>1, <1>2, <1>5, <1>6, <2>1, <1>38 DEF RecordDoes, LastSame, Exists, JobIs, Late
  <2>4. QED
    BY <2>2, <2>3, LastStays
<1>39. ASSUME NEW t \in Token, RecordCutDoes(t)
      PROVE  Last'
  <2>. SUFFICES ASSUME NEW g \in File, Exists(g)', obj'[g] = {},
                       hazard' \cap {"judgedEarly", "failedAdded", "latePublish"} = {}
       PROVE  OneCopy(g)' /\ ScanKnows(g)'
    BY DEF Last
  <2>1. Exists(g) /\ obj[g] = {}
    BY <1>1, <1>39 DEF RecordCutDoes, Exists, JobIs
  <2>2. OneCopy(g) /\ ScanKnows(g)
    BY <2>1, <1>39 DEF RecordCutDoes, Last, JobIs
  <2>3. LastSame(g)
    BY <1>1, <1>2, <1>5, <1>6, <2>1, <1>39 DEF RecordCutDoes, LastSame, Exists, JobIs
  <2>4. QED
    BY <2>2, <2>3, LastStays
<1>40. ASSUME NEW t \in Token, HashDoes(t)
      PROVE  Last'
  <2>. SUFFICES ASSUME NEW g \in File, Exists(g)', obj'[g] = {},
                       hazard' \cap {"judgedEarly", "failedAdded", "latePublish"} = {}
       PROVE  OneCopy(g)' /\ ScanKnows(g)'
    BY DEF Last
  <2>1. Exists(g) /\ obj[g] = {}
    BY <1>1, <1>40 DEF HashDoes, Exists, JobIs
  <2>2. OneCopy(g) /\ ScanKnows(g)
    BY <2>1, <1>40 DEF HashDoes, Last, JobIs
  <2>3. LastSame(g)
    BY <1>1, <1>2, <1>5, <1>6, <2>1, <1>40 DEF HashDoes, LastSame, Exists, JobIs
  <2>4. QED
    BY <2>2, <2>3, LastStays
<1>41. ASSUME NEW t \in Token, RefuseEmptyDoes(t)
      PROVE  Last'
  <2>. SUFFICES ASSUME NEW g \in File, Exists(g)', obj'[g] = {},
                       hazard' \cap {"judgedEarly", "failedAdded", "latePublish"} = {}
       PROVE  OneCopy(g)' /\ ScanKnows(g)'
    BY DEF Last
  <2>1. Exists(g) /\ obj[g] = {}
    BY <1>1, <1>41 DEF RefuseEmptyDoes, Exists, ImpIs, JobIs, RowIs, Settles, removeNow
  <2>2. OneCopy(g) /\ ScanKnows(g)
    BY <2>1, <1>41 DEF RefuseEmptyDoes, Last, ImpIs, JobIs, RowIs, Settles, removeNow
  <2>3. LastSame(g)
    BY <1>1, <1>2, <1>5, <1>6, <2>1, <1>41 DEF RefuseEmptyDoes, LastSame, Exists, ImpIs, JobIs, RowIs, Settles, removeNow
  <2>4. QED
    BY <2>2, <2>3, LastStays
<1>42. ASSUME NEW t \in Token, RenameDoes(t)
      PROVE  Last'
  <2>. SUFFICES ASSUME NEW g \in File, Exists(g)', obj'[g] = {},
                       hazard' \cap {"judgedEarly", "failedAdded", "latePublish"} = {}
       PROVE  OneCopy(g)' /\ ScanKnows(g)'
    BY DEF Last
  <2>1. Exists(g) /\ obj[g] = {}
    BY <1>1, <1>42 DEF RenameDoes, Exists, JobIs
  <2>2. OneCopy(g) /\ ScanKnows(g)
    BY <2>1, <1>42 DEF RenameDoes, Last, JobIs
  <2>3. LastSame(g)
    BY <1>1, <1>2, <1>5, <1>6, <2>1, <1>42 DEF RenameDoes, LastSame, Exists, JobIs
  <2>4. QED
    BY <2>2, <2>3, LastStays
<1>43. ASSUME NEW t \in Token, RecordHashDoes(t)
      PROVE  Last'
  <2>. SUFFICES ASSUME NEW g \in File, Exists(g)', obj'[g] = {},
                       hazard' \cap {"judgedEarly", "failedAdded", "latePublish"} = {}
       PROVE  OneCopy(g)' /\ ScanKnows(g)'
    BY DEF Last
  <2>1. Exists(g) /\ obj[g] = {}
    BY <1>1, <1>43 DEF RecordHashDoes, Exists, JobIs
  <2>2. OneCopy(g) /\ ScanKnows(g)
    BY <2>1, <1>43 DEF RecordHashDoes, Last, JobIs
  <2>3. LastSame(g)
    BY <1>1, <1>2, <1>5, <1>6, <2>1, <1>43 DEF RecordHashDoes, LastSame, Exists, JobIs
  <2>4. QED
    BY <2>2, <2>3, LastStays
<1>44. ASSUME NEW t \in Token, FinalizeDoes(t)
      PROVE  Last'
  <2>. SUFFICES ASSUME NEW g \in File, Exists(g)', obj'[g] = {},
                       hazard' \cap {"judgedEarly", "failedAdded", "latePublish"} = {}
       PROVE  OneCopy(g)' /\ ScanKnows(g)'
    BY DEF Last
  <2>1. UNCHANGED <<disk, scan, owed, obj, hazard>>
    BY <1>44 DEF FinalizeDoes
  <2>2. CASE file'[g] = file[g]
    <3>1. OneCopy(g) /\ ScanKnows(g)
      BY <2>1, <2>2 DEF Last, Exists
    <3>2. LastSame(g)
      BY <2>1, <2>2 DEF LastSame
    <3>3. QED
      BY <3>1, <3>2, LastStays
  <2>3. CASE /\ g = job[t].f /\ Owns(t) /\ file'[g].type = imp[g].type /\ file'[g].hash = imp[g].hash
    <3>1. file[g].state = "none"
      BY <1>5, <2>3
    <3>2. imp[g].hash = job[t].got /\ imp[g].type = Classify[g] /\ job[t].got # "none"
      BY <2>3, <1>44 DEF FinalizeDoes, Hashed
    <3>3. disk[g][Classify[g]] = job[t].got /\ \A y \in Type \ {Classify[g]} : disk[g][y] = "none"
      BY <1>1, <2>1, <2>3, <3>1, <3>2, <1>44 DEF FinalizeDoes, InPlace, ClaimInPlace, AtItsTypes
    <3>4. OneCopy(g)'
      BY <1>4, <2>1, <2>3, <3>2, <3>3 DEF OneCopy
    <3>5. ScanKnows(g)'
      <4>1. /\ \A w \in Type : <<g, w>> \notin scan.live
            /\ \A v \in Type, w \in Type \union {"none"} : <<g, v, w>> \notin owed
        BY <3>1 DEF Unmade
      <4>2. Slot(g)' # "none"
        BY <1>4, <2>1, <2>3, <3>2, <3>3 DEF Slot
      <4>3. QED
        BY <2>1, <4>1, <4>2 DEF ScanKnows
    <3>6. QED
      BY <3>4, <3>5
  <2>4. QED
    BY <1>1, <1>2, <2>2, <2>3, <1>44 DEF FinalizeDoes, FileIs
<1>45. ASSUME NEW t \in Token, CleanDuplicateDoes(t)
      PROVE  Last'
  <2>. SUFFICES ASSUME NEW g \in File, Exists(g)', obj'[g] = {},
                       hazard' \cap {"judgedEarly", "failedAdded", "latePublish"} = {}
       PROVE  OneCopy(g)' /\ ScanKnows(g)'
    BY DEF Last
  <2>1. Exists(g) /\ obj[g] = {}
    BY <1>1, <1>45 DEF CleanDuplicateDoes, Exists, JobIs, removeNow
  <2>2. OneCopy(g) /\ ScanKnows(g)
    BY <2>1, <1>45 DEF CleanDuplicateDoes, Last, JobIs, removeNow
  <2>3. LastSame(g)
    BY <1>1, <1>2, <1>5, <1>6, <2>1, <1>45 DEF CleanDuplicateDoes, LastSame, Exists, JobIs, removeNow
  <2>4. QED
    BY <2>2, <2>3, LastStays
<1>46. ASSUME NEW t \in Token, JobFailsDoes(t)
      PROVE  Last'
  <2>. SUFFICES ASSUME NEW g \in File, Exists(g)', obj'[g] = {},
                       hazard' \cap {"judgedEarly", "failedAdded", "latePublish"} = {}
       PROVE  OneCopy(g)' /\ ScanKnows(g)'
    BY DEF Last
  <2>1. Exists(g) /\ obj[g] = {}
    BY <1>1, <1>46 DEF JobFailsDoes, Exists, ImpIs, JobIs, RowIs, Settles
  <2>2. OneCopy(g) /\ ScanKnows(g)
    BY <2>1, <1>46 DEF JobFailsDoes, Last, ImpIs, JobIs, RowIs, Settles
  <2>3. LastSame(g)
    BY <1>1, <1>2, <1>5, <1>6, <2>1, <1>46 DEF JobFailsDoes, LastSame, Exists, ImpIs, JobIs, RowIs, Settles
  <2>4. QED
    BY <2>2, <2>3, LastStays
<1>47. ASSUME NEW t \in Token, CopyFindsNothingDoes(t)
      PROVE  Last'
  <2>. SUFFICES ASSUME NEW g \in File, Exists(g)', obj'[g] = {},
                       hazard' \cap {"judgedEarly", "failedAdded", "latePublish"} = {}
       PROVE  OneCopy(g)' /\ ScanKnows(g)'
    BY DEF Last
  <2>1. Exists(g) /\ obj[g] = {}
    BY <1>1, <1>47 DEF CopyFindsNothingDoes, Exists, ImpIs, JobIs, RowIs, Settles
  <2>2. OneCopy(g) /\ ScanKnows(g)
    BY <2>1, <1>47 DEF CopyFindsNothingDoes, Last, ImpIs, JobIs, RowIs, Settles
  <2>3. LastSame(g)
    BY <1>1, <1>2, <1>5, <1>6, <2>1, <1>47 DEF CopyFindsNothingDoes, LastSame, Exists, ImpIs, JobIs, RowIs, Settles
  <2>4. QED
    BY <2>2, <2>3, LastStays
<1>48. ASSUME NEW f \in File, GiveUpDoes(f)
      PROVE  Last'
  <2>. SUFFICES ASSUME NEW g \in File, Exists(g)', obj'[g] = {},
                       hazard' \cap {"judgedEarly", "failedAdded", "latePublish"} = {}
       PROVE  OneCopy(g)' /\ ScanKnows(g)'
    BY DEF Last
  <2>1. Exists(g) /\ obj[g] = {}
    BY <1>1, <1>48 DEF GiveUpDoes, Exists, ImpIs, RowIs
  <2>2. OneCopy(g) /\ ScanKnows(g)
    BY <2>1, <1>48 DEF GiveUpDoes, Last, ImpIs, RowIs
  <2>3. LastSame(g)
    BY <1>1, <1>2, <1>5, <1>6, <2>1, <1>48 DEF GiveUpDoes, LastSame, Exists, ImpIs, RowIs
  <2>4. QED
    BY <2>2, <2>3, LastStays
<1>49. ASSUME NEW f \in File, RependDoes(f)
      PROVE  Last'
  <2>. SUFFICES ASSUME NEW g \in File, Exists(g)', obj'[g] = {},
                       hazard' \cap {"judgedEarly", "failedAdded", "latePublish"} = {}
       PROVE  OneCopy(g)' /\ ScanKnows(g)'
    BY DEF Last
  <2>1. Exists(g) /\ obj[g] = {}
    BY <1>1, <1>49 DEF RependDoes, Exists, ImpIs, RowIs
  <2>2. OneCopy(g) /\ ScanKnows(g)
    BY <2>1, <1>49 DEF RependDoes, Last, ImpIs, RowIs
  <2>3. LastSame(g)
    BY <1>1, <1>2, <1>5, <1>6, <2>1, <1>49 DEF RependDoes, LastSame, Exists, ImpIs, RowIs
  <2>4. QED
    BY <2>2, <2>3, LastStays
<1>50. ASSUME NEW f \in File, EditSourceDoes(f)
      PROVE  Last'
  <2>. SUFFICES ASSUME NEW g \in File, Exists(g)', obj'[g] = {},
                       hazard' \cap {"judgedEarly", "failedAdded", "latePublish"} = {}
       PROVE  OneCopy(g)' /\ ScanKnows(g)'
    BY DEF Last
  <2>1. Exists(g) /\ obj[g] = {}
    BY <1>1, <1>50 DEF EditSourceDoes, Exists
  <2>2. OneCopy(g) /\ ScanKnows(g)
    BY <2>1, <1>50 DEF EditSourceDoes, Last
  <2>3. LastSame(g)
    BY <1>1, <1>2, <1>5, <1>6, <2>1, <1>50 DEF EditSourceDoes, LastSame, Exists
  <2>4. QED
    BY <2>2, <2>3, LastStays
<1>51. ASSUME AbortDoes
      PROVE  Last'
  <2>. SUFFICES ASSUME NEW g \in File, Exists(g)', obj'[g] = {},
                       hazard' \cap {"judgedEarly", "failedAdded", "latePublish"} = {}
       PROVE  OneCopy(g)' /\ ScanKnows(g)'
    BY DEF Last
  <2>1. Exists(g) /\ obj[g] = {}
    BY <1>1, <1>51 DEF AbortDoes, Exists
  <2>2. OneCopy(g) /\ ScanKnows(g)
    BY <2>1, <1>51 DEF AbortDoes, Last
  <2>3. LastSame(g)
    BY <1>1, <1>2, <1>5, <1>6, <2>1, <1>51 DEF AbortDoes, LastSame, Exists
  <2>4. QED
    BY <2>2, <2>3, LastStays
<1>52. ASSUME KillDoes
      PROVE  Last'
  <2>. SUFFICES ASSUME NEW g \in File, Exists(g)', obj'[g] = {},
                       hazard' \cap {"judgedEarly", "failedAdded", "latePublish"} = {}
       PROVE  OneCopy(g)' /\ ScanKnows(g)'
    BY DEF Last
  <2>1. Exists(g) /\ obj[g] = {} /\ UNCHANGED file
    BY <1>52 DEF KillDoes, Exists
  <2>2. OneCopy(g) /\ scan'.list = {}
    BY <2>1, <1>52 DEF KillDoes, Last, ScanIs
  <2>3. ASSUME NEW y \in Type
        PROVE  disk'[g][y] = disk[g][y]
    <3>1. ASSUME NEW t \in Token, job[t].f = g, Late(t) \subseteq hazard'
          PROVE  FALSE
      BY <1>5, <2>1, <3>1 DEF Late, Exists
    <3>2. QED
      BY <3>1, <1>52 DEF KillDoes
  <2>4. QED
    BY <2>1, <2>2, <2>3 DEF OneCopy, ScanKnows
<1>53. ASSUME DropReadDoes
      PROVE  Last'
  <2>. SUFFICES ASSUME NEW g \in File, Exists(g)', obj'[g] = {},
                       hazard' \cap {"judgedEarly", "failedAdded", "latePublish"} = {}
       PROVE  OneCopy(g)' /\ ScanKnows(g)'
    BY DEF Last
  <2>1. Exists(g) /\ obj[g] = {}
    BY <1>1, <1>53 DEF DropReadDoes, Exists
  <2>2. OneCopy(g) /\ ScanKnows(g)
    BY <2>1, <1>53 DEF DropReadDoes, Last
  <2>3. LastSame(g)
    BY <1>1, <1>2, <1>5, <1>6, <2>1, <1>53 DEF DropReadDoes, LastSame, Exists
  <2>4. QED
    BY <2>2, <2>3, LastStays
<1>54. ASSUME failImportDoes
      PROVE  Last'
  <2>. SUFFICES ASSUME NEW g \in File, Exists(g)', obj'[g] = {},
                       hazard' \cap {"judgedEarly", "failedAdded", "latePublish"} = {}
       PROVE  OneCopy(g)' /\ ScanKnows(g)'
    BY DEF Last
  <2>1. Exists(g) /\ obj[g] = {}
    BY <1>1, <1>54 DEF failImportDoes, Exists, RowIs
  <2>2. OneCopy(g) /\ ScanKnows(g)
    BY <2>1, <1>54 DEF failImportDoes, Last, RowIs
  <2>3. LastSame(g)
    BY <1>1, <1>2, <1>5, <1>6, <2>1, <1>54 DEF failImportDoes, LastSame, Exists, RowIs
  <2>4. QED
    BY <2>2, <2>3, LastStays
<1>55. ASSUME NEW f \in File, NEW y \in Type, DropBytesDoes(f, y)
      PROVE  Last'
  <2>. SUFFICES ASSUME NEW g \in File, Exists(g)', obj'[g] = {},
                       hazard' \cap {"judgedEarly", "failedAdded", "latePublish"} = {}
       PROVE  OneCopy(g)' /\ ScanKnows(g)'
    BY DEF Last
  <2>1. Exists(g) /\ obj[g] = {}
    BY <1>1, <1>55 DEF DropBytesDoes, Exists, removeNow
  <2>2. OneCopy(g) /\ ScanKnows(g)
    BY <2>1, <1>55 DEF DropBytesDoes, Last, removeNow
  <2>3. LastSame(g)
    BY <1>1, <1>2, <1>5, <1>6, <2>1, <1>55 DEF DropBytesDoes, LastSame, Exists, removeNow, Dropped
  <2>4. QED
    BY <2>2, <2>3, LastStays
<1>56. ASSUME deleteDirectoryDoes
      PROVE  Last'
  <2>. SUFFICES ASSUME NEW g \in File, Exists(g)', obj'[g] = {},
                       hazard' \cap {"judgedEarly", "failedAdded", "latePublish"} = {}
       PROVE  OneCopy(g)' /\ ScanKnows(g)'
    BY DEF Last
  <2>1. Exists(g) /\ obj[g] = {}
    BY <1>1, <1>56 DEF deleteDirectoryDoes, Exists
  <2>2. OneCopy(g) /\ ScanKnows(g)
    BY <2>1, <1>56 DEF deleteDirectoryDoes, Last
  <2>3. LastSame(g)
    BY <1>1, <1>2, <1>5, <1>6, <2>1, <1>56 DEF deleteDirectoryDoes, LastSame, Exists
  <2>4. QED
    BY <2>2, <2>3, LastStays
<1>57. QED
  BY <1>7, <1>8, <1>9, <1>10, <1>11, <1>12, <1>13, <1>14, <1>15, <1>16, <1>17, <1>18, <1>19,
    <1>20, <1>21, <1>22, <1>23, <1>24, <1>25, <1>26, <1>27, <1>28, <1>29, <1>30, <1>31, <1>32,
    <1>33, <1>34, <1>35, <1>36, <1>37, <1>38, <1>39, <1>40, <1>41, <1>42, <1>43, <1>44, <1>45,
    <1>46, <1>47, <1>48, <1>49, <1>50, <1>51, <1>52, <1>53, <1>54, <1>55, <1>56 DEF Effect

\* Nothing that matters to a quiet file has changed but for the better.
QuietSame(f) ==
  /\ file'[f].type = file[f].type /\ disk'[f] = disk[f] /\ mobile' = mobile
  /\ f \in fs' => f \in fs
  /\ holder'[f] = holder[f] /\ dl'[f] = dl[f]
  /\ \A y \in Type : /\ <<f, y>> \in scan'.live \union evict'.rows =>
                           <<f, y>> \in scan.live \union evict.rows
                     /\ evict'.pc \in {"try", "row"} /\ evict'.on = <<f, y>> =>
                          \/ evict.pc \in {"try", "row"} /\ evict.on = <<f, y>>
                          \/ <<f, y>> \in evict.rows

\* So it stays quiet.
LEMMA QuietStays ==
  ASSUME NEW f \in File, QuietAt(f), QuietSame(f)
  PROVE  QuietAt(f)'
BY DEF QuietAt, QuietSame, Slot

\* Quiet.
LEMMA QuietKept ==
  ASSUME Types, Types', Claims, Rows, Unmade, Locks, Moves, Dropped, Hashed, Hashes, InPlace,
    Quiet, Effect
  PROVE  Quiet'
PROOF
<1>1. file \in [File -> FileRow] /\ imp \in [File -> ImportRow] /\ job \in [Token -> JobRow] /\
  disk \in [File -> [Type -> Bytes]] /\ scan \in ScanState /\ evict \in EvictState /\ dl \in
  [File -> DownloadRow] /\ holder \in [File -> {"free", "download", "evict"}]
  BY DEF Types
<1>2. \A t \in Token : job[t].f \in File /\ job[t].type \in Type /\ job[t].got \in Bytes
  BY DEF Types, JobRow
<1>3. \A f \in File : file[f].type \in Type /\ file[f].hash \in Bytes /\ dl[f].type \in Type
  BY DEF Types, FileRow, DownloadRow
<1>4. Classify \in [File -> Type] /\ "none" \notin Type
  BY ImportsAssumption, CopiesAssumption
<1>5. \A t \in Token : Owns(t) => file[job[t].f].state = "none"
  BY Owners
<1>6. \A t \in Token : job[t].pc \in {"start", "resolve", "hash", "hashed", "moved", "final",
  "dup"} => file[job[t].f].state = "none"
  BY Owners
<1>7. ASSUME NEW f \in File, GetFileUriDoes(f)
      PROVE  Quiet'
  <2>. SUFFICES ASSUME hazard' \subseteq {"movedUnrecorded", "switched", "retried"}
       PROVE  /\ \A g \in File, v, w \in Type : <<g, v, w>> \notin owed'
              /\ \A g \in File : Exists(g)' => QuietAt(g)'
    BY DEF Quiet
  <2>1. hazard \subseteq {"movedUnrecorded", "switched", "retried"}
    BY <1>7 DEF GetFileUriDoes, getFsFileUri
  <2>2. /\ \A g \in File, v, w \in Type : <<g, v, w>> \notin owed
        /\ \A g \in File : Exists(g) => QuietAt(g)
    BY <2>1 DEF Quiet
  <2>3. \A g \in File, v, w \in Type : <<g, v, w>> \notin owed'
    BY <1>1, <1>3, <1>4, <2>2, <1>7, ZenonT(60) DEF GetFileUriDoes
  <2>. SUFFICES ASSUME NEW g \in File, Exists(g)'
       PROVE  QuietAt(g)'
    BY <2>3
  <2>4. Exists(g) /\ QuietAt(g)
    BY <1>1, <2>2, <1>7 DEF GetFileUriDoes, Exists, getFsFileUri
  <2>5. CASE g # f
    <3>1. QuietSame(g)
      BY <1>1, <2>4, <2>5, <1>7 DEF GetFileUriDoes, QuietSame, Exists, getFsFileUri
    <3>2. QED
      BY <2>4, <3>1, QuietStays
  <2>6. CASE g = f
    <3>1. UNCHANGED <<file, holder, disk, dl, mobile, scan, evict>>
      BY <1>7 DEF GetFileUriDoes
    <3>2. \/ fs' = fs \ {f}
          \/ fs' = fs \union {f} /\ Slot(f) # "none" /\ Slot(f) # "part"
      BY <2>6, <1>7 DEF GetFileUriDoes, getFsFileUri, Recorded, Slot
    <3>3. QED
      BY <2>4, <2>6, <3>1, <3>2 DEF QuietAt, Slot
  <2>7. QED
    BY <2>5, <2>6
<1>8. ASSUME NEW f \in File, DownloadStartDoes(f)
      PROVE  Quiet'
  <2>. SUFFICES ASSUME hazard' \subseteq {"movedUnrecorded", "switched", "retried"}
       PROVE  /\ \A g \in File, v, w \in Type : <<g, v, w>> \notin owed'
              /\ \A g \in File : Exists(g)' => QuietAt(g)'
    BY DEF Quiet
  <2>1. hazard \subseteq {"movedUnrecorded", "switched", "retried"}
    BY <1>8 DEF DownloadStartDoes, DlIs
  <2>2. /\ \A g \in File, v, w \in Type : <<g, v, w>> \notin owed
        /\ \A g \in File : Exists(g) => QuietAt(g)
    BY <2>1 DEF Quiet
  <2>3. \A g \in File, v, w \in Type : <<g, v, w>> \notin owed'
    BY <1>1, <1>3, <1>4, <2>2, <1>8, ZenonT(60) DEF DownloadStartDoes
  <2>. SUFFICES ASSUME NEW g \in File, Exists(g)'
       PROVE  QuietAt(g)'
    BY <2>3
  <2>4. Exists(g) /\ QuietAt(g)
    BY <1>1, <2>2, <1>8 DEF DownloadStartDoes, Exists, DlIs
  <2>5. CASE g # f
    <3>1. QuietSame(g)
      BY <1>1, <2>4, <2>5, <1>8 DEF DownloadStartDoes, QuietSame, Exists, DlIs
    <3>2. QED
      BY <2>4, <3>1, QuietStays
  <2>6. CASE g = f
    <3>1. UNCHANGED <<file, holder, disk, mobile, scan, evict>>
      BY <1>8 DEF DownloadStartDoes
    <3>2. file[f].hash # "none"
      BY <2>4, <2>6 DEF Hashes
    <3>3. \/ Slot(f) = file[f].hash /\ fs' = fs \union {f} /\ dl' = dl /\ dl[f].pc = "none"
          \/ fs' = fs /\ dl'[f].pc = "wait" /\ dl'[f].type = file[f].type
      BY <1>8 DEF DownloadStartDoes, DlIs
    <3>4. QED
      BY <2>4, <2>6, <3>1, <3>2, <3>3 DEF QuietAt, Slot
  <2>7. QED
    BY <2>5, <2>6
<1>9. ASSUME NEW f \in File, DownloadOpensDoes(f)
      PROVE  Quiet'
  <2>. SUFFICES ASSUME hazard' \subseteq {"movedUnrecorded", "switched", "retried"}
       PROVE  /\ \A g \in File, v, w \in Type : <<g, v, w>> \notin owed'
              /\ \A g \in File : Exists(g)' => QuietAt(g)'
    BY DEF Quiet
  <2>1. hazard \subseteq {"movedUnrecorded", "switched", "retried"}
    BY <1>9 DEF DownloadOpensDoes, DlIs
  <2>2. /\ \A g \in File, v, w \in Type : <<g, v, w>> \notin owed
        /\ \A g \in File : Exists(g) => QuietAt(g)
    BY <2>1 DEF Quiet
  <2>3. \A g \in File, v, w \in Type : <<g, v, w>> \notin owed'
    BY <1>1, <1>3, <1>4, <2>2, <1>9, ZenonT(60) DEF DownloadOpensDoes
  <2>. SUFFICES ASSUME NEW g \in File, Exists(g)'
       PROVE  QuietAt(g)'
    BY <2>3
  <2>4. Exists(g) /\ QuietAt(g)
    BY <1>1, <2>2, <1>9 DEF DownloadOpensDoes, Exists, DlIs
  <2>5. CASE g # f
    <3>1. QuietSame(g)
      BY <1>1, <2>4, <2>5, <1>9 DEF DownloadOpensDoes, QuietSame, Exists, DlIs
    <3>2. QED
      BY <2>4, <3>1, QuietStays
  <2>6. CASE g = f
    <3>1. UNCHANGED <<file, fs, mobile, scan, evict>> /\ holder[f] # "evict"
      BY <1>9 DEF DownloadOpensDoes
    <3>2. dl'[f].pc = "write" /\ dl'[f].type = dl[f].type /\ dl[f].type = file[f].type
      BY <2>4, <2>6, <1>9 DEF DownloadOpensDoes, DlIs, QuietAt
    <3>3. \/ disk' = disk /\ mobile
          \/ disk' = [disk EXCEPT ![f][file[f].type] = "part"] /\ f \notin fs
      BY <3>2, <1>9 DEF DownloadOpensDoes
    <3>4. CASE disk' = disk /\ mobile
      BY <2>4, <2>6, <3>1, <3>2, <3>4 DEF QuietAt, Slot
    <3>5. CASE disk' = [disk EXCEPT ![f][file[f].type] = "part"] /\ f \notin fs
      BY <1>1, <1>3, <2>4, <2>6, <3>1, <3>2, <3>5, WrittenBytes DEF QuietAt, Slot
    <3>6. QED
      BY <3>3, <3>4, <3>5
  <2>7. QED
    BY <2>5, <2>6
<1>10. ASSUME NEW f \in File, DownloadArrivesDoes(f)
      PROVE  Quiet'
  <2>. SUFFICES ASSUME hazard' \subseteq {"movedUnrecorded", "switched", "retried"}
       PROVE  /\ \A g \in File, v, w \in Type : <<g, v, w>> \notin owed'
              /\ \A g \in File : Exists(g)' => QuietAt(g)'
    BY DEF Quiet
  <2>1. hazard \subseteq {"movedUnrecorded", "switched", "retried"}
    BY <1>10 DEF DownloadArrivesDoes, DlIs
  <2>2. /\ \A g \in File, v, w \in Type : <<g, v, w>> \notin owed
        /\ \A g \in File : Exists(g) => QuietAt(g)
    BY <2>1 DEF Quiet
  <2>3. \A g \in File, v, w \in Type : <<g, v, w>> \notin owed'
    BY <1>1, <1>3, <1>4, <2>2, <1>10, ZenonT(60) DEF DownloadArrivesDoes
  <2>. SUFFICES ASSUME NEW g \in File, Exists(g)'
       PROVE  QuietAt(g)'
    BY <2>3
  <2>4. Exists(g) /\ QuietAt(g)
    BY <1>1, <2>2, <1>10 DEF DownloadArrivesDoes, Exists, DlIs
  <2>5. CASE g # f
    <3>1. QuietSame(g)
      BY <1>1, <2>4, <2>5, <1>10 DEF DownloadArrivesDoes, QuietSame, Exists, DlIs
    <3>2. QED
      BY <2>4, <3>1, QuietStays
  <2>6. CASE g = f
    <3>1. UNCHANGED <<file, fs, holder, mobile, scan, evict>>
      BY <1>10 DEF DownloadArrivesDoes
    <3>2. dl'[f].pc = "wrote" /\ dl'[f].type = dl[f].type /\ dl[f].type = file[f].type
      BY <2>4, <2>6, <1>10 DEF DownloadArrivesDoes, DlIs, QuietAt
    <3>3. disk' = [disk EXCEPT ![f][file[f].type] = file[f].hash] /\ file[f].hash # "none"
      BY <2>4, <2>6, <3>2, <1>10 DEF DownloadArrivesDoes, Hashes
    <3>4. QED
      BY <1>1, <1>3, <2>4, <2>6, <3>1, <3>2, <3>3, WrittenBytes DEF QuietAt, Slot
  <2>7. QED
    BY <2>5, <2>6
<1>11. ASSUME NEW f \in File, DownloadRecordsDoes(f)
      PROVE  Quiet'
  <2>. SUFFICES ASSUME hazard' \subseteq {"movedUnrecorded", "switched", "retried"}
       PROVE  /\ \A g \in File, v, w \in Type : <<g, v, w>> \notin owed'
              /\ \A g \in File : Exists(g)' => QuietAt(g)'
    BY DEF Quiet
  <2>1. hazard \subseteq {"movedUnrecorded", "switched", "retried"}
    BY <1>11 DEF DownloadRecordsDoes, DlIs, Recorded
  <2>2. /\ \A g \in File, v, w \in Type : <<g, v, w>> \notin owed
        /\ \A g \in File : Exists(g) => QuietAt(g)
    BY <2>1 DEF Quiet
  <2>3. \A g \in File, v, w \in Type : <<g, v, w>> \notin owed'
    BY <1>1, <1>3, <1>4, <2>2, <1>11, ZenonT(60) DEF DownloadRecordsDoes
  <2>. SUFFICES ASSUME NEW g \in File, Exists(g)'
       PROVE  QuietAt(g)'
    BY <2>3
  <2>4. Exists(g) /\ QuietAt(g)
    BY <1>1, <2>2, <1>11 DEF DownloadRecordsDoes, Exists, DlIs, Recorded
  <2>5. CASE g # f
    <3>1. QuietSame(g)
      BY <1>1, <2>4, <2>5, <1>11 DEF DownloadRecordsDoes, QuietSame, Exists, DlIs, Recorded
    <3>2. QED
      BY <2>4, <3>1, QuietStays
  <2>6. CASE g = f
    <3>1. UNCHANGED <<file, disk, mobile, scan, evict>>
      BY <1>11 DEF DownloadRecordsDoes
    <3>2. dl'[f].pc = "none" /\ Slot(f) # "none"
      BY <2>4, <2>6, <1>11 DEF DownloadRecordsDoes, DlIs, QuietAt
    <3>3. QED
      BY <2>4, <2>6, <3>1, <3>2 DEF QuietAt, Slot
  <2>7. QED
    BY <2>5, <2>6
<1>12. ASSUME NEW f \in File, DownloadStopsDoes(f)
      PROVE  Quiet'
  <2>. SUFFICES ASSUME hazard' \subseteq {"movedUnrecorded", "switched", "retried"}
       PROVE  /\ \A g \in File, v, w \in Type : <<g, v, w>> \notin owed'
              /\ \A g \in File : Exists(g)' => QuietAt(g)'
    BY DEF Quiet
  <2>1. hazard \subseteq {"movedUnrecorded", "switched", "retried"}
    BY <1>12 DEF DownloadStopsDoes, DlIs
  <2>2. /\ \A g \in File, v, w \in Type : <<g, v, w>> \notin owed
        /\ \A g \in File : Exists(g) => QuietAt(g)
    BY <2>1 DEF Quiet
  <2>3. \A g \in File, v, w \in Type : <<g, v, w>> \notin owed'
    BY <1>1, <1>3, <1>4, <2>2, <1>12, ZenonT(60) DEF DownloadStopsDoes
  <2>. SUFFICES ASSUME NEW g \in File, Exists(g)'
       PROVE  QuietAt(g)'
    BY <2>3
  <2>4. Exists(g) /\ QuietAt(g)
    BY <1>1, <2>2, <1>12 DEF DownloadStopsDoes, Exists, DlIs
  <2>5. CASE g # f
    <3>1. QuietSame(g)
      BY <1>1, <2>4, <2>5, <1>12 DEF DownloadStopsDoes, QuietSame, Exists, DlIs
    <3>2. QED
      BY <2>4, <3>1, QuietStays
  <2>6. CASE g = f
    <3>1. UNCHANGED <<file, fs, mobile, scan, evict>> /\ dl'[f].pc = "none"
      BY <1>12 DEF DownloadStopsDoes, DlIs
    <3>2. holder'[f] # "evict" => holder[f] # "evict"
      BY <1>1, <1>12 DEF DownloadStopsDoes, Locks
    <3>3. \/ disk' = disk
          \/ disk' = [disk EXCEPT ![f][file[f].type] = "none"] /\ f \notin fs
      BY <2>4, <2>6, <1>12 DEF DownloadStopsDoes, QuietAt
    <3>4. CASE disk' = disk
      BY <2>4, <2>6, <3>1, <3>2, <3>4 DEF QuietAt, Slot
    <3>5. CASE disk' = [disk EXCEPT ![f][file[f].type] = "none"] /\ f \notin fs
      BY <1>1, <1>3, <2>4, <2>6, <3>1, <3>5, WrittenBytes DEF QuietAt, Slot
    <3>6. QED
      BY <3>3, <3>4, <3>5
  <2>7. QED
    BY <2>5, <2>6
<1>13. ASSUME NEW f \in File, EditDoes(f)
      PROVE  Quiet'
  <2>. SUFFICES ASSUME hazard' \subseteq {"movedUnrecorded", "switched", "retried"}
       PROVE  /\ \A g \in File, v, w \in Type : <<g, v, w>> \notin owed'
              /\ \A g \in File : Exists(g)' => QuietAt(g)'
    BY DEF Quiet
  <2>1. hazard \subseteq {"movedUnrecorded", "switched", "retried"}
    BY <1>13 DEF EditDoes, FileIs
  <2>2. /\ \A g \in File, v, w \in Type : <<g, v, w>> \notin owed
        /\ \A g \in File : Exists(g) => QuietAt(g)
    BY <2>1 DEF Quiet
  <2>3. \A g \in File, v, w \in Type : <<g, v, w>> \notin owed'
    BY <1>1, <1>3, <1>4, <2>2, <1>13, ZenonT(60) DEF EditDoes
  <2>. SUFFICES ASSUME NEW g \in File, Exists(g)'
       PROVE  QuietAt(g)'
    BY <2>3
  <2>4. Exists(g) /\ QuietAt(g)
    BY <1>1, <2>2, <1>13 DEF EditDoes, Exists, FileIs
  <2>5. QuietSame(g)
    BY <1>1, <1>2, <1>5, <1>6, <2>4, <1>13 DEF EditDoes, QuietSame, Exists, FileIs
  <2>6. QED
    BY <2>4, <2>5, QuietStays
<1>14. ASSUME NEW f \in File, TombstoneDoes(f)
      PROVE  Quiet'
  <2>. SUFFICES ASSUME hazard' \subseteq {"movedUnrecorded", "switched", "retried"}
       PROVE  /\ \A g \in File, v, w \in Type : <<g, v, w>> \notin owed'
              /\ \A g \in File : Exists(g)' => QuietAt(g)'
    BY DEF Quiet
  <2>1. hazard \subseteq {"movedUnrecorded", "switched", "retried"}
    BY <1>14 DEF TombstoneDoes, FileIs
  <2>2. /\ \A g \in File, v, w \in Type : <<g, v, w>> \notin owed
        /\ \A g \in File : Exists(g) => QuietAt(g)
    BY <2>1 DEF Quiet
  <2>3. \A g \in File, v, w \in Type : <<g, v, w>> \notin owed'
    BY <1>1, <1>3, <1>4, <2>2, <1>14, ZenonT(60) DEF TombstoneDoes
  <2>. SUFFICES ASSUME NEW g \in File, Exists(g)'
       PROVE  QuietAt(g)'
    BY <2>3
  <2>4. Exists(g) /\ QuietAt(g)
    BY <1>1, <2>2, <1>14 DEF TombstoneDoes, Exists, FileIs
  <2>5. QuietSame(g)
    BY <1>1, <1>2, <1>5, <1>6, <2>4, <1>14 DEF TombstoneDoes, QuietSame, Exists, FileIs
  <2>6. QED
    BY <2>4, <2>5, QuietStays
<1>15. ASSUME NEW f \in File, UploadDoes(f)
      PROVE  Quiet'
  <2>. SUFFICES ASSUME hazard' \subseteq {"movedUnrecorded", "switched", "retried"}
       PROVE  /\ \A g \in File, v, w \in Type : <<g, v, w>> \notin owed'
              /\ \A g \in File : Exists(g)' => QuietAt(g)'
    BY DEF Quiet
  <2>1. hazard \subseteq {"movedUnrecorded", "switched", "retried"}
    BY <1>15 DEF UploadDoes
  <2>2. /\ \A g \in File, v, w \in Type : <<g, v, w>> \notin owed
        /\ \A g \in File : Exists(g) => QuietAt(g)
    BY <2>1 DEF Quiet
  <2>3. \A g \in File, v, w \in Type : <<g, v, w>> \notin owed'
    BY <1>1, <1>3, <1>4, <2>2, <1>15, ZenonT(60) DEF UploadDoes
  <2>. SUFFICES ASSUME NEW g \in File, Exists(g)'
       PROVE  QuietAt(g)'
    BY <2>3
  <2>4. Exists(g) /\ QuietAt(g)
    BY <1>1, <2>2, <1>15 DEF UploadDoes, Exists
  <2>5. QuietSame(g)
    BY <1>1, <1>2, <1>5, <1>6, <2>4, <1>15 DEF UploadDoes, QuietSame, Exists
  <2>6. QED
    BY <2>4, <2>5, QuietStays
<1>16. ASSUME NEW f \in File, NEW y \in Type, RetypeDoes(f, y)
      PROVE  Quiet'
  <2>1. "retyped" \in hazard'
    BY <1>16 DEF RetypeDoes
  <2>2. QED
    BY <2>1 DEF Quiet
<1>17. ASSUME NEW f \in File, NEW y \in Type, removeTombstonedDoes(f, y)
      PROVE  Quiet'
  <2>. SUFFICES ASSUME hazard' \subseteq {"movedUnrecorded", "switched", "retried"}
       PROVE  /\ \A g \in File, v, w \in Type : <<g, v, w>> \notin owed'
              /\ \A g \in File : Exists(g)' => QuietAt(g)'
    BY DEF Quiet
  <2>1. hazard \subseteq {"movedUnrecorded", "switched", "retried"}
    BY <1>17 DEF removeTombstonedDoes, removeNow
  <2>2. /\ \A g \in File, v, w \in Type : <<g, v, w>> \notin owed
        /\ \A g \in File : Exists(g) => QuietAt(g)
    BY <2>1 DEF Quiet
  <2>3. \A g \in File, v, w \in Type : <<g, v, w>> \notin owed'
    BY <1>1, <1>3, <1>4, <2>2, <1>17, ZenonT(60) DEF removeTombstonedDoes
  <2>. SUFFICES ASSUME NEW g \in File, Exists(g)'
       PROVE  QuietAt(g)'
    BY <2>3
  <2>4. Exists(g) /\ QuietAt(g)
    BY <1>1, <2>2, <1>17 DEF removeTombstonedDoes, Exists, removeNow
  <2>5. QuietSame(g)
    BY <1>1, <1>2, <1>5, <1>6, <2>4, <1>17 DEF removeTombstonedDoes, QuietSame, Exists, removeNow, Moves
  <2>6. QED
    BY <2>4, <2>5, QuietStays
<1>18. ASSUME ScanJudgeDoes
      PROVE  Quiet'
  <2>. SUFFICES ASSUME hazard' \subseteq {"movedUnrecorded", "switched", "retried"}
       PROVE  /\ \A g \in File, v, w \in Type : <<g, v, w>> \notin owed'
              /\ \A g \in File : Exists(g)' => QuietAt(g)'
    BY DEF Quiet
  <2>1. hazard \subseteq {"movedUnrecorded", "switched", "retried"}
    BY <1>18 DEF ScanJudgeDoes, ScanIs
  <2>2. /\ \A g \in File, v, w \in Type : <<g, v, w>> \notin owed
        /\ \A g \in File : Exists(g) => QuietAt(g)
    BY <2>1 DEF Quiet
  <2>3. \A g \in File, v, w \in Type : <<g, v, w>> \notin owed'
    BY <1>1, <1>3, <1>4, <2>2, <1>18, ZenonT(60) DEF ScanJudgeDoes
  <2>. SUFFICES ASSUME NEW g \in File, Exists(g)'
       PROVE  QuietAt(g)'
    BY <2>3
  <2>4. Exists(g) /\ QuietAt(g) /\ UNCHANGED <<file, disk, fs, holder, dl, mobile, evict>>
    BY <2>2, <1>18 DEF ScanJudgeDoes, Exists
  <2>5. \A w \in Type : <<g, w>> \in scan'.live => w = file[g].type
    BY <1>18 DEF ScanJudgeDoes, ScanIs
  <2>6. QED
    BY <2>4, <2>5 DEF QuietAt, Slot
<1>19. ASSUME RemoveTempDoes
      PROVE  Quiet'
  <2>. SUFFICES ASSUME hazard' \subseteq {"movedUnrecorded", "switched", "retried"}
       PROVE  /\ \A g \in File, v, w \in Type : <<g, v, w>> \notin owed'
              /\ \A g \in File : Exists(g)' => QuietAt(g)'
    BY DEF Quiet
  <2>1. hazard \subseteq {"movedUnrecorded", "switched", "retried"}
    BY <1>19 DEF RemoveTempDoes, ScanIs
  <2>2. /\ \A g \in File, v, w \in Type : <<g, v, w>> \notin owed
        /\ \A g \in File : Exists(g) => QuietAt(g)
    BY <2>1 DEF Quiet
  <2>3. \A g \in File, v, w \in Type : <<g, v, w>> \notin owed'
    BY <1>1, <1>3, <1>4, <2>2, <1>19, ZenonT(60) DEF RemoveTempDoes
  <2>. SUFFICES ASSUME NEW g \in File, Exists(g)'
       PROVE  QuietAt(g)'
    BY <2>3
  <2>4. Exists(g) /\ QuietAt(g)
    BY <1>1, <2>2, <1>19 DEF RemoveTempDoes, Exists, ScanIs
  <2>5. QuietSame(g)
    BY <1>1, <1>2, <1>5, <1>6, <2>4, <1>19 DEF RemoveTempDoes, QuietSame, Exists, ScanIs
  <2>6. QED
    BY <2>4, <2>5, QuietStays
<1>20. ASSUME NEW f \in File, NEW y \in Type, ScanEntryDoes(f, y)
      PROVE  Quiet'
  <2>. SUFFICES ASSUME hazard' \subseteq {"movedUnrecorded", "switched", "retried"}
       PROVE  /\ \A g \in File, v, w \in Type : <<g, v, w>> \notin owed'
              /\ \A g \in File : Exists(g)' => QuietAt(g)'
    BY DEF Quiet
  <2>1. hazard \subseteq {"movedUnrecorded", "switched", "retried"}
    BY <1>20 DEF ScanEntryDoes, Misjudged, Recorded, ScanIs, ScansOn, getFsFileUri, removeNow
  <2>2. /\ \A g \in File, v, w \in Type : <<g, v, w>> \notin owed
        /\ \A g \in File : Exists(g) => QuietAt(g)
    BY <2>1 DEF Quiet
  <2>3. \A g \in File, v, w \in Type : <<g, v, w>> \notin owed'
    BY <1>1, <1>3, <1>4, <2>2, <1>20, ZenonT(60) DEF ScanEntryDoes
  <2>. SUFFICES ASSUME NEW g \in File, Exists(g)'
       PROVE  QuietAt(g)'
    BY <2>3
  <2>4. Exists(g) /\ QuietAt(g)
    BY <1>1, <2>2, <1>20 DEF ScanEntryDoes, Exists, Misjudged, Recorded, ScanIs, ScansOn, getFsFileUri, removeNow
  <2>5. CASE g # f
    <3>1. QuietSame(g)
      BY <1>1, <2>4, <2>5, <1>20 DEF ScanEntryDoes, QuietSame, Exists, Misjudged, Recorded, ScanIs, ScansOn, getFsFileUri, removeNow
    <3>2. QED
      BY <2>4, <3>1, QuietStays
  <2>6. CASE g = f
    <3>1. /\ UNCHANGED <<file, holder, dl, mobile, evict>> /\ scan'.live = scan.live
          /\ \A w \in Type : <<f, w>> \in scan.live => w = file[f].type
      BY <2>4, <2>6, <1>20 DEF ScanEntryDoes, ScansOn, ScanIs, QuietAt
    <3>2. \A w \in Type \ {file[f].type} : disk[f][w] = "none"
      BY <2>4, <2>6 DEF QuietAt
    <3>3. CASE disk' = disk /\ fs' = fs
      BY <2>4, <2>6, <3>1, <3>3 DEF QuietAt, Slot
    <3>4. CASE <<f, y>> \in scan.live /\ getFsFileUri(f, y) /\ disk' = disk
      <4>1. \/ fs' = fs \ {f}
            \/ fs' = fs \union {f} /\ Slot(f) # "none" /\ Slot(f) # "part"
        BY <3>1, <3>4 DEF getFsFileUri, Recorded, Slot
      <4>2. QED
        BY <2>4, <2>6, <3>1, <3>4, <4>1 DEF QuietAt, Slot
    <3>5. ASSUME NEW z \in Type \ {y}, <<f, z>> \in scan.live,
                 disk' = [disk EXCEPT ![f][y] = "none"], fs' = fs
          PROVE  QuietAt(f)'
      <4>1. disk[f][y] = "none"
        BY <3>1, <3>2, <3>5
      <4>2. disk' = disk
        BY <1>1, <3>5, <4>1
      <4>3. QED
        BY <2>4, <2>6, <3>1, <3>5, <4>2 DEF QuietAt, Slot
    <3>6. ASSUME NEW z \in Type \ {y}, <<f, z>> \in scan.live, disk[f][y] # "none" \/ disk[f][z] # "none",
                 disk' = IF disk[f][y] = "none" THEN disk
                         ELSE [disk EXCEPT ![f][z] = disk[f][y], ![f][y] = "none"],
                 fs' = fs \union {f}, hazard' = hazard \union Recorded(disk'[f][file[f].type])
          PROVE  QuietAt(f)'
      <4>1. z = file[f].type /\ disk[f][y] = "none"
        BY <3>1, <3>2, <3>6
      <4>2. disk' = disk /\ Slot(f) # "none"
        BY <3>6, <4>1 DEF Slot
      <4>3. Slot(f) # "part"
        BY <3>6, <4>2 DEF Recorded, Slot
      <4>4. QED
        BY <2>4, <2>6, <3>1, <3>6, <4>2, <4>3 DEF QuietAt, Slot
    <3>7. "judgedEarly" \notin hazard'
      OBVIOUS
    <3>8. Misjudged(f) = {"judgedEarly"}
      BY <2>4, <2>6 DEF Misjudged
    <3>9. hazard' # hazard \union Misjudged(f)
      BY <3>7, <3>8
    <3>10. QED
      BY <2>6, <3>3, <3>4, <3>5, <3>6, <3>9, <1>20 DEF ScanEntryDoes
  <2>7. QED
    BY <2>5, <2>6
<1>21. ASSUME ScanEndDoes
      PROVE  Quiet'
  <2>. SUFFICES ASSUME hazard' \subseteq {"movedUnrecorded", "switched", "retried"}
       PROVE  /\ \A g \in File, v, w \in Type : <<g, v, w>> \notin owed'
              /\ \A g \in File : Exists(g)' => QuietAt(g)'
    BY DEF Quiet
  <2>1. hazard \subseteq {"movedUnrecorded", "switched", "retried"}
    BY <1>21 DEF ScanEndDoes, ScanIs
  <2>2. /\ \A g \in File, v, w \in Type : <<g, v, w>> \notin owed
        /\ \A g \in File : Exists(g) => QuietAt(g)
    BY <2>1 DEF Quiet
  <2>3. \A g \in File, v, w \in Type : <<g, v, w>> \notin owed'
    BY <1>1, <1>3, <1>4, <2>2, <1>21, ZenonT(60) DEF ScanEndDoes
  <2>. SUFFICES ASSUME NEW g \in File, Exists(g)'
       PROVE  QuietAt(g)'
    BY <2>3
  <2>4. Exists(g) /\ QuietAt(g)
    BY <1>1, <2>2, <1>21 DEF ScanEndDoes, Exists, ScanIs
  <2>5. QuietSame(g)
    BY <1>1, <1>2, <1>5, <1>6, <2>4, <1>21 DEF ScanEndDoes, QuietSame, Exists, ScanIs
  <2>6. QED
    BY <2>4, <2>5, QuietStays
<1>22. ASSUME EvictReadDoes
      PROVE  Quiet'
  <2>. SUFFICES ASSUME hazard' \subseteq {"movedUnrecorded", "switched", "retried"}
       PROVE  /\ \A g \in File, v, w \in Type : <<g, v, w>> \notin owed'
              /\ \A g \in File : Exists(g)' => QuietAt(g)'
    BY DEF Quiet
  <2>1. hazard \subseteq {"movedUnrecorded", "switched", "retried"}
    BY <1>22 DEF EvictReadDoes, EvictIs
  <2>2. /\ \A g \in File, v, w \in Type : <<g, v, w>> \notin owed
        /\ \A g \in File : Exists(g) => QuietAt(g)
    BY <2>1 DEF Quiet
  <2>3. \A g \in File, v, w \in Type : <<g, v, w>> \notin owed'
    BY <1>1, <1>3, <1>4, <2>2, <1>22, ZenonT(60) DEF EvictReadDoes
  <2>. SUFFICES ASSUME NEW g \in File, Exists(g)'
       PROVE  QuietAt(g)'
    BY <2>3
  <2>4. Exists(g) /\ QuietAt(g) /\ UNCHANGED <<file, disk, fs, holder, dl, mobile, scan>>
    BY <2>2, <1>22 DEF EvictReadDoes, Exists
  <2>5. evict'.pc = "rows" /\ \A w \in Type : <<g, w>> \in evict'.rows => w = file[g].type
    BY <1>22 DEF EvictReadDoes, EvictIs
  <2>6. QED
    BY <2>4, <2>5 DEF QuietAt, Slot
<1>23. ASSUME NEW f \in File, NEW y \in Type, EvictCountDoes(f, y)
      PROVE  Quiet'
  <2>. SUFFICES ASSUME hazard' \subseteq {"movedUnrecorded", "switched", "retried"}
       PROVE  /\ \A g \in File, v, w \in Type : <<g, v, w>> \notin owed'
              /\ \A g \in File : Exists(g)' => QuietAt(g)'
    BY DEF Quiet
  <2>1. hazard \subseteq {"movedUnrecorded", "switched", "retried"}
    BY <1>23 DEF EvictCountDoes, EvictIs
  <2>2. /\ \A g \in File, v, w \in Type : <<g, v, w>> \notin owed
        /\ \A g \in File : Exists(g) => QuietAt(g)
    BY <2>1 DEF Quiet
  <2>3. \A g \in File, v, w \in Type : <<g, v, w>> \notin owed'
    BY <1>1, <1>3, <1>4, <2>2, <1>23, ZenonT(60) DEF EvictCountDoes
  <2>. SUFFICES ASSUME NEW g \in File, Exists(g)'
       PROVE  QuietAt(g)'
    BY <2>3
  <2>4. Exists(g) /\ QuietAt(g)
    BY <1>1, <2>2, <1>23 DEF EvictCountDoes, Exists, EvictIs
  <2>5. QuietSame(g)
    BY <1>1, <1>2, <1>5, <1>6, <2>4, <1>23 DEF EvictCountDoes, QuietSame, Exists, EvictIs
  <2>6. QED
    BY <2>4, <2>5, QuietStays
<1>24. ASSUME NEW f \in File, NEW y \in Type, EvictTryDoes(f, y)
      PROVE  Quiet'
  <2>. SUFFICES ASSUME hazard' \subseteq {"movedUnrecorded", "switched", "retried"}
       PROVE  /\ \A g \in File, v, w \in Type : <<g, v, w>> \notin owed'
              /\ \A g \in File : Exists(g)' => QuietAt(g)'
    BY DEF Quiet
  <2>1. hazard \subseteq {"movedUnrecorded", "switched", "retried"}
    BY <1>24 DEF EvictTryDoes, EvictIs
  <2>2. /\ \A g \in File, v, w \in Type : <<g, v, w>> \notin owed
        /\ \A g \in File : Exists(g) => QuietAt(g)
    BY <2>1 DEF Quiet
  <2>3. \A g \in File, v, w \in Type : <<g, v, w>> \notin owed'
    BY <1>1, <1>3, <1>4, <2>2, <1>24, ZenonT(60) DEF EvictTryDoes
  <2>. SUFFICES ASSUME NEW g \in File, Exists(g)'
       PROVE  QuietAt(g)'
    BY <2>3
  <2>4. Exists(g) /\ QuietAt(g)
    BY <1>1, <2>2, <1>24 DEF EvictTryDoes, Exists, EvictIs
  <2>5. CASE g # f
    <3>1. QuietSame(g)
      BY <1>1, <2>4, <2>5, <1>24 DEF EvictTryDoes, QuietSame, Exists, EvictIs
    <3>2. QED
      BY <2>4, <3>1, QuietStays
  <2>6. CASE g = f
    <3>1. UNCHANGED <<file, fs, mobile, scan, dl>> /\ evict'.rows = evict.rows /\ y = file[f].type
      BY <2>4, <2>6, <1>24 DEF EvictTryDoes, EvictIs, QuietAt
    <3>2. CASE UNCHANGED <<holder, disk>> /\ evict'.pc = "rows"
      BY <2>4, <2>6, <3>1, <3>2 DEF QuietAt, Slot
    <3>3. CASE /\ holder[f] = "free" /\ evict'.on = <<f, y>> /\ holder' = [holder EXCEPT ![f] = "evict"]
               /\ disk' = [disk EXCEPT ![f][y] = "none"]
      <4>1. dl[f].pc \notin {"write", "wrote"} /\ holder'[f] = "evict"
        BY <1>1, <3>3 DEF Locks
      <4>2. \A w \in Type \ {y} : disk'[f][w] = disk[f][w]
        BY <1>1, <3>3, WrittenBytes
      <4>3. \A w \in Type : evict'.on = <<f, w>> => w = y
        BY <3>3
      <4>4. QED
        BY <2>4, <2>6, <3>1, <4>1, <4>2, <4>3 DEF QuietAt, Slot
    <3>4. QED
      BY <3>2, <3>3, <1>24 DEF EvictTryDoes, EvictIs
  <2>7. QED
    BY <2>5, <2>6
<1>25. ASSUME NEW f \in File, NEW y \in Type, EvictRowDoes(f, y)
      PROVE  Quiet'
  <2>. SUFFICES ASSUME hazard' \subseteq {"movedUnrecorded", "switched", "retried"}
       PROVE  /\ \A g \in File, v, w \in Type : <<g, v, w>> \notin owed'
              /\ \A g \in File : Exists(g)' => QuietAt(g)'
    BY DEF Quiet
  <2>1. hazard \subseteq {"movedUnrecorded", "switched", "retried"}
    BY <1>25 DEF EvictRowDoes, EvictIs
  <2>2. /\ \A g \in File, v, w \in Type : <<g, v, w>> \notin owed
        /\ \A g \in File : Exists(g) => QuietAt(g)
    BY <2>1 DEF Quiet
  <2>3. \A g \in File, v, w \in Type : <<g, v, w>> \notin owed'
    BY <1>1, <1>3, <1>4, <2>2, <1>25, ZenonT(60) DEF EvictRowDoes
  <2>. SUFFICES ASSUME NEW g \in File, Exists(g)'
       PROVE  QuietAt(g)'
    BY <2>3
  <2>4. Exists(g) /\ QuietAt(g)
    BY <1>1, <2>2, <1>25 DEF EvictRowDoes, Exists, EvictIs
  <2>5. CASE g # f
    <3>1. QuietSame(g)
      BY <1>1, <2>4, <2>5, <1>25 DEF EvictRowDoes, QuietSame, Exists, EvictIs
    <3>2. QED
      BY <2>4, <3>1, QuietStays
  <2>6. CASE g = f
    <3>1. UNCHANGED <<file, disk, mobile, scan, dl>> /\ evict'.rows = evict.rows /\ evict'.pc = "rows" /\ f \notin fs'
      BY <1>25 DEF EvictRowDoes, EvictIs
    <3>2. QED
      BY <2>4, <2>6, <3>1 DEF QuietAt, Slot
  <2>7. QED
    BY <2>5, <2>6
<1>26. ASSUME EvictEndDoes
      PROVE  Quiet'
  <2>. SUFFICES ASSUME hazard' \subseteq {"movedUnrecorded", "switched", "retried"}
       PROVE  /\ \A g \in File, v, w \in Type : <<g, v, w>> \notin owed'
              /\ \A g \in File : Exists(g)' => QuietAt(g)'
    BY DEF Quiet
  <2>1. hazard \subseteq {"movedUnrecorded", "switched", "retried"}
    BY <1>26 DEF EvictEndDoes, EvictIs
  <2>2. /\ \A g \in File, v, w \in Type : <<g, v, w>> \notin owed
        /\ \A g \in File : Exists(g) => QuietAt(g)
    BY <2>1 DEF Quiet
  <2>3. \A g \in File, v, w \in Type : <<g, v, w>> \notin owed'
    BY <1>1, <1>3, <1>4, <2>2, <1>26, ZenonT(60) DEF EvictEndDoes
  <2>. SUFFICES ASSUME NEW g \in File, Exists(g)'
       PROVE  QuietAt(g)'
    BY <2>3
  <2>4. Exists(g) /\ QuietAt(g)
    BY <1>1, <2>2, <1>26 DEF EvictEndDoes, Exists, EvictIs
  <2>5. QuietSame(g)
    BY <1>1, <1>2, <1>5, <1>6, <2>4, <1>26 DEF EvictEndDoes, QuietSame, Exists, EvictIs
  <2>6. QED
    BY <2>4, <2>5, QuietStays
<1>27. ASSUME NEW f \in File, NEW y \in Type, NEW z \in Type \union {"none"}, retypeFileDoes(f,
  y, z)
      PROVE  Quiet'
  <2>1. hazard \subseteq hazard' /\ <<f, y, z>> \in owed /\ z \in Type
    BY <1>27 DEF retypeFileDoes
  <2>2. QED
    BY <2>1 DEF Quiet
<1>28. ASSUME SwitchIndexerDoes
      PROVE  Quiet'
  <2>. SUFFICES ASSUME hazard' \subseteq {"movedUnrecorded", "switched", "retried"}
       PROVE  /\ \A g \in File, v, w \in Type : <<g, v, w>> \notin owed'
              /\ \A g \in File : Exists(g)' => QuietAt(g)'
    BY DEF Quiet
  <2>1. hazard \subseteq {"movedUnrecorded", "switched", "retried"}
    BY <1>28 DEF SwitchIndexerDoes
  <2>2. /\ \A g \in File, v, w \in Type : <<g, v, w>> \notin owed
        /\ \A g \in File : Exists(g) => QuietAt(g)
    BY <2>1 DEF Quiet
  <2>3. \A g \in File, v, w \in Type : <<g, v, w>> \notin owed'
    BY <1>1, <1>3, <1>4, <2>2, <1>28, ZenonT(60) DEF SwitchIndexerDoes
  <2>. SUFFICES ASSUME NEW g \in File, Exists(g)'
       PROVE  QuietAt(g)'
    BY <2>3
  <2>4. Exists(g) /\ QuietAt(g)
    BY <1>1, <2>2, <1>28 DEF SwitchIndexerDoes, Exists
  <2>5. QuietSame(g)
    BY <1>1, <1>2, <1>5, <1>6, <2>4, <1>28 DEF SwitchIndexerDoes, QuietSame, Exists
  <2>6. QED
    BY <2>4, <2>5, QuietStays
<1>29. ASSUME ScanListDoes
      PROVE  Quiet'
  <2>. SUFFICES ASSUME hazard' \subseteq {"movedUnrecorded", "switched", "retried"}
       PROVE  /\ \A g \in File, v, w \in Type : <<g, v, w>> \notin owed'
              /\ \A g \in File : Exists(g)' => QuietAt(g)'
    BY DEF Quiet
  <2>1. hazard \subseteq {"movedUnrecorded", "switched", "retried"}
    BY <1>29 DEF ScanListDoes, ScanIs
  <2>2. /\ \A g \in File, v, w \in Type : <<g, v, w>> \notin owed
        /\ \A g \in File : Exists(g) => QuietAt(g)
    BY <2>1 DEF Quiet
  <2>3. \A g \in File, v, w \in Type : <<g, v, w>> \notin owed'
    BY <1>1, <1>3, <1>4, <2>2, <1>29, ZenonT(60) DEF ScanListDoes
  <2>. SUFFICES ASSUME NEW g \in File, Exists(g)'
       PROVE  QuietAt(g)'
    BY <2>3
  <2>4. Exists(g) /\ QuietAt(g)
    BY <1>1, <2>2, <1>29 DEF ScanListDoes, Exists, ScanIs
  <2>5. QuietSame(g)
    BY <1>1, <1>2, <1>5, <1>6, <2>4, <1>29 DEF ScanListDoes, QuietSame, Exists, ScanIs
  <2>6. QED
    BY <2>4, <2>5, QuietStays
<1>30. ASSUME TickBeginDoes
      PROVE  Quiet'
  <2>. SUFFICES ASSUME hazard' \subseteq {"movedUnrecorded", "switched", "retried"}
       PROVE  /\ \A g \in File, v, w \in Type : <<g, v, w>> \notin owed'
              /\ \A g \in File : Exists(g)' => QuietAt(g)'
    BY DEF Quiet
  <2>1. hazard \subseteq {"movedUnrecorded", "switched", "retried"}
    BY <1>30 DEF TickBeginDoes, RowIs
  <2>2. /\ \A g \in File, v, w \in Type : <<g, v, w>> \notin owed
        /\ \A g \in File : Exists(g) => QuietAt(g)
    BY <2>1 DEF Quiet
  <2>3. \A g \in File, v, w \in Type : <<g, v, w>> \notin owed'
    BY <1>1, <1>3, <1>4, <2>2, <1>30, ZenonT(60) DEF TickBeginDoes
  <2>. SUFFICES ASSUME NEW g \in File, Exists(g)'
       PROVE  QuietAt(g)'
    BY <2>3
  <2>4. Exists(g) /\ QuietAt(g)
    BY <1>1, <2>2, <1>30 DEF TickBeginDoes, Exists, RowIs
  <2>5. QuietSame(g)
    BY <1>1, <1>2, <1>5, <1>6, <2>4, <1>30 DEF TickBeginDoes, QuietSame, Exists, RowIs
  <2>6. QED
    BY <2>4, <2>5, QuietStays
<1>31. ASSUME TickDoes
      PROVE  Quiet'
  <2>. SUFFICES ASSUME hazard' \subseteq {"movedUnrecorded", "switched", "retried"}
       PROVE  /\ \A g \in File, v, w \in Type : <<g, v, w>> \notin owed'
              /\ \A g \in File : Exists(g)' => QuietAt(g)'
    BY DEF Quiet
  <2>1. hazard \subseteq {"movedUnrecorded", "switched", "retried"}
    BY <1>31 DEF TickDoes
  <2>2. /\ \A g \in File, v, w \in Type : <<g, v, w>> \notin owed
        /\ \A g \in File : Exists(g) => QuietAt(g)
    BY <2>1 DEF Quiet
  <2>3. \A g \in File, v, w \in Type : <<g, v, w>> \notin owed'
    BY <1>1, <1>3, <1>4, <2>2, <1>31, ZenonT(60) DEF TickDoes
  <2>. SUFFICES ASSUME NEW g \in File, Exists(g)'
       PROVE  QuietAt(g)'
    BY <2>3
  <2>4. Exists(g) /\ QuietAt(g)
    BY <1>1, <2>2, <1>31 DEF TickDoes, Exists
  <2>5. QuietSame(g)
    BY <1>1, <1>2, <1>5, <1>6, <2>4, <1>31 DEF TickDoes, QuietSame, Exists
  <2>6. QED
    BY <2>4, <2>5, QuietStays
<1>32. ASSUME NEW f \in File, NEW t \in Token, ClaimDoes(f, t)
      PROVE  Quiet'
  <2>. SUFFICES ASSUME hazard' \subseteq {"movedUnrecorded", "switched", "retried"}
       PROVE  /\ \A g \in File, v, w \in Type : <<g, v, w>> \notin owed'
              /\ \A g \in File : Exists(g)' => QuietAt(g)'
    BY DEF Quiet
  <2>1. hazard \subseteq {"movedUnrecorded", "switched", "retried"}
    BY <1>32 DEF ClaimDoes, ImpIs, RowIs
  <2>2. /\ \A g \in File, v, w \in Type : <<g, v, w>> \notin owed
        /\ \A g \in File : Exists(g) => QuietAt(g)
    BY <2>1 DEF Quiet
  <2>3. \A g \in File, v, w \in Type : <<g, v, w>> \notin owed'
    BY <1>1, <1>3, <1>4, <2>2, <1>32, ZenonT(60) DEF ClaimDoes
  <2>. SUFFICES ASSUME NEW g \in File, Exists(g)'
       PROVE  QuietAt(g)'
    BY <2>3
  <2>4. Exists(g) /\ QuietAt(g)
    BY <1>1, <2>2, <1>32 DEF ClaimDoes, Exists, ImpIs, RowIs
  <2>5. QuietSame(g)
    BY <1>1, <1>2, <1>5, <1>6, <2>4, <1>32 DEF ClaimDoes, QuietSame, Exists, ImpIs, RowIs
  <2>6. QED
    BY <2>4, <2>5, QuietStays
<1>33. ASSUME NEW t \in Token, JobStartDoes(t)
      PROVE  Quiet'
  <2>. SUFFICES ASSUME hazard' \subseteq {"movedUnrecorded", "switched", "retried"}
       PROVE  /\ \A g \in File, v, w \in Type : <<g, v, w>> \notin owed'
              /\ \A g \in File : Exists(g)' => QuietAt(g)'
    BY DEF Quiet
  <2>1. hazard \subseteq {"movedUnrecorded", "switched", "retried"}
    BY <1>33 DEF JobStartDoes, JobIs
  <2>2. /\ \A g \in File, v, w \in Type : <<g, v, w>> \notin owed
        /\ \A g \in File : Exists(g) => QuietAt(g)
    BY <2>1 DEF Quiet
  <2>3. \A g \in File, v, w \in Type : <<g, v, w>> \notin owed'
    BY <1>1, <1>3, <1>4, <2>2, <1>33, ZenonT(60) DEF JobStartDoes
  <2>. SUFFICES ASSUME NEW g \in File, Exists(g)'
       PROVE  QuietAt(g)'
    BY <2>3
  <2>4. Exists(g) /\ QuietAt(g)
    BY <1>1, <2>2, <1>33 DEF JobStartDoes, Exists, JobIs
  <2>5. QuietSame(g)
    BY <1>1, <1>2, <1>5, <1>6, <2>4, <1>33 DEF JobStartDoes, QuietSame, Exists, JobIs
  <2>6. QED
    BY <2>4, <2>5, QuietStays
<1>34. ASSUME NEW t \in Token, ResolveDoes(t)
      PROVE  Quiet'
  <2>. SUFFICES ASSUME hazard' \subseteq {"movedUnrecorded", "switched", "retried"}
       PROVE  /\ \A g \in File, v, w \in Type : <<g, v, w>> \notin owed'
              /\ \A g \in File : Exists(g)' => QuietAt(g)'
    BY DEF Quiet
  <2>1. hazard \subseteq {"movedUnrecorded", "switched", "retried"}
    BY <1>34 DEF ResolveDoes, ImpIs, JobIs, RowIs, Settles
  <2>2. /\ \A g \in File, v, w \in Type : <<g, v, w>> \notin owed
        /\ \A g \in File : Exists(g) => QuietAt(g)
    BY <2>1 DEF Quiet
  <2>3. \A g \in File, v, w \in Type : <<g, v, w>> \notin owed'
    BY <1>1, <1>3, <1>4, <2>2, <1>34, ZenonT(60) DEF ResolveDoes
  <2>. SUFFICES ASSUME NEW g \in File, Exists(g)'
       PROVE  QuietAt(g)'
    BY <2>3
  <2>4. Exists(g) /\ QuietAt(g)
    BY <1>1, <2>2, <1>34 DEF ResolveDoes, Exists, ImpIs, JobIs, RowIs, Settles
  <2>5. QuietSame(g)
    BY <1>1, <1>2, <1>5, <1>6, <2>4, <1>34 DEF ResolveDoes, QuietSame, Exists, ImpIs, JobIs, RowIs, Settles
  <2>6. QED
    BY <2>4, <2>5, QuietStays
<1>35. ASSUME NEW t \in Token, CopyDoes(t)
      PROVE  Quiet'
  <2>. SUFFICES ASSUME hazard' \subseteq {"movedUnrecorded", "switched", "retried"}
       PROVE  /\ \A g \in File, v, w \in Type : <<g, v, w>> \notin owed'
              /\ \A g \in File : Exists(g)' => QuietAt(g)'
    BY DEF Quiet
  <2>1. hazard \subseteq {"movedUnrecorded", "switched", "retried"}
    BY <1>35 DEF CopyDoes, JobIs, Late
  <2>2. /\ \A g \in File, v, w \in Type : <<g, v, w>> \notin owed
        /\ \A g \in File : Exists(g) => QuietAt(g)
    BY <2>1 DEF Quiet
  <2>3. \A g \in File, v, w \in Type : <<g, v, w>> \notin owed'
    BY <1>1, <1>3, <1>4, <2>2, <1>35, ZenonT(60) DEF CopyDoes
  <2>. SUFFICES ASSUME NEW g \in File, Exists(g)'
       PROVE  QuietAt(g)'
    BY <2>3
  <2>4. Exists(g) /\ QuietAt(g)
    BY <1>1, <2>2, <1>35 DEF CopyDoes, Exists, JobIs, Late
  <2>5. QuietSame(g)
    BY <1>1, <1>2, <1>5, <1>6, <2>4, <1>35 DEF CopyDoes, QuietSame, Exists, JobIs, Late, Late
  <2>6. QED
    BY <2>4, <2>5, QuietStays
<1>36. ASSUME NEW t \in Token, CancelCopyDoes(t)
      PROVE  Quiet'
  <2>. SUFFICES ASSUME hazard' \subseteq {"movedUnrecorded", "switched", "retried"}
       PROVE  /\ \A g \in File, v, w \in Type : <<g, v, w>> \notin owed'
              /\ \A g \in File : Exists(g)' => QuietAt(g)'
    BY DEF Quiet
  <2>1. hazard \subseteq {"movedUnrecorded", "switched", "retried"}
    BY <1>36 DEF CancelCopyDoes, JobIs
  <2>2. /\ \A g \in File, v, w \in Type : <<g, v, w>> \notin owed
        /\ \A g \in File : Exists(g) => QuietAt(g)
    BY <2>1 DEF Quiet
  <2>3. \A g \in File, v, w \in Type : <<g, v, w>> \notin owed'
    BY <1>1, <1>3, <1>4, <2>2, <1>36, ZenonT(60) DEF CancelCopyDoes
  <2>. SUFFICES ASSUME NEW g \in File, Exists(g)'
       PROVE  QuietAt(g)'
    BY <2>3
  <2>4. Exists(g) /\ QuietAt(g)
    BY <1>1, <2>2, <1>36 DEF CancelCopyDoes, Exists, JobIs
  <2>5. QuietSame(g)
    BY <1>1, <1>2, <1>5, <1>6, <2>4, <1>36 DEF CancelCopyDoes, QuietSame, Exists, JobIs
  <2>6. QED
    BY <2>4, <2>5, QuietStays
<1>37. ASSUME NEW t \in Token, PublishDoes(t)
      PROVE  Quiet'
  <2>. SUFFICES ASSUME hazard' \subseteq {"movedUnrecorded", "switched", "retried"}
       PROVE  /\ \A g \in File, v, w \in Type : <<g, v, w>> \notin owed'
              /\ \A g \in File : Exists(g)' => QuietAt(g)'
    BY DEF Quiet
  <2>1. hazard \subseteq {"movedUnrecorded", "switched", "retried"}
    BY <1>37 DEF PublishDoes, JobIs, Late
  <2>2. /\ \A g \in File, v, w \in Type : <<g, v, w>> \notin owed
        /\ \A g \in File : Exists(g) => QuietAt(g)
    BY <2>1 DEF Quiet
  <2>3. \A g \in File, v, w \in Type : <<g, v, w>> \notin owed'
    BY <1>1, <1>3, <1>4, <2>2, <1>37, ZenonT(60) DEF PublishDoes
  <2>. SUFFICES ASSUME NEW g \in File, Exists(g)'
       PROVE  QuietAt(g)'
    BY <2>3
  <2>4. Exists(g) /\ QuietAt(g)
    BY <1>1, <2>2, <1>37 DEF PublishDoes, Exists, JobIs, Late
  <2>5. QuietSame(g)
    BY <1>1, <1>2, <1>5, <1>6, <2>4, <1>37 DEF PublishDoes, QuietSame, Exists, JobIs, Late, Late
  <2>6. QED
    BY <2>4, <2>5, QuietStays
<1>38. ASSUME NEW t \in Token, RecordDoes(t)
      PROVE  Quiet'
  <2>. SUFFICES ASSUME hazard' \subseteq {"movedUnrecorded", "switched", "retried"}
       PROVE  /\ \A g \in File, v, w \in Type : <<g, v, w>> \notin owed'
              /\ \A g \in File : Exists(g)' => QuietAt(g)'
    BY DEF Quiet
  <2>1. hazard \subseteq {"movedUnrecorded", "switched", "retried"}
    BY <1>38 DEF RecordDoes, JobIs, Late
  <2>2. /\ \A g \in File, v, w \in Type : <<g, v, w>> \notin owed
        /\ \A g \in File : Exists(g) => QuietAt(g)
    BY <2>1 DEF Quiet
  <2>3. \A g \in File, v, w \in Type : <<g, v, w>> \notin owed'
    BY <1>1, <1>3, <1>4, <2>2, <1>38, ZenonT(60) DEF RecordDoes
  <2>. SUFFICES ASSUME NEW g \in File, Exists(g)'
       PROVE  QuietAt(g)'
    BY <2>3
  <2>4. Exists(g) /\ QuietAt(g)
    BY <1>1, <2>2, <1>38 DEF RecordDoes, Exists, JobIs, Late
  <2>5. QuietSame(g)
    BY <1>1, <1>2, <1>5, <1>6, <2>4, <1>38 DEF RecordDoes, QuietSame, Exists, JobIs, Late, Late
  <2>6. QED
    BY <2>4, <2>5, QuietStays
<1>39. ASSUME NEW t \in Token, RecordCutDoes(t)
      PROVE  Quiet'
  <2>. SUFFICES ASSUME hazard' \subseteq {"movedUnrecorded", "switched", "retried"}
       PROVE  /\ \A g \in File, v, w \in Type : <<g, v, w>> \notin owed'
              /\ \A g \in File : Exists(g)' => QuietAt(g)'
    BY DEF Quiet
  <2>1. hazard \subseteq {"movedUnrecorded", "switched", "retried"}
    BY <1>39 DEF RecordCutDoes, JobIs
  <2>2. /\ \A g \in File, v, w \in Type : <<g, v, w>> \notin owed
        /\ \A g \in File : Exists(g) => QuietAt(g)
    BY <2>1 DEF Quiet
  <2>3. \A g \in File, v, w \in Type : <<g, v, w>> \notin owed'
    BY <1>1, <1>3, <1>4, <2>2, <1>39, ZenonT(60) DEF RecordCutDoes
  <2>. SUFFICES ASSUME NEW g \in File, Exists(g)'
       PROVE  QuietAt(g)'
    BY <2>3
  <2>4. Exists(g) /\ QuietAt(g)
    BY <1>1, <2>2, <1>39 DEF RecordCutDoes, Exists, JobIs
  <2>5. QuietSame(g)
    BY <1>1, <1>2, <1>5, <1>6, <2>4, <1>39 DEF RecordCutDoes, QuietSame, Exists, JobIs
  <2>6. QED
    BY <2>4, <2>5, QuietStays
<1>40. ASSUME NEW t \in Token, HashDoes(t)
      PROVE  Quiet'
  <2>. SUFFICES ASSUME hazard' \subseteq {"movedUnrecorded", "switched", "retried"}
       PROVE  /\ \A g \in File, v, w \in Type : <<g, v, w>> \notin owed'
              /\ \A g \in File : Exists(g)' => QuietAt(g)'
    BY DEF Quiet
  <2>1. hazard \subseteq {"movedUnrecorded", "switched", "retried"}
    BY <1>40 DEF HashDoes, JobIs
  <2>2. /\ \A g \in File, v, w \in Type : <<g, v, w>> \notin owed
        /\ \A g \in File : Exists(g) => QuietAt(g)
    BY <2>1 DEF Quiet
  <2>3. \A g \in File, v, w \in Type : <<g, v, w>> \notin owed'
    BY <1>1, <1>3, <1>4, <2>2, <1>40, ZenonT(60) DEF HashDoes
  <2>. SUFFICES ASSUME NEW g \in File, Exists(g)'
       PROVE  QuietAt(g)'
    BY <2>3
  <2>4. Exists(g) /\ QuietAt(g)
    BY <1>1, <2>2, <1>40 DEF HashDoes, Exists, JobIs
  <2>5. QuietSame(g)
    BY <1>1, <1>2, <1>5, <1>6, <2>4, <1>40 DEF HashDoes, QuietSame, Exists, JobIs
  <2>6. QED
    BY <2>4, <2>5, QuietStays
<1>41. ASSUME NEW t \in Token, RefuseEmptyDoes(t)
      PROVE  Quiet'
  <2>. SUFFICES ASSUME hazard' \subseteq {"movedUnrecorded", "switched", "retried"}
       PROVE  /\ \A g \in File, v, w \in Type : <<g, v, w>> \notin owed'
              /\ \A g \in File : Exists(g)' => QuietAt(g)'
    BY DEF Quiet
  <2>1. hazard \subseteq {"movedUnrecorded", "switched", "retried"}
    BY <1>41 DEF RefuseEmptyDoes, ImpIs, JobIs, RowIs, Settles, removeNow
  <2>2. /\ \A g \in File, v, w \in Type : <<g, v, w>> \notin owed
        /\ \A g \in File : Exists(g) => QuietAt(g)
    BY <2>1 DEF Quiet
  <2>3. \A g \in File, v, w \in Type : <<g, v, w>> \notin owed'
    BY <1>1, <1>3, <1>4, <2>2, <1>41, ZenonT(60) DEF RefuseEmptyDoes
  <2>. SUFFICES ASSUME NEW g \in File, Exists(g)'
       PROVE  QuietAt(g)'
    BY <2>3
  <2>4. Exists(g) /\ QuietAt(g)
    BY <1>1, <2>2, <1>41 DEF RefuseEmptyDoes, Exists, ImpIs, JobIs, RowIs, Settles, removeNow
  <2>5. QuietSame(g)
    BY <1>1, <1>2, <1>5, <1>6, <2>4, <1>41 DEF RefuseEmptyDoes, QuietSame, Exists, ImpIs, JobIs, RowIs, Settles, removeNow
  <2>6. QED
    BY <2>4, <2>5, QuietStays
<1>42. ASSUME NEW t \in Token, RenameDoes(t)
      PROVE  Quiet'
  <2>. SUFFICES ASSUME hazard' \subseteq {"movedUnrecorded", "switched", "retried"}
       PROVE  /\ \A g \in File, v, w \in Type : <<g, v, w>> \notin owed'
              /\ \A g \in File : Exists(g)' => QuietAt(g)'
    BY DEF Quiet
  <2>1. hazard \subseteq {"movedUnrecorded", "switched", "retried"}
    BY <1>42 DEF RenameDoes, JobIs
  <2>2. /\ \A g \in File, v, w \in Type : <<g, v, w>> \notin owed
        /\ \A g \in File : Exists(g) => QuietAt(g)
    BY <2>1 DEF Quiet
  <2>3. \A g \in File, v, w \in Type : <<g, v, w>> \notin owed'
    BY <1>1, <1>3, <1>4, <2>2, <1>42, ZenonT(60) DEF RenameDoes
  <2>. SUFFICES ASSUME NEW g \in File, Exists(g)'
       PROVE  QuietAt(g)'
    BY <2>3
  <2>4. Exists(g) /\ QuietAt(g)
    BY <1>1, <2>2, <1>42 DEF RenameDoes, Exists, JobIs
  <2>5. QuietSame(g)
    BY <1>1, <1>2, <1>5, <1>6, <2>4, <1>42 DEF RenameDoes, QuietSame, Exists, JobIs
  <2>6. QED
    BY <2>4, <2>5, QuietStays
<1>43. ASSUME NEW t \in Token, RecordHashDoes(t)
      PROVE  Quiet'
  <2>. SUFFICES ASSUME hazard' \subseteq {"movedUnrecorded", "switched", "retried"}
       PROVE  /\ \A g \in File, v, w \in Type : <<g, v, w>> \notin owed'
              /\ \A g \in File : Exists(g)' => QuietAt(g)'
    BY DEF Quiet
  <2>1. hazard \subseteq {"movedUnrecorded", "switched", "retried"}
    BY <1>43 DEF RecordHashDoes, JobIs
  <2>2. /\ \A g \in File, v, w \in Type : <<g, v, w>> \notin owed
        /\ \A g \in File : Exists(g) => QuietAt(g)
    BY <2>1 DEF Quiet
  <2>3. \A g \in File, v, w \in Type : <<g, v, w>> \notin owed'
    BY <1>1, <1>3, <1>4, <2>2, <1>43, ZenonT(60) DEF RecordHashDoes
  <2>. SUFFICES ASSUME NEW g \in File, Exists(g)'
       PROVE  QuietAt(g)'
    BY <2>3
  <2>4. Exists(g) /\ QuietAt(g)
    BY <1>1, <2>2, <1>43 DEF RecordHashDoes, Exists, JobIs
  <2>5. QuietSame(g)
    BY <1>1, <1>2, <1>5, <1>6, <2>4, <1>43 DEF RecordHashDoes, QuietSame, Exists, JobIs
  <2>6. QED
    BY <2>4, <2>5, QuietStays
<1>44. ASSUME NEW t \in Token, FinalizeDoes(t)
      PROVE  Quiet'
  <2>. SUFFICES ASSUME hazard' \subseteq {"movedUnrecorded", "switched", "retried"}
       PROVE  /\ \A g \in File, v, w \in Type : <<g, v, w>> \notin owed'
              /\ \A g \in File : Exists(g)' => QuietAt(g)'
    BY DEF Quiet
  <2>1. hazard \subseteq {"movedUnrecorded", "switched", "retried"}
    BY <1>44 DEF FinalizeDoes, FileIs, ImpIs, JobIs, RowIs
  <2>2. /\ \A g \in File, v, w \in Type : <<g, v, w>> \notin owed
        /\ \A g \in File : Exists(g) => QuietAt(g)
    BY <2>1 DEF Quiet
  <2>3. \A g \in File, v, w \in Type : <<g, v, w>> \notin owed'
    BY <1>1, <1>3, <1>4, <2>2, <1>44, ZenonT(60) DEF FinalizeDoes
  <2>. SUFFICES ASSUME NEW g \in File, Exists(g)'
       PROVE  QuietAt(g)'
    BY <2>3
  <2>4. UNCHANGED <<disk, fs, holder, dl, mobile, scan, evict>>
    BY <1>44 DEF FinalizeDoes
  <2>5. CASE file'[g] = file[g]
    BY <2>2, <2>4, <2>5 DEF QuietAt, Slot, Exists
  <2>6. CASE /\ g = job[t].f /\ Owns(t) /\ file'[g].type = imp[g].type /\ file'[g].hash = imp[g].hash
    <3>1. file[g].state = "none"
      BY <1>5, <2>6
    <3>2. imp[g].hash = job[t].got /\ imp[g].type = Classify[g] /\ job[t].got # "none"
      BY <2>6, <1>44 DEF FinalizeDoes, Hashed
    <3>3. disk[g][Classify[g]] = job[t].got /\ \A y \in Type \ {Classify[g]} : disk[g][y] = "none"
      BY <1>1, <2>1, <2>6, <3>1, <3>2, <1>44 DEF FinalizeDoes, InPlace, ClaimInPlace, AtItsTypes
    <3>4. /\ dl[g].pc = "none"
          /\ \A y \in Type : /\ <<g, y>> \notin scan.live \union evict.rows
                             /\ ~(evict.pc \in {"try", "row"} /\ evict.on = <<g, y>>)
      BY <3>1 DEF Unmade
    <3>5. QED
      BY <1>4, <2>4, <2>6, <3>2, <3>3, <3>4 DEF QuietAt, Slot
  <2>7. QED
    BY <1>1, <1>2, <2>5, <2>6, <1>44 DEF FinalizeDoes, FileIs
<1>45. ASSUME NEW t \in Token, CleanDuplicateDoes(t)
      PROVE  Quiet'
  <2>. SUFFICES ASSUME hazard' \subseteq {"movedUnrecorded", "switched", "retried"}
       PROVE  /\ \A g \in File, v, w \in Type : <<g, v, w>> \notin owed'
              /\ \A g \in File : Exists(g)' => QuietAt(g)'
    BY DEF Quiet
  <2>1. hazard \subseteq {"movedUnrecorded", "switched", "retried"}
    BY <1>45 DEF CleanDuplicateDoes, JobIs, removeNow
  <2>2. /\ \A g \in File, v, w \in Type : <<g, v, w>> \notin owed
        /\ \A g \in File : Exists(g) => QuietAt(g)
    BY <2>1 DEF Quiet
  <2>3. \A g \in File, v, w \in Type : <<g, v, w>> \notin owed'
    BY <1>1, <1>3, <1>4, <2>2, <1>45, ZenonT(60) DEF CleanDuplicateDoes
  <2>. SUFFICES ASSUME NEW g \in File, Exists(g)'
       PROVE  QuietAt(g)'
    BY <2>3
  <2>4. Exists(g) /\ QuietAt(g)
    BY <1>1, <2>2, <1>45 DEF CleanDuplicateDoes, Exists, JobIs, removeNow
  <2>5. QuietSame(g)
    BY <1>1, <1>2, <1>5, <1>6, <2>4, <1>45 DEF CleanDuplicateDoes, QuietSame, Exists, JobIs, removeNow
  <2>6. QED
    BY <2>4, <2>5, QuietStays
<1>46. ASSUME NEW t \in Token, JobFailsDoes(t)
      PROVE  Quiet'
  <2>. SUFFICES ASSUME hazard' \subseteq {"movedUnrecorded", "switched", "retried"}
       PROVE  /\ \A g \in File, v, w \in Type : <<g, v, w>> \notin owed'
              /\ \A g \in File : Exists(g)' => QuietAt(g)'
    BY DEF Quiet
  <2>1. hazard \subseteq {"movedUnrecorded", "switched", "retried"}
    BY <1>46 DEF JobFailsDoes, ImpIs, JobIs, RowIs, Settles
  <2>2. /\ \A g \in File, v, w \in Type : <<g, v, w>> \notin owed
        /\ \A g \in File : Exists(g) => QuietAt(g)
    BY <2>1 DEF Quiet
  <2>3. \A g \in File, v, w \in Type : <<g, v, w>> \notin owed'
    BY <1>1, <1>3, <1>4, <2>2, <1>46, ZenonT(60) DEF JobFailsDoes
  <2>. SUFFICES ASSUME NEW g \in File, Exists(g)'
       PROVE  QuietAt(g)'
    BY <2>3
  <2>4. Exists(g) /\ QuietAt(g)
    BY <1>1, <2>2, <1>46 DEF JobFailsDoes, Exists, ImpIs, JobIs, RowIs, Settles
  <2>5. QuietSame(g)
    BY <1>1, <1>2, <1>5, <1>6, <2>4, <1>46 DEF JobFailsDoes, QuietSame, Exists, ImpIs, JobIs, RowIs, Settles
  <2>6. QED
    BY <2>4, <2>5, QuietStays
<1>47. ASSUME NEW t \in Token, CopyFindsNothingDoes(t)
      PROVE  Quiet'
  <2>. SUFFICES ASSUME hazard' \subseteq {"movedUnrecorded", "switched", "retried"}
       PROVE  /\ \A g \in File, v, w \in Type : <<g, v, w>> \notin owed'
              /\ \A g \in File : Exists(g)' => QuietAt(g)'
    BY DEF Quiet
  <2>1. hazard \subseteq {"movedUnrecorded", "switched", "retried"}
    BY <1>47 DEF CopyFindsNothingDoes, ImpIs, JobIs, RowIs, Settles
  <2>2. /\ \A g \in File, v, w \in Type : <<g, v, w>> \notin owed
        /\ \A g \in File : Exists(g) => QuietAt(g)
    BY <2>1 DEF Quiet
  <2>3. \A g \in File, v, w \in Type : <<g, v, w>> \notin owed'
    BY <1>1, <1>3, <1>4, <2>2, <1>47, ZenonT(60) DEF CopyFindsNothingDoes
  <2>. SUFFICES ASSUME NEW g \in File, Exists(g)'
       PROVE  QuietAt(g)'
    BY <2>3
  <2>4. Exists(g) /\ QuietAt(g)
    BY <1>1, <2>2, <1>47 DEF CopyFindsNothingDoes, Exists, ImpIs, JobIs, RowIs, Settles
  <2>5. QuietSame(g)
    BY <1>1, <1>2, <1>5, <1>6, <2>4, <1>47 DEF CopyFindsNothingDoes, QuietSame, Exists, ImpIs, JobIs, RowIs, Settles
  <2>6. QED
    BY <2>4, <2>5, QuietStays
<1>48. ASSUME NEW f \in File, GiveUpDoes(f)
      PROVE  Quiet'
  <2>. SUFFICES ASSUME hazard' \subseteq {"movedUnrecorded", "switched", "retried"}
       PROVE  /\ \A g \in File, v, w \in Type : <<g, v, w>> \notin owed'
              /\ \A g \in File : Exists(g)' => QuietAt(g)'
    BY DEF Quiet
  <2>1. hazard \subseteq {"movedUnrecorded", "switched", "retried"}
    BY <1>48 DEF GiveUpDoes, ImpIs, RowIs
  <2>2. /\ \A g \in File, v, w \in Type : <<g, v, w>> \notin owed
        /\ \A g \in File : Exists(g) => QuietAt(g)
    BY <2>1 DEF Quiet
  <2>3. \A g \in File, v, w \in Type : <<g, v, w>> \notin owed'
    BY <1>1, <1>3, <1>4, <2>2, <1>48, ZenonT(60) DEF GiveUpDoes
  <2>. SUFFICES ASSUME NEW g \in File, Exists(g)'
       PROVE  QuietAt(g)'
    BY <2>3
  <2>4. Exists(g) /\ QuietAt(g)
    BY <1>1, <2>2, <1>48 DEF GiveUpDoes, Exists, ImpIs, RowIs
  <2>5. QuietSame(g)
    BY <1>1, <1>2, <1>5, <1>6, <2>4, <1>48 DEF GiveUpDoes, QuietSame, Exists, ImpIs, RowIs
  <2>6. QED
    BY <2>4, <2>5, QuietStays
<1>49. ASSUME NEW f \in File, RependDoes(f)
      PROVE  Quiet'
  <2>. SUFFICES ASSUME hazard' \subseteq {"movedUnrecorded", "switched", "retried"}
       PROVE  /\ \A g \in File, v, w \in Type : <<g, v, w>> \notin owed'
              /\ \A g \in File : Exists(g)' => QuietAt(g)'
    BY DEF Quiet
  <2>1. hazard \subseteq {"movedUnrecorded", "switched", "retried"}
    BY <1>49 DEF RependDoes, ImpIs, RowIs
  <2>2. /\ \A g \in File, v, w \in Type : <<g, v, w>> \notin owed
        /\ \A g \in File : Exists(g) => QuietAt(g)
    BY <2>1 DEF Quiet
  <2>3. \A g \in File, v, w \in Type : <<g, v, w>> \notin owed'
    BY <1>1, <1>3, <1>4, <2>2, <1>49, ZenonT(60) DEF RependDoes
  <2>. SUFFICES ASSUME NEW g \in File, Exists(g)'
       PROVE  QuietAt(g)'
    BY <2>3
  <2>4. Exists(g) /\ QuietAt(g)
    BY <1>1, <2>2, <1>49 DEF RependDoes, Exists, ImpIs, RowIs
  <2>5. QuietSame(g)
    BY <1>1, <1>2, <1>5, <1>6, <2>4, <1>49 DEF RependDoes, QuietSame, Exists, ImpIs, RowIs
  <2>6. QED
    BY <2>4, <2>5, QuietStays
<1>50. ASSUME NEW f \in File, EditSourceDoes(f)
      PROVE  Quiet'
  <2>. SUFFICES ASSUME hazard' \subseteq {"movedUnrecorded", "switched", "retried"}
       PROVE  /\ \A g \in File, v, w \in Type : <<g, v, w>> \notin owed'
              /\ \A g \in File : Exists(g)' => QuietAt(g)'
    BY DEF Quiet
  <2>1. hazard \subseteq {"movedUnrecorded", "switched", "retried"}
    BY <1>50 DEF EditSourceDoes
  <2>2. /\ \A g \in File, v, w \in Type : <<g, v, w>> \notin owed
        /\ \A g \in File : Exists(g) => QuietAt(g)
    BY <2>1 DEF Quiet
  <2>3. \A g \in File, v, w \in Type : <<g, v, w>> \notin owed'
    BY <1>1, <1>3, <1>4, <2>2, <1>50, ZenonT(60) DEF EditSourceDoes
  <2>. SUFFICES ASSUME NEW g \in File, Exists(g)'
       PROVE  QuietAt(g)'
    BY <2>3
  <2>4. Exists(g) /\ QuietAt(g)
    BY <1>1, <2>2, <1>50 DEF EditSourceDoes, Exists
  <2>5. QuietSame(g)
    BY <1>1, <1>2, <1>5, <1>6, <2>4, <1>50 DEF EditSourceDoes, QuietSame, Exists
  <2>6. QED
    BY <2>4, <2>5, QuietStays
<1>51. ASSUME AbortDoes
      PROVE  Quiet'
  <2>. SUFFICES ASSUME hazard' \subseteq {"movedUnrecorded", "switched", "retried"}
       PROVE  /\ \A g \in File, v, w \in Type : <<g, v, w>> \notin owed'
              /\ \A g \in File : Exists(g)' => QuietAt(g)'
    BY DEF Quiet
  <2>1. hazard \subseteq {"movedUnrecorded", "switched", "retried"}
    BY <1>51 DEF AbortDoes
  <2>2. /\ \A g \in File, v, w \in Type : <<g, v, w>> \notin owed
        /\ \A g \in File : Exists(g) => QuietAt(g)
    BY <2>1 DEF Quiet
  <2>3. \A g \in File, v, w \in Type : <<g, v, w>> \notin owed'
    BY <1>1, <1>3, <1>4, <2>2, <1>51, ZenonT(60) DEF AbortDoes
  <2>. SUFFICES ASSUME NEW g \in File, Exists(g)'
       PROVE  QuietAt(g)'
    BY <2>3
  <2>4. Exists(g) /\ QuietAt(g)
    BY <1>1, <2>2, <1>51 DEF AbortDoes, Exists
  <2>5. QuietSame(g)
    BY <1>1, <1>2, <1>5, <1>6, <2>4, <1>51 DEF AbortDoes, QuietSame, Exists
  <2>6. QED
    BY <2>4, <2>5, QuietStays
<1>52. ASSUME KillDoes
      PROVE  Quiet'
  <2>. SUFFICES ASSUME hazard' \subseteq {"movedUnrecorded", "switched", "retried"}
       PROVE  /\ owed' = {}
              /\ \A g \in File : Exists(g)' => QuietAt(g)'
    BY <1>52 DEF Quiet, KillDoes
  <2>1. /\ hazard \subseteq {"movedUnrecorded", "switched", "retried"} /\ evict.pc # "row" /\ owed' = {}
        /\ UNCHANGED <<file, fs, mobile>>
    BY <1>52 DEF KillDoes
  <2>. SUFFICES ASSUME NEW g \in File, Exists(g)'
       PROVE  QuietAt(g)'
    BY <2>1
  <2>2. Exists(g) /\ QuietAt(g)
    BY <2>1 DEF Quiet, Exists
  <2>3. ASSUME NEW y \in Type
        PROVE  disk'[g][y] = disk[g][y]
    <3>1. ASSUME NEW t \in Token, job[t].f = g, Late(t) \subseteq hazard'
          PROVE  FALSE
      BY <1>5, <2>2, <3>1 DEF Late, Exists
    <3>2. QED
      BY <3>1, <1>52 DEF KillDoes
  <2>4. holder[g] # "evict"
    BY <2>1 DEF Locks
  <2>5. /\ dl'[g].pc = "none" /\ evict'.pc = "idle"
        /\ \A y \in Type : <<g, y>> \notin scan'.live \union evict'.rows
    BY <1>52 DEF KillDoes, ScanIs, EvictIs
  <2>6. QED
    BY <1>3, <2>1, <2>2, <2>3, <2>4, <2>5 DEF QuietAt, Slot
<1>53. ASSUME DropReadDoes
      PROVE  Quiet'
  <2>. SUFFICES ASSUME hazard' \subseteq {"movedUnrecorded", "switched", "retried"}
       PROVE  /\ \A g \in File, v, w \in Type : <<g, v, w>> \notin owed'
              /\ \A g \in File : Exists(g)' => QuietAt(g)'
    BY DEF Quiet
  <2>1. hazard \subseteq {"movedUnrecorded", "switched", "retried"}
    BY <1>53 DEF DropReadDoes
  <2>2. /\ \A g \in File, v, w \in Type : <<g, v, w>> \notin owed
        /\ \A g \in File : Exists(g) => QuietAt(g)
    BY <2>1 DEF Quiet
  <2>3. \A g \in File, v, w \in Type : <<g, v, w>> \notin owed'
    BY <1>1, <1>3, <1>4, <2>2, <1>53, ZenonT(60) DEF DropReadDoes
  <2>. SUFFICES ASSUME NEW g \in File, Exists(g)'
       PROVE  QuietAt(g)'
    BY <2>3
  <2>4. Exists(g) /\ QuietAt(g)
    BY <1>1, <2>2, <1>53 DEF DropReadDoes, Exists
  <2>5. QuietSame(g)
    BY <1>1, <1>2, <1>5, <1>6, <2>4, <1>53 DEF DropReadDoes, QuietSame, Exists
  <2>6. QED
    BY <2>4, <2>5, QuietStays
<1>54. ASSUME failImportDoes
      PROVE  Quiet'
  <2>. SUFFICES ASSUME hazard' \subseteq {"movedUnrecorded", "switched", "retried"}
       PROVE  /\ \A g \in File, v, w \in Type : <<g, v, w>> \notin owed'
              /\ \A g \in File : Exists(g)' => QuietAt(g)'
    BY DEF Quiet
  <2>1. hazard \subseteq {"movedUnrecorded", "switched", "retried"}
    BY <1>54 DEF failImportDoes, RowIs
  <2>2. /\ \A g \in File, v, w \in Type : <<g, v, w>> \notin owed
        /\ \A g \in File : Exists(g) => QuietAt(g)
    BY <2>1 DEF Quiet
  <2>3. \A g \in File, v, w \in Type : <<g, v, w>> \notin owed'
    BY <1>1, <1>3, <1>4, <2>2, <1>54, ZenonT(60) DEF failImportDoes
  <2>. SUFFICES ASSUME NEW g \in File, Exists(g)'
       PROVE  QuietAt(g)'
    BY <2>3
  <2>4. Exists(g) /\ QuietAt(g)
    BY <1>1, <2>2, <1>54 DEF failImportDoes, Exists, RowIs
  <2>5. QuietSame(g)
    BY <1>1, <1>2, <1>5, <1>6, <2>4, <1>54 DEF failImportDoes, QuietSame, Exists, RowIs
  <2>6. QED
    BY <2>4, <2>5, QuietStays
<1>55. ASSUME NEW f \in File, NEW y \in Type, DropBytesDoes(f, y)
      PROVE  Quiet'
  <2>. SUFFICES ASSUME hazard' \subseteq {"movedUnrecorded", "switched", "retried"}
       PROVE  /\ \A g \in File, v, w \in Type : <<g, v, w>> \notin owed'
              /\ \A g \in File : Exists(g)' => QuietAt(g)'
    BY DEF Quiet
  <2>1. hazard \subseteq {"movedUnrecorded", "switched", "retried"}
    BY <1>55 DEF DropBytesDoes, removeNow
  <2>2. /\ \A g \in File, v, w \in Type : <<g, v, w>> \notin owed
        /\ \A g \in File : Exists(g) => QuietAt(g)
    BY <2>1 DEF Quiet
  <2>3. \A g \in File, v, w \in Type : <<g, v, w>> \notin owed'
    BY <1>1, <1>3, <1>4, <2>2, <1>55, ZenonT(60) DEF DropBytesDoes
  <2>. SUFFICES ASSUME NEW g \in File, Exists(g)'
       PROVE  QuietAt(g)'
    BY <2>3
  <2>4. Exists(g) /\ QuietAt(g)
    BY <1>1, <2>2, <1>55 DEF DropBytesDoes, Exists, removeNow
  <2>5. QuietSame(g)
    BY <1>1, <1>2, <1>5, <1>6, <2>4, <1>55 DEF DropBytesDoes, QuietSame, Exists, removeNow, Dropped
  <2>6. QED
    BY <2>4, <2>5, QuietStays
<1>56. ASSUME deleteDirectoryDoes
      PROVE  Quiet'
  <2>. SUFFICES ASSUME hazard' \subseteq {"movedUnrecorded", "switched", "retried"}
       PROVE  /\ \A g \in File, v, w \in Type : <<g, v, w>> \notin owed'
              /\ \A g \in File : Exists(g)' => QuietAt(g)'
    BY DEF Quiet
  <2>1. hazard \subseteq {"movedUnrecorded", "switched", "retried"}
    BY <1>56 DEF deleteDirectoryDoes
  <2>2. /\ \A g \in File, v, w \in Type : <<g, v, w>> \notin owed
        /\ \A g \in File : Exists(g) => QuietAt(g)
    BY <2>1 DEF Quiet
  <2>3. \A g \in File, v, w \in Type : <<g, v, w>> \notin owed'
    BY <1>1, <1>3, <1>4, <2>2, <1>56, ZenonT(60) DEF deleteDirectoryDoes
  <2>. SUFFICES ASSUME NEW g \in File, Exists(g)'
       PROVE  QuietAt(g)'
    BY <2>3
  <2>4. Exists(g) /\ QuietAt(g)
    BY <1>1, <2>2, <1>56 DEF deleteDirectoryDoes, Exists
  <2>5. QuietSame(g)
    BY <1>1, <1>2, <1>5, <1>6, <2>4, <1>56 DEF deleteDirectoryDoes, QuietSame, Exists
  <2>6. QED
    BY <2>4, <2>5, QuietStays
<1>57. QED
  BY <1>7, <1>8, <1>9, <1>10, <1>11, <1>12, <1>13, <1>14, <1>15, <1>16, <1>17, <1>18, <1>19,
    <1>20, <1>21, <1>22, <1>23, <1>24, <1>25, <1>26, <1>27, <1>28, <1>29, <1>30, <1>31, <1>32,
    <1>33, <1>34, <1>35, <1>36, <1>37, <1>38, <1>39, <1>40, <1>41, <1>42, <1>43, <1>44, <1>45,
    <1>46, <1>47, <1>48, <1>49, <1>50, <1>51, <1>52, <1>53, <1>54, <1>55, <1>56 DEF Effect

\* Nothing that matters to a staged import has changed but for the better.
LEMMA StagedStays ==
  ASSUME NEW f \in File, StagedAt(f), UNCHANGED <<imp, job, src>>,
         InFlight(f) => /\ f \in fs => f \in fs'
                        /\ Held(f) => Held(f)'
                        /\ \A t \in Token, b \in Bytes : <<f, t, b>> \in temp => <<f, t, b>> \in temp',
         scan'.pc = "entries" /\ f \in scan'.orphans => ~InFlight(f),
         \A t \in Token, b \in Bytes : scan'.pc = "entries" /\ <<f, t, b>> \in scan'.temps => ~InFlight(f)
  PROVE  StagedAt(f)'
PROOF
<1>1. InFlight(f)' <=> InFlight(f)
  BY DEF InFlight
<1>2. ASSUME InFlight(f), src[f] = "none"
      PROVE  (f \in fs' /\ Held(f)') \/ \E t \in Token : Carried(f, t)'
  <2>1. CASE f \in fs /\ Held(f)
    BY <1>2, <2>1
  <2>2. ASSUME NEW t \in Token, Carried(f, t)
        PROVE  Carried(f, t)'
    BY <1>2, <2>2 DEF Carried
  <2>3. QED
    BY <1>2, <2>1, <2>2 DEF StagedAt
<1>3. QED
  BY <1>1, <1>2 DEF StagedAt

\* Staged imports.
LEMMA StagedInvKept ==
  ASSUME Types, Types', Claims, Rows, Unmade, Dropped, Hashed, Staged, Effect
  PROVE  Staged'
PROOF
<1>1. file \in [File -> FileRow] /\ imp \in [File -> ImportRow] /\ job \in [Token -> JobRow] /\
  disk \in [File -> [Type -> Bytes]] /\ src \in [File -> Content \union {"none"}] /\ temp
  \subseteq File \X Token \X Bytes
  BY DEF Types
<1>2. \A t \in Token : job[t].f \in File /\ job[t].type \in Type /\ job[t].got \in Bytes
  BY DEF Types, JobRow
<1>3. \A f \in File : imp[f].state = "active" <=> imp[f].token # 0
  BY DEF Types, Paired
<1>4. 0 \notin Token /\ Classify \in [File -> Type] /\ scan \in ScanState /\ staged \subseteq
  File
  BY ImportsAssumption DEF Token, Types
<1>5. \A f \in File : InFlight(f) => file[f].state = "none"
  BY DEF Rows, InFlight
<1>6. \A t \in Token : job[t].pc \in {"start", "resolve", "hash", "hashed", "moved", "final",
  "dup"} => Waited(t)
  BY Owners
<1>7. \A t, u \in Token : Waited(t) /\ job[u].f = job[t].f /\ u # t => ~Owns(u)
  BY Owners
<1>8. ASSUME NEW f \in File, GetFileUriDoes(f)
      PROVE  Staged'
  <2>. SUFFICES ASSUME hazard' \cap {"movedUnrecorded", "failedAdded", "retried"} = {}
       PROVE  /\ \A g \in staged : StagedAt(g)'
              /\ \A t \in Token : job'[t].f \in staged /\ Owns(t)' => Alone(t)'
    BY <1>8 DEF Staged, GetFileUriDoes
  <2>1. /\ \A g \in staged : StagedAt(g)
        /\ \A t \in Token : job[t].f \in staged /\ Owns(t) => Alone(t)
    BY <1>8 DEF Staged, GetFileUriDoes, getFsFileUri
  <2>2. UNCHANGED <<imp, job, src>>
    BY <1>8 DEF GetFileUriDoes
  <2>3. \A t \in Token : job'[t].f \in staged /\ Owns(t)' => Alone(t)'
    BY <2>1, <2>2 DEF Owns, Alone
  <2>4. ASSUME NEW g \in staged
        PROVE  StagedAt(g)'
    <3>1. g \in File /\ StagedAt(g)
      BY <1>4, <2>1
    <3>2. ASSUME InFlight(g)
          PROVE  /\ g \in fs => g \in fs'
                 /\ Held(g) => Held(g)'
                 /\ \A t \in Token, b \in Bytes : <<g, t, b>> \in temp => <<g, t, b>> \in temp'
      <4>1. file[g].state = "none"
        BY <1>5, <3>1, <3>2
      <4>2. QED
        BY <1>1, <1>4, <3>1, <3>2, <4>1, <1>8 DEF GetFileUriDoes, Held, Exists, InFlight, StagedAt, getFsFileUri
    <3>3. /\ scan'.pc = "entries" /\ g \in scan'.orphans => ~InFlight(g)
          /\ \A t \in Token, b \in Bytes : scan'.pc = "entries" /\ <<g, t, b>> \in scan'.temps => ~InFlight(g)
      BY <1>4, <3>1, <1>8 DEF GetFileUriDoes, StagedAt
    <3>4. QED
      BY <2>2, <3>1, <3>2, <3>3, StagedStays
  <2>5. QED
    BY <2>3, <2>4
<1>9. ASSUME NEW f \in File, DownloadStartDoes(f)
      PROVE  Staged'
  <2>. SUFFICES ASSUME hazard' \cap {"movedUnrecorded", "failedAdded", "retried"} = {}
       PROVE  /\ \A g \in staged : StagedAt(g)'
              /\ \A t \in Token : job'[t].f \in staged /\ Owns(t)' => Alone(t)'
    BY <1>9 DEF Staged, DownloadStartDoes
  <2>1. /\ \A g \in staged : StagedAt(g)
        /\ \A t \in Token : job[t].f \in staged /\ Owns(t) => Alone(t)
    BY <1>9 DEF Staged, DownloadStartDoes, DlIs
  <2>2. UNCHANGED <<imp, job, src>>
    BY <1>9 DEF DownloadStartDoes
  <2>3. \A t \in Token : job'[t].f \in staged /\ Owns(t)' => Alone(t)'
    BY <2>1, <2>2 DEF Owns, Alone
  <2>4. ASSUME NEW g \in staged
        PROVE  StagedAt(g)'
    <3>1. g \in File /\ StagedAt(g)
      BY <1>4, <2>1
    <3>2. ASSUME InFlight(g)
          PROVE  /\ g \in fs => g \in fs'
                 /\ Held(g) => Held(g)'
                 /\ \A t \in Token, b \in Bytes : <<g, t, b>> \in temp => <<g, t, b>> \in temp'
      <4>1. file[g].state = "none"
        BY <1>5, <3>1, <3>2
      <4>2. QED
        BY <1>1, <1>4, <3>1, <3>2, <4>1, <1>9 DEF DownloadStartDoes, Held, Exists, InFlight, StagedAt, DlIs
    <3>3. /\ scan'.pc = "entries" /\ g \in scan'.orphans => ~InFlight(g)
          /\ \A t \in Token, b \in Bytes : scan'.pc = "entries" /\ <<g, t, b>> \in scan'.temps => ~InFlight(g)
      BY <1>4, <3>1, <1>9 DEF DownloadStartDoes, StagedAt
    <3>4. QED
      BY <2>2, <3>1, <3>2, <3>3, StagedStays
  <2>5. QED
    BY <2>3, <2>4
<1>10. ASSUME NEW f \in File, DownloadOpensDoes(f)
      PROVE  Staged'
  <2>. SUFFICES ASSUME hazard' \cap {"movedUnrecorded", "failedAdded", "retried"} = {}
       PROVE  /\ \A g \in staged : StagedAt(g)'
              /\ \A t \in Token : job'[t].f \in staged /\ Owns(t)' => Alone(t)'
    BY <1>10 DEF Staged, DownloadOpensDoes
  <2>1. /\ \A g \in staged : StagedAt(g)
        /\ \A t \in Token : job[t].f \in staged /\ Owns(t) => Alone(t)
    BY <1>10 DEF Staged, DownloadOpensDoes, DlIs
  <2>2. UNCHANGED <<imp, job, src>>
    BY <1>10 DEF DownloadOpensDoes
  <2>3. \A t \in Token : job'[t].f \in staged /\ Owns(t)' => Alone(t)'
    BY <2>1, <2>2 DEF Owns, Alone
  <2>4. ASSUME NEW g \in staged
        PROVE  StagedAt(g)'
    <3>1. g \in File /\ StagedAt(g)
      BY <1>4, <2>1
    <3>2. ASSUME InFlight(g)
          PROVE  /\ g \in fs => g \in fs'
                 /\ Held(g) => Held(g)'
                 /\ \A t \in Token, b \in Bytes : <<g, t, b>> \in temp => <<g, t, b>> \in temp'
      <4>1. file[g].state = "none"
        BY <1>5, <3>1, <3>2
      <4>2. QED
        BY <1>1, <1>4, <3>1, <3>2, <4>1, <1>10 DEF DownloadOpensDoes, Held, Exists, InFlight, StagedAt, DlIs, Unmade
    <3>3. /\ scan'.pc = "entries" /\ g \in scan'.orphans => ~InFlight(g)
          /\ \A t \in Token, b \in Bytes : scan'.pc = "entries" /\ <<g, t, b>> \in scan'.temps => ~InFlight(g)
      BY <1>4, <3>1, <1>10 DEF DownloadOpensDoes, StagedAt
    <3>4. QED
      BY <2>2, <3>1, <3>2, <3>3, StagedStays
  <2>5. QED
    BY <2>3, <2>4
<1>11. ASSUME NEW f \in File, DownloadArrivesDoes(f)
      PROVE  Staged'
  <2>. SUFFICES ASSUME hazard' \cap {"movedUnrecorded", "failedAdded", "retried"} = {}
       PROVE  /\ \A g \in staged : StagedAt(g)'
              /\ \A t \in Token : job'[t].f \in staged /\ Owns(t)' => Alone(t)'
    BY <1>11 DEF Staged, DownloadArrivesDoes
  <2>1. /\ \A g \in staged : StagedAt(g)
        /\ \A t \in Token : job[t].f \in staged /\ Owns(t) => Alone(t)
    BY <1>11 DEF Staged, DownloadArrivesDoes, DlIs
  <2>2. UNCHANGED <<imp, job, src>>
    BY <1>11 DEF DownloadArrivesDoes
  <2>3. \A t \in Token : job'[t].f \in staged /\ Owns(t)' => Alone(t)'
    BY <2>1, <2>2 DEF Owns, Alone
  <2>4. ASSUME NEW g \in staged
        PROVE  StagedAt(g)'
    <3>1. g \in File /\ StagedAt(g)
      BY <1>4, <2>1
    <3>2. ASSUME InFlight(g)
          PROVE  /\ g \in fs => g \in fs'
                 /\ Held(g) => Held(g)'
                 /\ \A t \in Token, b \in Bytes : <<g, t, b>> \in temp => <<g, t, b>> \in temp'
      <4>1. file[g].state = "none"
        BY <1>5, <3>1, <3>2
      <4>2. QED
        BY <1>1, <1>4, <3>1, <3>2, <4>1, <1>11 DEF DownloadArrivesDoes, Held, Exists, InFlight, StagedAt, DlIs, Unmade
    <3>3. /\ scan'.pc = "entries" /\ g \in scan'.orphans => ~InFlight(g)
          /\ \A t \in Token, b \in Bytes : scan'.pc = "entries" /\ <<g, t, b>> \in scan'.temps => ~InFlight(g)
      BY <1>4, <3>1, <1>11 DEF DownloadArrivesDoes, StagedAt
    <3>4. QED
      BY <2>2, <3>1, <3>2, <3>3, StagedStays
  <2>5. QED
    BY <2>3, <2>4
<1>12. ASSUME NEW f \in File, DownloadRecordsDoes(f)
      PROVE  Staged'
  <2>. SUFFICES ASSUME hazard' \cap {"movedUnrecorded", "failedAdded", "retried"} = {}
       PROVE  /\ \A g \in staged : StagedAt(g)'
              /\ \A t \in Token : job'[t].f \in staged /\ Owns(t)' => Alone(t)'
    BY <1>12 DEF Staged, DownloadRecordsDoes
  <2>1. /\ \A g \in staged : StagedAt(g)
        /\ \A t \in Token : job[t].f \in staged /\ Owns(t) => Alone(t)
    BY <1>12 DEF Staged, DownloadRecordsDoes, DlIs, Recorded
  <2>2. UNCHANGED <<imp, job, src>>
    BY <1>12 DEF DownloadRecordsDoes
  <2>3. \A t \in Token : job'[t].f \in staged /\ Owns(t)' => Alone(t)'
    BY <2>1, <2>2 DEF Owns, Alone
  <2>4. ASSUME NEW g \in staged
        PROVE  StagedAt(g)'
    <3>1. g \in File /\ StagedAt(g)
      BY <1>4, <2>1
    <3>2. ASSUME InFlight(g)
          PROVE  /\ g \in fs => g \in fs'
                 /\ Held(g) => Held(g)'
                 /\ \A t \in Token, b \in Bytes : <<g, t, b>> \in temp => <<g, t, b>> \in temp'
      <4>1. file[g].state = "none"
        BY <1>5, <3>1, <3>2
      <4>2. QED
        BY <1>1, <1>4, <3>1, <3>2, <4>1, <1>12 DEF DownloadRecordsDoes, Held, Exists, InFlight, StagedAt, DlIs, Recorded
    <3>3. /\ scan'.pc = "entries" /\ g \in scan'.orphans => ~InFlight(g)
          /\ \A t \in Token, b \in Bytes : scan'.pc = "entries" /\ <<g, t, b>> \in scan'.temps => ~InFlight(g)
      BY <1>4, <3>1, <1>12 DEF DownloadRecordsDoes, StagedAt
    <3>4. QED
      BY <2>2, <3>1, <3>2, <3>3, StagedStays
  <2>5. QED
    BY <2>3, <2>4
<1>13. ASSUME NEW f \in File, DownloadStopsDoes(f)
      PROVE  Staged'
  <2>. SUFFICES ASSUME hazard' \cap {"movedUnrecorded", "failedAdded", "retried"} = {}
       PROVE  /\ \A g \in staged : StagedAt(g)'
              /\ \A t \in Token : job'[t].f \in staged /\ Owns(t)' => Alone(t)'
    BY <1>13 DEF Staged, DownloadStopsDoes
  <2>1. /\ \A g \in staged : StagedAt(g)
        /\ \A t \in Token : job[t].f \in staged /\ Owns(t) => Alone(t)
    BY <1>13 DEF Staged, DownloadStopsDoes, DlIs
  <2>2. UNCHANGED <<imp, job, src>>
    BY <1>13 DEF DownloadStopsDoes
  <2>3. \A t \in Token : job'[t].f \in staged /\ Owns(t)' => Alone(t)'
    BY <2>1, <2>2 DEF Owns, Alone
  <2>4. ASSUME NEW g \in staged
        PROVE  StagedAt(g)'
    <3>1. g \in File /\ StagedAt(g)
      BY <1>4, <2>1
    <3>2. ASSUME InFlight(g)
          PROVE  /\ g \in fs => g \in fs'
                 /\ Held(g) => Held(g)'
                 /\ \A t \in Token, b \in Bytes : <<g, t, b>> \in temp => <<g, t, b>> \in temp'
      <4>1. file[g].state = "none"
        BY <1>5, <3>1, <3>2
      <4>2. QED
        BY <1>1, <1>4, <3>1, <3>2, <4>1, <1>13 DEF DownloadStopsDoes, Held, Exists, InFlight, StagedAt, DlIs, Unmade
    <3>3. /\ scan'.pc = "entries" /\ g \in scan'.orphans => ~InFlight(g)
          /\ \A t \in Token, b \in Bytes : scan'.pc = "entries" /\ <<g, t, b>> \in scan'.temps => ~InFlight(g)
      BY <1>4, <3>1, <1>13 DEF DownloadStopsDoes, StagedAt
    <3>4. QED
      BY <2>2, <3>1, <3>2, <3>3, StagedStays
  <2>5. QED
    BY <2>3, <2>4
<1>14. ASSUME NEW f \in File, EditDoes(f)
      PROVE  Staged'
  <2>. SUFFICES ASSUME hazard' \cap {"movedUnrecorded", "failedAdded", "retried"} = {}
       PROVE  /\ \A g \in staged : StagedAt(g)'
              /\ \A t \in Token : job'[t].f \in staged /\ Owns(t)' => Alone(t)'
    BY <1>14 DEF Staged, EditDoes
  <2>1. /\ \A g \in staged : StagedAt(g)
        /\ \A t \in Token : job[t].f \in staged /\ Owns(t) => Alone(t)
    BY <1>14 DEF Staged, EditDoes, FileIs
  <2>2. UNCHANGED <<imp, job, src>>
    BY <1>14 DEF EditDoes
  <2>3. \A t \in Token : job'[t].f \in staged /\ Owns(t)' => Alone(t)'
    BY <2>1, <2>2 DEF Owns, Alone
  <2>4. ASSUME NEW g \in staged
        PROVE  StagedAt(g)'
    <3>1. g \in File /\ StagedAt(g)
      BY <1>4, <2>1
    <3>2. ASSUME InFlight(g)
          PROVE  /\ g \in fs => g \in fs'
                 /\ Held(g) => Held(g)'
                 /\ \A t \in Token, b \in Bytes : <<g, t, b>> \in temp => <<g, t, b>> \in temp'
      <4>1. file[g].state = "none"
        BY <1>5, <3>1, <3>2
      <4>2. QED
        BY <1>1, <1>4, <3>1, <3>2, <4>1, <1>14 DEF EditDoes, Held, Exists, InFlight, StagedAt, FileIs
    <3>3. /\ scan'.pc = "entries" /\ g \in scan'.orphans => ~InFlight(g)
          /\ \A t \in Token, b \in Bytes : scan'.pc = "entries" /\ <<g, t, b>> \in scan'.temps => ~InFlight(g)
      BY <1>4, <3>1, <1>14 DEF EditDoes, StagedAt
    <3>4. QED
      BY <2>2, <3>1, <3>2, <3>3, StagedStays
  <2>5. QED
    BY <2>3, <2>4
<1>15. ASSUME NEW f \in File, TombstoneDoes(f)
      PROVE  Staged'
  <2>. SUFFICES ASSUME hazard' \cap {"movedUnrecorded", "failedAdded", "retried"} = {}
       PROVE  /\ \A g \in staged : StagedAt(g)'
              /\ \A t \in Token : job'[t].f \in staged /\ Owns(t)' => Alone(t)'
    BY <1>15 DEF Staged, TombstoneDoes
  <2>1. /\ \A g \in staged : StagedAt(g)
        /\ \A t \in Token : job[t].f \in staged /\ Owns(t) => Alone(t)
    BY <1>15 DEF Staged, TombstoneDoes, FileIs
  <2>2. UNCHANGED <<imp, job, src>>
    BY <1>15 DEF TombstoneDoes
  <2>3. \A t \in Token : job'[t].f \in staged /\ Owns(t)' => Alone(t)'
    BY <2>1, <2>2 DEF Owns, Alone
  <2>4. ASSUME NEW g \in staged
        PROVE  StagedAt(g)'
    <3>1. g \in File /\ StagedAt(g)
      BY <1>4, <2>1
    <3>2. ASSUME InFlight(g)
          PROVE  /\ g \in fs => g \in fs'
                 /\ Held(g) => Held(g)'
                 /\ \A t \in Token, b \in Bytes : <<g, t, b>> \in temp => <<g, t, b>> \in temp'
      <4>1. file[g].state = "none"
        BY <1>5, <3>1, <3>2
      <4>2. QED
        BY <1>1, <1>4, <3>1, <3>2, <4>1, <1>15 DEF TombstoneDoes, Held, Exists, InFlight, StagedAt, FileIs
    <3>3. /\ scan'.pc = "entries" /\ g \in scan'.orphans => ~InFlight(g)
          /\ \A t \in Token, b \in Bytes : scan'.pc = "entries" /\ <<g, t, b>> \in scan'.temps => ~InFlight(g)
      BY <1>4, <3>1, <1>15 DEF TombstoneDoes, StagedAt
    <3>4. QED
      BY <2>2, <3>1, <3>2, <3>3, StagedStays
  <2>5. QED
    BY <2>3, <2>4
<1>16. ASSUME NEW f \in File, UploadDoes(f)
      PROVE  Staged'
  <2>. SUFFICES ASSUME hazard' \cap {"movedUnrecorded", "failedAdded", "retried"} = {}
       PROVE  /\ \A g \in staged : StagedAt(g)'
              /\ \A t \in Token : job'[t].f \in staged /\ Owns(t)' => Alone(t)'
    BY <1>16 DEF Staged, UploadDoes
  <2>1. /\ \A g \in staged : StagedAt(g)
        /\ \A t \in Token : job[t].f \in staged /\ Owns(t) => Alone(t)
    BY <1>16 DEF Staged, UploadDoes
  <2>2. UNCHANGED <<imp, job, src>>
    BY <1>16 DEF UploadDoes
  <2>3. \A t \in Token : job'[t].f \in staged /\ Owns(t)' => Alone(t)'
    BY <2>1, <2>2 DEF Owns, Alone
  <2>4. ASSUME NEW g \in staged
        PROVE  StagedAt(g)'
    <3>1. g \in File /\ StagedAt(g)
      BY <1>4, <2>1
    <3>2. ASSUME InFlight(g)
          PROVE  /\ g \in fs => g \in fs'
                 /\ Held(g) => Held(g)'
                 /\ \A t \in Token, b \in Bytes : <<g, t, b>> \in temp => <<g, t, b>> \in temp'
      <4>1. file[g].state = "none"
        BY <1>5, <3>1, <3>2
      <4>2. QED
        BY <1>1, <1>4, <3>1, <3>2, <4>1, <1>16 DEF UploadDoes, Held, Exists, InFlight, StagedAt
    <3>3. /\ scan'.pc = "entries" /\ g \in scan'.orphans => ~InFlight(g)
          /\ \A t \in Token, b \in Bytes : scan'.pc = "entries" /\ <<g, t, b>> \in scan'.temps => ~InFlight(g)
      BY <1>4, <3>1, <1>16 DEF UploadDoes, StagedAt
    <3>4. QED
      BY <2>2, <3>1, <3>2, <3>3, StagedStays
  <2>5. QED
    BY <2>3, <2>4
<1>17. ASSUME NEW f \in File, NEW y \in Type, RetypeDoes(f, y)
      PROVE  Staged'
  <2>. SUFFICES ASSUME hazard' \cap {"movedUnrecorded", "failedAdded", "retried"} = {}
       PROVE  /\ \A g \in staged : StagedAt(g)'
              /\ \A t \in Token : job'[t].f \in staged /\ Owns(t)' => Alone(t)'
    BY <1>17 DEF Staged, RetypeDoes
  <2>1. /\ \A g \in staged : StagedAt(g)
        /\ \A t \in Token : job[t].f \in staged /\ Owns(t) => Alone(t)
    BY <1>17 DEF Staged, RetypeDoes, FileIs, Recorded
  <2>2. UNCHANGED <<imp, job, src>>
    BY <1>17 DEF RetypeDoes
  <2>3. \A t \in Token : job'[t].f \in staged /\ Owns(t)' => Alone(t)'
    BY <2>1, <2>2 DEF Owns, Alone
  <2>4. ASSUME NEW g \in staged
        PROVE  StagedAt(g)'
    <3>1. g \in File /\ StagedAt(g)
      BY <1>4, <2>1
    <3>2. ASSUME InFlight(g)
          PROVE  /\ g \in fs => g \in fs'
                 /\ Held(g) => Held(g)'
                 /\ \A t \in Token, b \in Bytes : <<g, t, b>> \in temp => <<g, t, b>> \in temp'
      <4>1. file[g].state = "none"
        BY <1>5, <3>1, <3>2
      <4>2. QED
        BY <1>1, <1>4, <3>1, <3>2, <4>1, <1>17 DEF RetypeDoes, Held, Exists, InFlight, StagedAt, FileIs, Recorded
    <3>3. /\ scan'.pc = "entries" /\ g \in scan'.orphans => ~InFlight(g)
          /\ \A t \in Token, b \in Bytes : scan'.pc = "entries" /\ <<g, t, b>> \in scan'.temps => ~InFlight(g)
      BY <1>4, <3>1, <1>17 DEF RetypeDoes, StagedAt
    <3>4. QED
      BY <2>2, <3>1, <3>2, <3>3, StagedStays
  <2>5. QED
    BY <2>3, <2>4
<1>18. ASSUME NEW f \in File, NEW y \in Type, removeTombstonedDoes(f, y)
      PROVE  Staged'
  <2>. SUFFICES ASSUME hazard' \cap {"movedUnrecorded", "failedAdded", "retried"} = {}
       PROVE  /\ \A g \in staged : StagedAt(g)'
              /\ \A t \in Token : job'[t].f \in staged /\ Owns(t)' => Alone(t)'
    BY <1>18 DEF Staged, removeTombstonedDoes
  <2>1. /\ \A g \in staged : StagedAt(g)
        /\ \A t \in Token : job[t].f \in staged /\ Owns(t) => Alone(t)
    BY <1>18 DEF Staged, removeTombstonedDoes, removeNow
  <2>2. UNCHANGED <<imp, job, src>>
    BY <1>18 DEF removeTombstonedDoes
  <2>3. \A t \in Token : job'[t].f \in staged /\ Owns(t)' => Alone(t)'
    BY <2>1, <2>2 DEF Owns, Alone
  <2>4. ASSUME NEW g \in staged
        PROVE  StagedAt(g)'
    <3>1. g \in File /\ StagedAt(g)
      BY <1>4, <2>1
    <3>2. ASSUME InFlight(g)
          PROVE  /\ g \in fs => g \in fs'
                 /\ Held(g) => Held(g)'
                 /\ \A t \in Token, b \in Bytes : <<g, t, b>> \in temp => <<g, t, b>> \in temp'
      <4>1. file[g].state = "none"
        BY <1>5, <3>1, <3>2
      <4>2. QED
        BY <1>1, <1>4, <3>1, <3>2, <4>1, <1>18 DEF removeTombstonedDoes, Held, Exists, InFlight, StagedAt, removeNow, Unmade
    <3>3. /\ scan'.pc = "entries" /\ g \in scan'.orphans => ~InFlight(g)
          /\ \A t \in Token, b \in Bytes : scan'.pc = "entries" /\ <<g, t, b>> \in scan'.temps => ~InFlight(g)
      BY <1>4, <3>1, <1>18 DEF removeTombstonedDoes, StagedAt
    <3>4. QED
      BY <2>2, <3>1, <3>2, <3>3, StagedStays
  <2>5. QED
    BY <2>3, <2>4
<1>19. ASSUME ScanJudgeDoes
      PROVE  Staged'
  <2>. SUFFICES ASSUME hazard' \cap {"movedUnrecorded", "failedAdded", "retried"} = {}
       PROVE  /\ \A g \in staged : StagedAt(g)'
              /\ \A t \in Token : job'[t].f \in staged /\ Owns(t)' => Alone(t)'
    BY <1>19 DEF Staged, ScanJudgeDoes
  <2>1. /\ \A g \in staged : StagedAt(g)
        /\ \A t \in Token : job[t].f \in staged /\ Owns(t) => Alone(t)
    BY <1>19 DEF Staged, ScanJudgeDoes, ScanIs
  <2>2. UNCHANGED <<imp, job, src>>
    BY <1>19 DEF ScanJudgeDoes
  <2>3. \A t \in Token : job'[t].f \in staged /\ Owns(t)' => Alone(t)'
    BY <2>1, <2>2 DEF Owns, Alone
  <2>4. ASSUME NEW g \in staged
        PROVE  StagedAt(g)'
    <3>1. g \in File /\ StagedAt(g)
      BY <1>4, <2>1
    <3>2. ASSUME InFlight(g)
          PROVE  /\ g \in fs => g \in fs'
                 /\ Held(g) => Held(g)'
                 /\ \A t \in Token, b \in Bytes : <<g, t, b>> \in temp => <<g, t, b>> \in temp'
      <4>1. file[g].state = "none"
        BY <1>5, <3>1, <3>2
      <4>2. QED
        BY <1>1, <1>4, <3>1, <3>2, <4>1, <1>19 DEF ScanJudgeDoes, Held, Exists, InFlight, StagedAt, ScanIs
    <3>3. /\ scan'.pc = "entries" /\ g \in scan'.orphans => ~InFlight(g)
          /\ \A t \in Token, b \in Bytes : scan'.pc = "entries" /\ <<g, t, b>> \in scan'.temps => ~InFlight(g)
      BY <1>4, <3>1, <1>19 DEF ScanJudgeDoes, StagedAt, ScanIs, InFlight
    <3>4. QED
      BY <2>2, <3>1, <3>2, <3>3, StagedStays
  <2>5. QED
    BY <2>3, <2>4
<1>20. ASSUME RemoveTempDoes
      PROVE  Staged'
  <2>. SUFFICES ASSUME hazard' \cap {"movedUnrecorded", "failedAdded", "retried"} = {}
       PROVE  /\ \A g \in staged : StagedAt(g)'
              /\ \A t \in Token : job'[t].f \in staged /\ Owns(t)' => Alone(t)'
    BY <1>20 DEF Staged, RemoveTempDoes
  <2>1. /\ \A g \in staged : StagedAt(g)
        /\ \A t \in Token : job[t].f \in staged /\ Owns(t) => Alone(t)
    BY <1>20 DEF Staged, RemoveTempDoes, ScanIs
  <2>2. UNCHANGED <<imp, job, src>>
    BY <1>20 DEF RemoveTempDoes
  <2>3. \A t \in Token : job'[t].f \in staged /\ Owns(t)' => Alone(t)'
    BY <2>1, <2>2 DEF Owns, Alone
  <2>4. ASSUME NEW g \in staged
        PROVE  StagedAt(g)'
    <3>1. g \in File /\ StagedAt(g)
      BY <1>4, <2>1
    <3>2. ASSUME InFlight(g)
          PROVE  /\ g \in fs => g \in fs'
                 /\ Held(g) => Held(g)'
                 /\ \A t \in Token, b \in Bytes : <<g, t, b>> \in temp => <<g, t, b>> \in temp'
      <4>1. file[g].state = "none"
        BY <1>5, <3>1, <3>2
      <4>2. QED
        BY <1>1, <1>4, <3>1, <3>2, <4>1, <1>20 DEF RemoveTempDoes, Held, Exists, InFlight, StagedAt, ScanIs
    <3>3. /\ scan'.pc = "entries" /\ g \in scan'.orphans => ~InFlight(g)
          /\ \A t \in Token, b \in Bytes : scan'.pc = "entries" /\ <<g, t, b>> \in scan'.temps => ~InFlight(g)
      BY <1>4, <3>1, <1>20 DEF RemoveTempDoes, StagedAt, ScanIs
    <3>4. QED
      BY <2>2, <3>1, <3>2, <3>3, StagedStays
  <2>5. QED
    BY <2>3, <2>4
<1>21. ASSUME NEW f \in File, NEW y \in Type, ScanEntryDoes(f, y)
      PROVE  Staged'
  <2>. SUFFICES ASSUME hazard' \cap {"movedUnrecorded", "failedAdded", "retried"} = {}
       PROVE  /\ \A g \in staged : StagedAt(g)'
              /\ \A t \in Token : job'[t].f \in staged /\ Owns(t)' => Alone(t)'
    BY <1>21 DEF Staged, ScanEntryDoes
  <2>1. /\ \A g \in staged : StagedAt(g)
        /\ \A t \in Token : job[t].f \in staged /\ Owns(t) => Alone(t)
    BY <1>21 DEF Staged, ScanEntryDoes, Misjudged, Recorded, ScanIs, ScansOn, getFsFileUri, removeNow
  <2>2. UNCHANGED <<imp, job, src>>
    BY <1>21 DEF ScanEntryDoes
  <2>3. \A t \in Token : job'[t].f \in staged /\ Owns(t)' => Alone(t)'
    BY <2>1, <2>2 DEF Owns, Alone
  <2>4. ASSUME NEW g \in staged
        PROVE  StagedAt(g)'
    <3>1. g \in File /\ StagedAt(g)
      BY <1>4, <2>1
    <3>2. ASSUME InFlight(g)
          PROVE  /\ g \in fs => g \in fs'
                 /\ Held(g) => Held(g)'
                 /\ \A t \in Token, b \in Bytes : <<g, t, b>> \in temp => <<g, t, b>> \in temp'
      <4>1. file[g].state = "none"
        BY <1>5, <3>1, <3>2
      <4>2. \A w \in Type : <<g, w>> \notin scan.live
        BY <3>1, <4>1 DEF Unmade
      <4>3. g = f => scan.pc = "entries" /\ f \notin scan.orphans
        BY <3>1, <3>2, <1>21 DEF ScanEntryDoes, StagedAt
      <4>4. UNCHANGED <<disk, fs>> \/ g # f
        BY <4>2, <4>3, <1>21 DEF ScanEntryDoes
      <4>5. disk'[g] = disk[g] /\ (g \in fs => g \in fs') /\ temp' = temp
        BY <1>1, <3>1, <4>4, <1>21 DEF ScanEntryDoes, removeNow, getFsFileUri
      <4>6. QED
        BY <4>5 DEF Held
    <3>3. /\ scan'.pc = "entries" /\ g \in scan'.orphans => ~InFlight(g)
          /\ \A t \in Token, b \in Bytes : scan'.pc = "entries" /\ <<g, t, b>> \in scan'.temps => ~InFlight(g)
      BY <1>4, <3>1, <1>21 DEF ScanEntryDoes, StagedAt, ScansOn, ScanIs
    <3>4. QED
      BY <2>2, <3>1, <3>2, <3>3, StagedStays
  <2>5. QED
    BY <2>3, <2>4
<1>22. ASSUME ScanEndDoes
      PROVE  Staged'
  <2>. SUFFICES ASSUME hazard' \cap {"movedUnrecorded", "failedAdded", "retried"} = {}
       PROVE  /\ \A g \in staged : StagedAt(g)'
              /\ \A t \in Token : job'[t].f \in staged /\ Owns(t)' => Alone(t)'
    BY <1>22 DEF Staged, ScanEndDoes
  <2>1. /\ \A g \in staged : StagedAt(g)
        /\ \A t \in Token : job[t].f \in staged /\ Owns(t) => Alone(t)
    BY <1>22 DEF Staged, ScanEndDoes, ScanIs
  <2>2. UNCHANGED <<imp, job, src>>
    BY <1>22 DEF ScanEndDoes
  <2>3. \A t \in Token : job'[t].f \in staged /\ Owns(t)' => Alone(t)'
    BY <2>1, <2>2 DEF Owns, Alone
  <2>4. ASSUME NEW g \in staged
        PROVE  StagedAt(g)'
    <3>1. g \in File /\ StagedAt(g)
      BY <1>4, <2>1
    <3>2. ASSUME InFlight(g)
          PROVE  /\ g \in fs => g \in fs'
                 /\ Held(g) => Held(g)'
                 /\ \A t \in Token, b \in Bytes : <<g, t, b>> \in temp => <<g, t, b>> \in temp'
      <4>1. file[g].state = "none"
        BY <1>5, <3>1, <3>2
      <4>2. QED
        BY <1>1, <1>4, <3>1, <3>2, <4>1, <1>22 DEF ScanEndDoes, Held, Exists, InFlight, StagedAt, ScanIs
    <3>3. /\ scan'.pc = "entries" /\ g \in scan'.orphans => ~InFlight(g)
          /\ \A t \in Token, b \in Bytes : scan'.pc = "entries" /\ <<g, t, b>> \in scan'.temps => ~InFlight(g)
      BY <1>4, <3>1, <1>22 DEF ScanEndDoes, StagedAt, ScanIs
    <3>4. QED
      BY <2>2, <3>1, <3>2, <3>3, StagedStays
  <2>5. QED
    BY <2>3, <2>4
<1>23. ASSUME EvictReadDoes
      PROVE  Staged'
  <2>. SUFFICES ASSUME hazard' \cap {"movedUnrecorded", "failedAdded", "retried"} = {}
       PROVE  /\ \A g \in staged : StagedAt(g)'
              /\ \A t \in Token : job'[t].f \in staged /\ Owns(t)' => Alone(t)'
    BY <1>23 DEF Staged, EvictReadDoes
  <2>1. /\ \A g \in staged : StagedAt(g)
        /\ \A t \in Token : job[t].f \in staged /\ Owns(t) => Alone(t)
    BY <1>23 DEF Staged, EvictReadDoes, EvictIs
  <2>2. UNCHANGED <<imp, job, src>>
    BY <1>23 DEF EvictReadDoes
  <2>3. \A t \in Token : job'[t].f \in staged /\ Owns(t)' => Alone(t)'
    BY <2>1, <2>2 DEF Owns, Alone
  <2>4. ASSUME NEW g \in staged
        PROVE  StagedAt(g)'
    <3>1. g \in File /\ StagedAt(g)
      BY <1>4, <2>1
    <3>2. ASSUME InFlight(g)
          PROVE  /\ g \in fs => g \in fs'
                 /\ Held(g) => Held(g)'
                 /\ \A t \in Token, b \in Bytes : <<g, t, b>> \in temp => <<g, t, b>> \in temp'
      <4>1. file[g].state = "none"
        BY <1>5, <3>1, <3>2
      <4>2. QED
        BY <1>1, <1>4, <3>1, <3>2, <4>1, <1>23 DEF EvictReadDoes, Held, Exists, InFlight, StagedAt, EvictIs
    <3>3. /\ scan'.pc = "entries" /\ g \in scan'.orphans => ~InFlight(g)
          /\ \A t \in Token, b \in Bytes : scan'.pc = "entries" /\ <<g, t, b>> \in scan'.temps => ~InFlight(g)
      BY <1>4, <3>1, <1>23 DEF EvictReadDoes, StagedAt
    <3>4. QED
      BY <2>2, <3>1, <3>2, <3>3, StagedStays
  <2>5. QED
    BY <2>3, <2>4
<1>24. ASSUME NEW f \in File, NEW y \in Type, EvictCountDoes(f, y)
      PROVE  Staged'
  <2>. SUFFICES ASSUME hazard' \cap {"movedUnrecorded", "failedAdded", "retried"} = {}
       PROVE  /\ \A g \in staged : StagedAt(g)'
              /\ \A t \in Token : job'[t].f \in staged /\ Owns(t)' => Alone(t)'
    BY <1>24 DEF Staged, EvictCountDoes
  <2>1. /\ \A g \in staged : StagedAt(g)
        /\ \A t \in Token : job[t].f \in staged /\ Owns(t) => Alone(t)
    BY <1>24 DEF Staged, EvictCountDoes, EvictIs
  <2>2. UNCHANGED <<imp, job, src>>
    BY <1>24 DEF EvictCountDoes
  <2>3. \A t \in Token : job'[t].f \in staged /\ Owns(t)' => Alone(t)'
    BY <2>1, <2>2 DEF Owns, Alone
  <2>4. ASSUME NEW g \in staged
        PROVE  StagedAt(g)'
    <3>1. g \in File /\ StagedAt(g)
      BY <1>4, <2>1
    <3>2. ASSUME InFlight(g)
          PROVE  /\ g \in fs => g \in fs'
                 /\ Held(g) => Held(g)'
                 /\ \A t \in Token, b \in Bytes : <<g, t, b>> \in temp => <<g, t, b>> \in temp'
      <4>1. file[g].state = "none"
        BY <1>5, <3>1, <3>2
      <4>2. QED
        BY <1>1, <1>4, <3>1, <3>2, <4>1, <1>24 DEF EvictCountDoes, Held, Exists, InFlight, StagedAt, EvictIs
    <3>3. /\ scan'.pc = "entries" /\ g \in scan'.orphans => ~InFlight(g)
          /\ \A t \in Token, b \in Bytes : scan'.pc = "entries" /\ <<g, t, b>> \in scan'.temps => ~InFlight(g)
      BY <1>4, <3>1, <1>24 DEF EvictCountDoes, StagedAt
    <3>4. QED
      BY <2>2, <3>1, <3>2, <3>3, StagedStays
  <2>5. QED
    BY <2>3, <2>4
<1>25. ASSUME NEW f \in File, NEW y \in Type, EvictTryDoes(f, y)
      PROVE  Staged'
  <2>. SUFFICES ASSUME hazard' \cap {"movedUnrecorded", "failedAdded", "retried"} = {}
       PROVE  /\ \A g \in staged : StagedAt(g)'
              /\ \A t \in Token : job'[t].f \in staged /\ Owns(t)' => Alone(t)'
    BY <1>25 DEF Staged, EvictTryDoes
  <2>1. /\ \A g \in staged : StagedAt(g)
        /\ \A t \in Token : job[t].f \in staged /\ Owns(t) => Alone(t)
    BY <1>25 DEF Staged, EvictTryDoes, EvictIs
  <2>2. UNCHANGED <<imp, job, src>>
    BY <1>25 DEF EvictTryDoes
  <2>3. \A t \in Token : job'[t].f \in staged /\ Owns(t)' => Alone(t)'
    BY <2>1, <2>2 DEF Owns, Alone
  <2>4. ASSUME NEW g \in staged
        PROVE  StagedAt(g)'
    <3>1. g \in File /\ StagedAt(g)
      BY <1>4, <2>1
    <3>2. ASSUME InFlight(g)
          PROVE  /\ g \in fs => g \in fs'
                 /\ Held(g) => Held(g)'
                 /\ \A t \in Token, b \in Bytes : <<g, t, b>> \in temp => <<g, t, b>> \in temp'
      <4>1. file[g].state = "none"
        BY <1>5, <3>1, <3>2
      <4>2. g # f
        BY <4>1, <1>25 DEF EvictTryDoes, Unmade
      <4>3. disk'[g] = disk[g] /\ fs' = fs /\ temp' = temp
        BY <1>1, <3>1, <4>2, <1>25 DEF EvictTryDoes
      <4>4. QED
        BY <4>3 DEF Held
    <3>3. /\ scan'.pc = "entries" /\ g \in scan'.orphans => ~InFlight(g)
          /\ \A t \in Token, b \in Bytes : scan'.pc = "entries" /\ <<g, t, b>> \in scan'.temps => ~InFlight(g)
      BY <1>4, <3>1, <1>25 DEF EvictTryDoes, StagedAt
    <3>4. QED
      BY <2>2, <3>1, <3>2, <3>3, StagedStays
  <2>5. QED
    BY <2>3, <2>4
<1>26. ASSUME NEW f \in File, NEW y \in Type, EvictRowDoes(f, y)
      PROVE  Staged'
  <2>. SUFFICES ASSUME hazard' \cap {"movedUnrecorded", "failedAdded", "retried"} = {}
       PROVE  /\ \A g \in staged : StagedAt(g)'
              /\ \A t \in Token : job'[t].f \in staged /\ Owns(t)' => Alone(t)'
    BY <1>26 DEF Staged, EvictRowDoes
  <2>1. /\ \A g \in staged : StagedAt(g)
        /\ \A t \in Token : job[t].f \in staged /\ Owns(t) => Alone(t)
    BY <1>26 DEF Staged, EvictRowDoes, EvictIs
  <2>2. UNCHANGED <<imp, job, src>>
    BY <1>26 DEF EvictRowDoes
  <2>3. \A t \in Token : job'[t].f \in staged /\ Owns(t)' => Alone(t)'
    BY <2>1, <2>2 DEF Owns, Alone
  <2>4. ASSUME NEW g \in staged
        PROVE  StagedAt(g)'
    <3>1. g \in File /\ StagedAt(g)
      BY <1>4, <2>1
    <3>2. ASSUME InFlight(g)
          PROVE  /\ g \in fs => g \in fs'
                 /\ Held(g) => Held(g)'
                 /\ \A t \in Token, b \in Bytes : <<g, t, b>> \in temp => <<g, t, b>> \in temp'
      <4>1. file[g].state = "none"
        BY <1>5, <3>1, <3>2
      <4>2. QED
        BY <1>1, <1>4, <3>1, <3>2, <4>1, <1>26 DEF EvictRowDoes, Held, Exists, InFlight, StagedAt, EvictIs, Unmade
    <3>3. /\ scan'.pc = "entries" /\ g \in scan'.orphans => ~InFlight(g)
          /\ \A t \in Token, b \in Bytes : scan'.pc = "entries" /\ <<g, t, b>> \in scan'.temps => ~InFlight(g)
      BY <1>4, <3>1, <1>26 DEF EvictRowDoes, StagedAt
    <3>4. QED
      BY <2>2, <3>1, <3>2, <3>3, StagedStays
  <2>5. QED
    BY <2>3, <2>4
<1>27. ASSUME EvictEndDoes
      PROVE  Staged'
  <2>. SUFFICES ASSUME hazard' \cap {"movedUnrecorded", "failedAdded", "retried"} = {}
       PROVE  /\ \A g \in staged : StagedAt(g)'
              /\ \A t \in Token : job'[t].f \in staged /\ Owns(t)' => Alone(t)'
    BY <1>27 DEF Staged, EvictEndDoes
  <2>1. /\ \A g \in staged : StagedAt(g)
        /\ \A t \in Token : job[t].f \in staged /\ Owns(t) => Alone(t)
    BY <1>27 DEF Staged, EvictEndDoes, EvictIs
  <2>2. UNCHANGED <<imp, job, src>>
    BY <1>27 DEF EvictEndDoes
  <2>3. \A t \in Token : job'[t].f \in staged /\ Owns(t)' => Alone(t)'
    BY <2>1, <2>2 DEF Owns, Alone
  <2>4. ASSUME NEW g \in staged
        PROVE  StagedAt(g)'
    <3>1. g \in File /\ StagedAt(g)
      BY <1>4, <2>1
    <3>2. ASSUME InFlight(g)
          PROVE  /\ g \in fs => g \in fs'
                 /\ Held(g) => Held(g)'
                 /\ \A t \in Token, b \in Bytes : <<g, t, b>> \in temp => <<g, t, b>> \in temp'
      <4>1. file[g].state = "none"
        BY <1>5, <3>1, <3>2
      <4>2. QED
        BY <1>1, <1>4, <3>1, <3>2, <4>1, <1>27 DEF EvictEndDoes, Held, Exists, InFlight, StagedAt, EvictIs
    <3>3. /\ scan'.pc = "entries" /\ g \in scan'.orphans => ~InFlight(g)
          /\ \A t \in Token, b \in Bytes : scan'.pc = "entries" /\ <<g, t, b>> \in scan'.temps => ~InFlight(g)
      BY <1>4, <3>1, <1>27 DEF EvictEndDoes, StagedAt
    <3>4. QED
      BY <2>2, <3>1, <3>2, <3>3, StagedStays
  <2>5. QED
    BY <2>3, <2>4
<1>28. ASSUME NEW f \in File, NEW y \in Type, NEW z \in Type \union {"none"}, retypeFileDoes(f,
  y, z)
      PROVE  Staged'
  <2>. SUFFICES ASSUME hazard' \cap {"movedUnrecorded", "failedAdded", "retried"} = {}
       PROVE  /\ \A g \in staged : StagedAt(g)'
              /\ \A t \in Token : job'[t].f \in staged /\ Owns(t)' => Alone(t)'
    BY <1>28 DEF Staged, retypeFileDoes
  <2>1. /\ \A g \in staged : StagedAt(g)
        /\ \A t \in Token : job[t].f \in staged /\ Owns(t) => Alone(t)
    BY <1>28 DEF Staged, retypeFileDoes, FileIs, Recorded
  <2>2. UNCHANGED <<imp, job, src>>
    BY <1>28 DEF retypeFileDoes
  <2>3. \A t \in Token : job'[t].f \in staged /\ Owns(t)' => Alone(t)'
    BY <2>1, <2>2 DEF Owns, Alone
  <2>4. ASSUME NEW g \in staged
        PROVE  StagedAt(g)'
    <3>1. g \in File /\ StagedAt(g)
      BY <1>4, <2>1
    <3>2. ASSUME InFlight(g)
          PROVE  /\ g \in fs => g \in fs'
                 /\ Held(g) => Held(g)'
                 /\ \A t \in Token, b \in Bytes : <<g, t, b>> \in temp => <<g, t, b>> \in temp'
      <4>1. file[g].state = "none"
        BY <1>5, <3>1, <3>2
      <4>2. QED
        BY <1>1, <1>4, <3>1, <3>2, <4>1, <1>28 DEF retypeFileDoes, Held, Exists, InFlight, StagedAt, FileIs, Recorded, Unmade
    <3>3. /\ scan'.pc = "entries" /\ g \in scan'.orphans => ~InFlight(g)
          /\ \A t \in Token, b \in Bytes : scan'.pc = "entries" /\ <<g, t, b>> \in scan'.temps => ~InFlight(g)
      BY <1>4, <3>1, <1>28 DEF retypeFileDoes, StagedAt
    <3>4. QED
      BY <2>2, <3>1, <3>2, <3>3, StagedStays
  <2>5. QED
    BY <2>3, <2>4
<1>29. ASSUME SwitchIndexerDoes
      PROVE  Staged'
  <2>. SUFFICES ASSUME hazard' \cap {"movedUnrecorded", "failedAdded", "retried"} = {}
       PROVE  /\ \A g \in staged : StagedAt(g)'
              /\ \A t \in Token : job'[t].f \in staged /\ Owns(t)' => Alone(t)'
    BY <1>29 DEF Staged, SwitchIndexerDoes
  <2>1. /\ \A g \in staged : StagedAt(g)
        /\ \A t \in Token : job[t].f \in staged /\ Owns(t) => Alone(t)
    BY <1>29 DEF Staged, SwitchIndexerDoes
  <2>2. UNCHANGED <<imp, job, src>>
    BY <1>29 DEF SwitchIndexerDoes
  <2>3. \A t \in Token : job'[t].f \in staged /\ Owns(t)' => Alone(t)'
    BY <2>1, <2>2 DEF Owns, Alone
  <2>4. ASSUME NEW g \in staged
        PROVE  StagedAt(g)'
    <3>1. g \in File /\ StagedAt(g)
      BY <1>4, <2>1
    <3>2. ASSUME InFlight(g)
          PROVE  /\ g \in fs => g \in fs'
                 /\ Held(g) => Held(g)'
                 /\ \A t \in Token, b \in Bytes : <<g, t, b>> \in temp => <<g, t, b>> \in temp'
      <4>1. file[g].state = "none"
        BY <1>5, <3>1, <3>2
      <4>2. QED
        BY <1>1, <1>4, <3>1, <3>2, <4>1, <1>29 DEF SwitchIndexerDoes, Held, Exists, InFlight, StagedAt
    <3>3. /\ scan'.pc = "entries" /\ g \in scan'.orphans => ~InFlight(g)
          /\ \A t \in Token, b \in Bytes : scan'.pc = "entries" /\ <<g, t, b>> \in scan'.temps => ~InFlight(g)
      BY <1>4, <3>1, <1>29 DEF SwitchIndexerDoes, StagedAt
    <3>4. QED
      BY <2>2, <3>1, <3>2, <3>3, StagedStays
  <2>5. QED
    BY <2>3, <2>4
<1>30. ASSUME ScanListDoes
      PROVE  Staged'
  <2>. SUFFICES ASSUME hazard' \cap {"movedUnrecorded", "failedAdded", "retried"} = {}
       PROVE  /\ \A g \in staged : StagedAt(g)'
              /\ \A t \in Token : job'[t].f \in staged /\ Owns(t)' => Alone(t)'
    BY <1>30 DEF Staged, ScanListDoes
  <2>1. /\ \A g \in staged : StagedAt(g)
        /\ \A t \in Token : job[t].f \in staged /\ Owns(t) => Alone(t)
    BY <1>30 DEF Staged, ScanListDoes, ScanIs
  <2>2. UNCHANGED <<imp, job, src>>
    BY <1>30 DEF ScanListDoes
  <2>3. \A t \in Token : job'[t].f \in staged /\ Owns(t)' => Alone(t)'
    BY <2>1, <2>2 DEF Owns, Alone
  <2>4. ASSUME NEW g \in staged
        PROVE  StagedAt(g)'
    <3>1. g \in File /\ StagedAt(g)
      BY <1>4, <2>1
    <3>2. ASSUME InFlight(g)
          PROVE  /\ g \in fs => g \in fs'
                 /\ Held(g) => Held(g)'
                 /\ \A t \in Token, b \in Bytes : <<g, t, b>> \in temp => <<g, t, b>> \in temp'
      <4>1. file[g].state = "none"
        BY <1>5, <3>1, <3>2
      <4>2. QED
        BY <1>1, <1>4, <3>1, <3>2, <4>1, <1>30 DEF ScanListDoes, Held, Exists, InFlight, StagedAt, ScanIs
    <3>3. /\ scan'.pc = "entries" /\ g \in scan'.orphans => ~InFlight(g)
          /\ \A t \in Token, b \in Bytes : scan'.pc = "entries" /\ <<g, t, b>> \in scan'.temps => ~InFlight(g)
      BY <1>4, <3>1, <1>30 DEF ScanListDoes, StagedAt, ScanIs
    <3>4. QED
      BY <2>2, <3>1, <3>2, <3>3, StagedStays
  <2>5. QED
    BY <2>3, <2>4
<1>31. ASSUME TickBeginDoes
      PROVE  Staged'
  <2>. SUFFICES ASSUME hazard' \cap {"movedUnrecorded", "failedAdded", "retried"} = {}
       PROVE  /\ \A g \in staged : StagedAt(g)'
              /\ \A t \in Token : job'[t].f \in staged /\ Owns(t)' => Alone(t)'
    BY <1>31 DEF Staged, TickBeginDoes
  <2>1. /\ \A g \in staged : StagedAt(g)
        /\ \A t \in Token : job[t].f \in staged /\ Owns(t) => Alone(t)
    BY <1>31 DEF Staged, TickBeginDoes, RowIs
  <2>2. UNCHANGED <<job, fs, disk, temp, scan>>
    BY <1>31 DEF TickBeginDoes
  <2>3. \A g \in staged : /\ g \in File /\ ~(imp'[g].state = "unavailable" /\ imp'[g].dead)
                          /\ InFlight(g)' => InFlight(g) /\ src'[g] = src[g]
    BY <1>1, <1>3, <1>4, <2>1, <1>31 DEF TickBeginDoes, StagedAt, InFlight, RowIs
  <2>4. \A t \in Token : job[t].f \in staged /\ Owns(t)' => Owns(t) /\ src'[job[t].f] = src[job[t].f]
    BY <1>1, <1>2, <1>3, <1>4, <2>2, <1>31 DEF TickBeginDoes, Owns, RowIs
  <2>5. ASSUME NEW g \in staged
        PROVE  StagedAt(g)'
    <3>1. \A t \in Token : Carried(g, t) => Carried(g, t)'
      BY <2>2 DEF Carried, Held
    <3>2. QED
      BY <2>1, <2>2, <2>3, <3>1 DEF StagedAt, Held
  <2>6. QED
    BY <2>1, <2>2, <2>4, <2>5 DEF Alone
<1>32. ASSUME TickDoes
      PROVE  Staged'
  <2>. SUFFICES ASSUME hazard' \cap {"movedUnrecorded", "failedAdded", "retried"} = {}
       PROVE  /\ \A g \in staged : StagedAt(g)'
              /\ \A t \in Token : job'[t].f \in staged /\ Owns(t)' => Alone(t)'
    BY <1>32 DEF Staged, TickDoes
  <2>1. /\ \A g \in staged : StagedAt(g)
        /\ \A t \in Token : job[t].f \in staged /\ Owns(t) => Alone(t)
    BY <1>32 DEF Staged, TickDoes
  <2>2. UNCHANGED <<imp, job, src>>
    BY <1>32 DEF TickDoes
  <2>3. \A t \in Token : job'[t].f \in staged /\ Owns(t)' => Alone(t)'
    BY <2>1, <2>2 DEF Owns, Alone
  <2>4. ASSUME NEW g \in staged
        PROVE  StagedAt(g)'
    <3>1. g \in File /\ StagedAt(g)
      BY <1>4, <2>1
    <3>2. ASSUME InFlight(g)
          PROVE  /\ g \in fs => g \in fs'
                 /\ Held(g) => Held(g)'
                 /\ \A t \in Token, b \in Bytes : <<g, t, b>> \in temp => <<g, t, b>> \in temp'
      <4>1. file[g].state = "none"
        BY <1>5, <3>1, <3>2
      <4>2. QED
        BY <1>1, <1>4, <3>1, <3>2, <4>1, <1>32 DEF TickDoes, Held, Exists, InFlight, StagedAt
    <3>3. /\ scan'.pc = "entries" /\ g \in scan'.orphans => ~InFlight(g)
          /\ \A t \in Token, b \in Bytes : scan'.pc = "entries" /\ <<g, t, b>> \in scan'.temps => ~InFlight(g)
      BY <1>4, <3>1, <1>32 DEF TickDoes, StagedAt
    <3>4. QED
      BY <2>2, <3>1, <3>2, <3>3, StagedStays
  <2>5. QED
    BY <2>3, <2>4
<1>33. ASSUME NEW f \in File, NEW t \in Token, ClaimDoes(f, t)
      PROVE  Staged'
  <2>. SUFFICES ASSUME hazard' \cap {"movedUnrecorded", "failedAdded", "retried"} = {}
       PROVE  /\ \A g \in staged : StagedAt(g)'
              /\ \A v \in Token : job'[v].f \in staged /\ Owns(v)' => Alone(v)'
    BY <1>33 DEF Staged, ClaimDoes
  <2>1. /\ \A g \in staged : StagedAt(g)
        /\ \A v \in Token : job[v].f \in staged /\ Owns(v) => Alone(v)
    BY <1>33 DEF Staged, ClaimDoes, ImpIs, RowIs
  <2>2. /\ UNCHANGED <<src, fs, disk, temp, scan>> /\ \A u \in Token \ {t} : job'[u] = job[u]
        /\ job'[t].f = f /\ job'[t].pc = "start" /\ job[t].pc = "free" /\ imp'[f].token = t
        /\ \A g \in File \ {f} : imp'[g] = imp[g]
    BY <1>33 DEF ClaimDoes, ImpIs, RowIs
  <2>3. \A g \in File : InFlight(g)' => InFlight(g)
    BY <1>33 DEF ClaimDoes, InFlight, ImpIs, RowIs
  <2>4. \A g \in File : imp'[g].state = "unavailable" => imp'[g] = imp[g]
    BY <1>33 DEF ClaimDoes, ImpIs, RowIs
  <2>5. ASSUME NEW g \in staged
        PROVE  StagedAt(g)'
    <3>1. \A u \in Token : Carried(g, u) => Carried(g, u)'
      BY <2>2 DEF Carried, Held
    <3>2. QED
      BY <1>4, <2>1, <2>2, <2>3, <2>4, <3>1 DEF StagedAt, Held
  <2>6. ASSUME NEW u \in Token, job'[u].f \in staged, Owns(u)'
        PROVE  Alone(u)'
    <3>1. CASE u = t
      <4>1. \A v \in Token : job[v].f = f => v \notin Copying
        BY <2>2, <2>6, <3>1, <1>33 DEF ClaimDoes
      <4>2. QED
        BY <2>2, <3>1, <4>1 DEF Alone, Copying
    <3>2. CASE u # t
      <4>1. Owns(u) /\ job[u].f \in staged
        BY <1>2, <2>2, <2>6, <3>2 DEF Owns
      <4>2. QED
        BY <2>1, <2>2, <3>2, <4>1 DEF Alone
    <3>3. QED
      BY <3>1, <3>2
  <2>7. QED
    BY <2>5, <2>6
<1>34. ASSUME NEW t \in Token, JobStartDoes(t)
      PROVE  Staged'
  <2>. SUFFICES ASSUME hazard' \cap {"movedUnrecorded", "failedAdded", "retried"} = {}
       PROVE  /\ \A g \in staged : StagedAt(g)'
              /\ \A v \in Token : job'[v].f \in staged /\ Owns(v)' => Alone(v)'
    BY <1>34 DEF Staged, JobStartDoes
  <2>1. /\ \A g \in staged : StagedAt(g)
        /\ \A v \in Token : job[v].f \in staged /\ Owns(v) => Alone(v)
    BY <1>34 DEF Staged, JobStartDoes, JobIs
  <2>2. /\ \A u \in Token \ {t} : job'[u] = job[u]
        /\ job'[t].f = job[t].f /\ UNCHANGED scan
    BY <1>34 DEF JobStartDoes, JobIs
  <2>3. \A u \in Token : Owns(u)' => Owns(u)
    <3>1. \A h \in File : imp'[h].state = "active" =>
            imp[h].state = "active" /\ imp'[h].token = imp[h].token
      BY <1>1, <1>2, <1>3, <1>4, <1>34 DEF JobStartDoes, Owns, JobIs
    <3>2. QED
      BY <1>2, <2>2, <3>1 DEF Owns
  <2>4. ASSUME NEW g \in staged, g # job[t].f
        PROVE  StagedAt(g)'
    <3>1. g \in File /\ StagedAt(g)
      BY <1>4, <2>1, <2>4
    <3>2. /\ imp'[g] = imp[g] /\ src'[g] = src[g] /\ disk'[g] = disk[g] /\ (g \in fs => g \in fs')
          /\ \A u \in Token, b \in Bytes : <<g, u, b>> \in temp => <<g, u, b>> \in temp'
      BY <1>1, <1>2, <2>4, <3>1, <1>34 DEF JobStartDoes, JobIs
    <3>3. \A u \in Token : Carried(g, u) => Carried(g, u)'
      BY <2>2, <2>4, <3>2 DEF Carried, Held
    <3>4. QED
      BY <2>2, <3>1, <3>2, <3>3 DEF StagedAt, InFlight, Held
  <2>5. ASSUME NEW g \in staged, g = job[t].f
        PROVE  StagedAt(g)'
    <3>1. g \in File /\ StagedAt(g)
      BY <1>4, <2>1
    <3>2. /\ InFlight(g)' => InFlight(g)
          /\ ~(imp'[g].state = "unavailable" /\ imp'[g].dead)
      BY <1>1, <1>2, <1>4, <2>1, <2>5, <3>1, <1>34 DEF JobStartDoes, StagedAt, InFlight, JobIs
    <3>3. ASSUME InFlight(g)', src'[g] = "none"
          PROVE  (g \in fs' /\ Held(g)') \/ \E u \in Token : Carried(g, u)'
      <4>1. src[g] = "none" /\ UNCHANGED <<fs, temp>> /\ job[t].pc = "start"
        BY <2>5, <3>3, <1>34 DEF JobStartDoes
      <4>2. ASSUME Held(g)
            PROVE  Held(g)'
        <5>1. CASE disk' = disk
          BY <4>2, <5>1 DEF Held
        <5>2. ASSUME NEW y \in Type, disk[g][y] # "none", disk[g][job[t].type] = "none",
                     disk' = [disk EXCEPT ![job[t].f][job[t].type] = disk[g][y], ![job[t].f][y] = "none"]
              PROVE  Held(g)'
          <6>1. disk[g][y] \in Bytes
            BY <1>1, <3>1
          <6>2. disk'[g][job[t].type] = disk[g][y]
            BY <1>1, <1>2, <2>5, <5>2, <6>1, MovedBytes
          <6>3. QED
            BY <1>2, <5>2, <6>2 DEF Held
        <5>3. QED
          BY <2>5, <5>1, <5>2, <1>34 DEF JobStartDoes
      <4>3. ASSUME NEW u \in Token, Carried(g, u)
            PROVE  Carried(g, u)'
        <5>1. u # t
          BY <4>1, <4>3 DEF Carried
        <5>2. QED
          BY <2>2, <4>1, <4>2, <4>3, <5>1 DEF Carried
      <4>4. QED
        BY <3>1, <3>2, <3>3, <4>1, <4>2, <4>3 DEF StagedAt
    <3>4. QED
      BY <2>2, <3>1, <3>2, <3>3 DEF StagedAt
  <2>6. ASSUME NEW u \in Token, job'[u].f \in staged, Owns(u)'
        PROVE  Alone(u)'
    <3>1. job[u].f \in staged /\ Owns(u) /\ Alone(u)
      BY <2>1, <2>2, <2>3, <2>6
    <3>2. src' = src /\ job'[t].pc \notin {"copy", "temp", "placed"}
      BY <1>34 DEF JobStartDoes, JobIs
    <3>3. ASSUME u = t, job'[t].pc = "resolve"
          PROVE  src[job[t].f] # "none"
      <4>1. StagedAt(job[t].f) /\ InFlight(job[t].f)
        BY <2>1, <3>1, <3>3 DEF Owns, InFlight
      <4>2. ~(job[t].f \in fs /\ Held(job[t].f)) /\ job[t].pc = "start"
        BY <3>3, <1>34 DEF JobStartDoes, JobIs, Held
      <4>3. \A v \in Token : ~Carried(job[t].f, v)
        BY <3>1, <3>3, <4>2 DEF Alone, Carried
      <4>4. QED
        BY <4>1, <4>2, <4>3 DEF StagedAt
    <3>4. job'[t].pc # "copy"
      BY <3>2
    <3>5. QED
      BY <2>2, <3>1, <3>2, <3>3, <3>4 DEF Alone
  <2>7. QED
    BY <2>4, <2>5, <2>6
<1>35. ASSUME NEW t \in Token, ResolveDoes(t)
      PROVE  Staged'
  <2>. SUFFICES ASSUME hazard' \cap {"movedUnrecorded", "failedAdded", "retried"} = {}
       PROVE  /\ \A g \in staged : StagedAt(g)'
              /\ \A v \in Token : job'[v].f \in staged /\ Owns(v)' => Alone(v)'
    BY <1>35 DEF Staged, ResolveDoes
  <2>1. /\ \A g \in staged : StagedAt(g)
        /\ \A v \in Token : job[v].f \in staged /\ Owns(v) => Alone(v)
    BY <1>35 DEF Staged, ResolveDoes, ImpIs, JobIs, RowIs, Settles
  <2>2. /\ \A u \in Token \ {t} : job'[u] = job[u]
        /\ job'[t].f = job[t].f /\ UNCHANGED scan
    BY <1>35 DEF ResolveDoes, JobIs
  <2>3. \A u \in Token : Owns(u)' => Owns(u)
    <3>1. \A h \in File : imp'[h].state = "active" =>
            imp[h].state = "active" /\ imp'[h].token = imp[h].token
      BY <1>1, <1>2, <1>3, <1>4, <1>35 DEF ResolveDoes, Owns, ImpIs, JobIs, RowIs, Settles
    <3>2. QED
      BY <1>2, <2>2, <3>1 DEF Owns
  <2>4. ASSUME NEW g \in staged, g # job[t].f
        PROVE  StagedAt(g)'
    <3>1. g \in File /\ StagedAt(g)
      BY <1>4, <2>1, <2>4
    <3>2. /\ imp'[g] = imp[g] /\ src'[g] = src[g] /\ disk'[g] = disk[g] /\ (g \in fs => g \in fs')
          /\ \A u \in Token, b \in Bytes : <<g, u, b>> \in temp => <<g, u, b>> \in temp'
      BY <1>1, <1>2, <2>4, <3>1, <1>35 DEF ResolveDoes, ImpIs, JobIs, RowIs, Settles
    <3>3. \A u \in Token : Carried(g, u) => Carried(g, u)'
      BY <2>2, <2>4, <3>2 DEF Carried, Held
    <3>4. QED
      BY <2>2, <3>1, <3>2, <3>3 DEF StagedAt, InFlight, Held
  <2>5. ASSUME NEW g \in staged, g = job[t].f
        PROVE  StagedAt(g)'
    <3>1. g \in File /\ StagedAt(g)
      BY <1>4, <2>1
    <3>2. /\ InFlight(g)' => InFlight(g)
          /\ ~(imp'[g].state = "unavailable" /\ imp'[g].dead)
      BY <1>1, <1>2, <1>4, <2>1, <2>5, <3>1, <1>35 DEF ResolveDoes, StagedAt, InFlight, ImpIs, JobIs, RowIs, Settles, Alone
    <3>3. ASSUME InFlight(g)', src'[g] = "none"
          PROVE  (g \in fs' /\ Held(g)') \/ \E u \in Token : Carried(g, u)'
      <4>1. src[g] = "none"
        BY <3>3, <1>35 DEF ResolveDoes
      <4>2. CASE g \in fs /\ Held(g)
        BY <1>1, <1>2, <1>4, <1>6, <2>5, <3>2, <3>3, <4>2, <1>35 DEF ResolveDoes, Held, ImpIs, JobIs, RowIs, Settles
      <4>3. ASSUME NEW u \in Token, Carried(g, u)
            PROVE  u # t /\ Carried(g, u)'
        BY <1>1, <1>2, <1>4, <1>6, <2>2, <2>5, <3>2, <3>3, <4>3, <1>35 DEF ResolveDoes, Carried, Held, ImpIs, JobIs, RowIs, Settles
      <4>4. QED
        BY <3>1, <3>2, <3>3, <4>1, <4>2, <4>3 DEF StagedAt
    <3>4. QED
      BY <2>2, <3>1, <3>2, <3>3 DEF StagedAt
  <2>6. ASSUME NEW u \in Token, job'[u].f \in staged, Owns(u)'
        PROVE  Alone(u)'
    <3>1. job[u].f \in staged /\ Owns(u) /\ Alone(u)
      BY <2>1, <2>2, <2>3, <2>6
    <3>2. src' = src
      BY <1>35 DEF ResolveDoes
    <3>3. CASE u = t
      BY <2>2, <3>1, <3>2, <3>3, <1>35 DEF Alone, ResolveDoes, JobIs
    <3>4. CASE u # t
      <4>1. job[t].f # job[u].f
        BY <1>6, <1>7, <3>1, <3>4, <1>35 DEF ResolveDoes
      <4>2. QED
        BY <2>2, <3>1, <3>2, <3>4, <4>1 DEF Alone
    <3>5. QED
      BY <3>3, <3>4
  <2>7. QED
    BY <2>4, <2>5, <2>6
<1>36. ASSUME NEW t \in Token, CopyDoes(t)
      PROVE  Staged'
  <2>. SUFFICES ASSUME hazard' \cap {"movedUnrecorded", "failedAdded", "retried"} = {}
       PROVE  /\ \A g \in staged : StagedAt(g)'
              /\ \A v \in Token : job'[v].f \in staged /\ Owns(v)' => Alone(v)'
    BY <1>36 DEF Staged, CopyDoes
  <2>1. /\ \A g \in staged : StagedAt(g)
        /\ \A v \in Token : job[v].f \in staged /\ Owns(v) => Alone(v)
    BY <1>36 DEF Staged, CopyDoes, JobIs, Late
  <2>2. /\ \A u \in Token \ {t} : job'[u] = job[u]
        /\ job'[t].f = job[t].f /\ UNCHANGED scan
    BY <1>36 DEF CopyDoes, JobIs
  <2>3. \A u \in Token : Owns(u)' => Owns(u)
    <3>1. \A h \in File : imp'[h].state = "active" =>
            imp[h].state = "active" /\ imp'[h].token = imp[h].token
      BY <1>1, <1>2, <1>3, <1>4, <1>36 DEF CopyDoes, Owns, JobIs, Late
    <3>2. QED
      BY <1>2, <2>2, <3>1 DEF Owns
  <2>4. ASSUME NEW g \in staged, g # job[t].f
        PROVE  StagedAt(g)'
    <3>1. g \in File /\ StagedAt(g)
      BY <1>4, <2>1, <2>4
    <3>2. /\ imp'[g] = imp[g] /\ src'[g] = src[g] /\ disk'[g] = disk[g] /\ (g \in fs => g \in fs')
          /\ \A u \in Token, b \in Bytes : <<g, u, b>> \in temp => <<g, u, b>> \in temp'
      BY <1>1, <1>2, <2>4, <3>1, <1>36 DEF CopyDoes, JobIs, Late
    <3>3. \A u \in Token : Carried(g, u) => Carried(g, u)'
      BY <2>2, <2>4, <3>2 DEF Carried, Held
    <3>4. QED
      BY <2>2, <3>1, <3>2, <3>3 DEF StagedAt, InFlight, Held
  <2>5. ASSUME NEW g \in staged, g = job[t].f
        PROVE  StagedAt(g)'
    <3>1. g \in File /\ StagedAt(g)
      BY <1>4, <2>1
    <3>2. /\ InFlight(g)' => InFlight(g)
          /\ ~(imp'[g].state = "unavailable" /\ imp'[g].dead)
      BY <1>1, <1>2, <1>4, <2>1, <2>5, <3>1, <1>36 DEF CopyDoes, StagedAt, InFlight, JobIs, Late
    <3>3. ASSUME InFlight(g)', src'[g] = "none"
          PROVE  (g \in fs' /\ Held(g)') \/ \E u \in Token : Carried(g, u)'
      <4>1. /\ job'[t].f = g /\ src[g] # "none" /\ src[g] \in Bytes
        BY <1>1, <2>2, <2>5, <3>1, <1>36 DEF CopyDoes, Bytes
      <4>2. CASE job'[t].pc = "temp" /\ temp' = temp \union {<<g, t, src[g]>>}
        BY <4>1, <4>2 DEF Carried
      <4>3. CASE job'[t].pc = "placed" /\ disk' = [disk EXCEPT ![g][job[t].type] = src[g]]
        <5>1. disk'[g][job[t].type] = src[g]
          BY <1>1, <1>2, <3>1, <4>3
        <5>2. QED
          BY <1>2, <4>1, <4>3, <5>1 DEF Carried, Held
      <4>4. QED
        BY <2>5, <4>2, <4>3, <1>36 DEF CopyDoes, JobIs
    <3>4. QED
      BY <2>2, <3>1, <3>2, <3>3 DEF StagedAt
  <2>6. ASSUME NEW u \in Token, job'[u].f \in staged, Owns(u)'
        PROVE  Alone(u)'
    <3>1. job[u].f \in staged /\ Owns(u) /\ Alone(u)
      BY <2>1, <2>2, <2>3, <2>6
    <3>2. CASE u = t
      <4>1. job'[t].pc \in {"temp", "placed"}
        BY <1>36 DEF CopyDoes, JobIs
      <4>2. QED
        BY <2>2, <3>1, <3>2, <4>1 DEF Alone
    <3>3. CASE u # t
      <4>1. job[t].f # job[u].f
        BY <3>1, <3>3, <1>36 DEF CopyDoes, Alone
      <4>2. src'[job[u].f] = src[job[u].f]
        BY <1>1, <1>2, <4>1, <1>36 DEF CopyDoes
      <4>3. QED
        BY <2>2, <3>1, <3>3, <4>1, <4>2 DEF Alone
    <3>4. QED
      BY <3>2, <3>3
  <2>7. QED
    BY <2>4, <2>5, <2>6
<1>37. ASSUME NEW t \in Token, CancelCopyDoes(t)
      PROVE  Staged'
  <2>. SUFFICES ASSUME hazard' \cap {"movedUnrecorded", "failedAdded", "retried"} = {}
       PROVE  /\ \A g \in staged : StagedAt(g)'
              /\ \A v \in Token : job'[v].f \in staged /\ Owns(v)' => Alone(v)'
    BY <1>37 DEF Staged, CancelCopyDoes
  <2>1. /\ \A g \in staged : StagedAt(g)
        /\ \A v \in Token : job[v].f \in staged /\ Owns(v) => Alone(v)
    BY <1>37 DEF Staged, CancelCopyDoes, JobIs
  <2>2. /\ \A u \in Token \ {t} : job'[u] = job[u]
        /\ job'[t].f = job[t].f /\ UNCHANGED scan
    BY <1>37 DEF CancelCopyDoes, JobIs
  <2>3. \A u \in Token : Owns(u)' => Owns(u)
    <3>1. \A h \in File : imp'[h].state = "active" =>
            imp[h].state = "active" /\ imp'[h].token = imp[h].token
      BY <1>1, <1>2, <1>3, <1>4, <1>37 DEF CancelCopyDoes, Owns, JobIs
    <3>2. QED
      BY <1>2, <2>2, <3>1 DEF Owns
  <2>4. ASSUME NEW g \in staged, g # job[t].f
        PROVE  StagedAt(g)'
    <3>1. g \in File /\ StagedAt(g)
      BY <1>4, <2>1, <2>4
    <3>2. /\ imp'[g] = imp[g] /\ src'[g] = src[g] /\ disk'[g] = disk[g] /\ (g \in fs => g \in fs')
          /\ \A u \in Token, b \in Bytes : <<g, u, b>> \in temp => <<g, u, b>> \in temp'
      BY <1>1, <1>2, <2>4, <3>1, <1>37 DEF CancelCopyDoes, JobIs
    <3>3. \A u \in Token : Carried(g, u) => Carried(g, u)'
      BY <2>2, <2>4, <3>2 DEF Carried, Held
    <3>4. QED
      BY <2>2, <3>1, <3>2, <3>3 DEF StagedAt, InFlight, Held
  <2>5. ASSUME NEW g \in staged, g = job[t].f
        PROVE  StagedAt(g)'
    <3>1. g \in File /\ StagedAt(g)
      BY <1>4, <2>1
    <3>2. /\ InFlight(g)' => InFlight(g)
          /\ ~(imp'[g].state = "unavailable" /\ imp'[g].dead)
      BY <1>1, <1>2, <1>4, <2>1, <2>5, <3>1, <1>37 DEF CancelCopyDoes, StagedAt, InFlight, JobIs
    <3>3. ASSUME InFlight(g)', src'[g] = "none"
          PROVE  (g \in fs' /\ Held(g)') \/ \E u \in Token : Carried(g, u)'
      <4>1. src[g] = "none"
        BY <3>3, <1>37 DEF CancelCopyDoes
      <4>2. CASE g \in fs /\ Held(g)
        BY <1>1, <1>2, <1>4, <1>6, <2>5, <3>2, <3>3, <4>2, <1>37 DEF CancelCopyDoes, Held, JobIs
      <4>3. ASSUME NEW u \in Token, Carried(g, u)
            PROVE  u # t /\ Carried(g, u)'
        BY <1>1, <1>2, <1>4, <1>6, <2>2, <2>5, <3>2, <3>3, <4>3, <1>37 DEF CancelCopyDoes, Carried, Held, JobIs
      <4>4. QED
        BY <3>1, <3>2, <3>3, <4>1, <4>2, <4>3 DEF StagedAt
    <3>4. QED
      BY <2>2, <3>1, <3>2, <3>3 DEF StagedAt
  <2>6. ASSUME NEW u \in Token, job'[u].f \in staged, Owns(u)'
        PROVE  Alone(u)'
    <3>1. job[u].f \in staged /\ Owns(u) /\ Alone(u)
      BY <2>1, <2>2, <2>3, <2>6
    <3>2. src' = src
      BY <1>37 DEF CancelCopyDoes
    <3>3. job'[t].pc \notin {"copy", "temp", "placed"} \/ job[t].pc \in {"copy", "temp", "placed"}
      BY <1>37 DEF CancelCopyDoes, JobIs
    <3>4. job'[t].pc \notin {"resolve", "copy"}
      BY <1>37 DEF CancelCopyDoes, JobIs
    <3>5. QED
      BY <2>2, <3>1, <3>2, <3>3, <3>4 DEF Alone
  <2>7. QED
    BY <2>4, <2>5, <2>6
<1>38. ASSUME NEW t \in Token, PublishDoes(t)
      PROVE  Staged'
  <2>. SUFFICES ASSUME hazard' \cap {"movedUnrecorded", "failedAdded", "retried"} = {}
       PROVE  /\ \A g \in staged : StagedAt(g)'
              /\ \A v \in Token : job'[v].f \in staged /\ Owns(v)' => Alone(v)'
    BY <1>38 DEF Staged, PublishDoes
  <2>1. /\ \A g \in staged : StagedAt(g)
        /\ \A v \in Token : job[v].f \in staged /\ Owns(v) => Alone(v)
    BY <1>38 DEF Staged, PublishDoes, JobIs, Late
  <2>2. /\ \A u \in Token \ {t} : job'[u] = job[u]
        /\ job'[t].f = job[t].f /\ UNCHANGED scan
    BY <1>38 DEF PublishDoes, JobIs
  <2>3. \A u \in Token : Owns(u)' => Owns(u)
    <3>1. \A h \in File : imp'[h].state = "active" =>
            imp[h].state = "active" /\ imp'[h].token = imp[h].token
      BY <1>1, <1>2, <1>3, <1>4, <1>38 DEF PublishDoes, Owns, JobIs, Late
    <3>2. QED
      BY <1>2, <2>2, <3>1 DEF Owns
  <2>4. ASSUME NEW g \in staged, g # job[t].f
        PROVE  StagedAt(g)'
    <3>1. g \in File /\ StagedAt(g)
      BY <1>4, <2>1, <2>4
    <3>2. /\ imp'[g] = imp[g] /\ src'[g] = src[g] /\ disk'[g] = disk[g] /\ (g \in fs => g \in fs')
          /\ \A u \in Token, b \in Bytes : <<g, u, b>> \in temp => <<g, u, b>> \in temp'
      BY <1>1, <1>2, <2>4, <3>1, <1>38 DEF PublishDoes, JobIs, Late
    <3>3. \A u \in Token : Carried(g, u) => Carried(g, u)'
      BY <2>2, <2>4, <3>2 DEF Carried, Held
    <3>4. QED
      BY <2>2, <3>1, <3>2, <3>3 DEF StagedAt, InFlight, Held
  <2>5. ASSUME NEW g \in staged, g = job[t].f
        PROVE  StagedAt(g)'
    <3>1. g \in File /\ StagedAt(g)
      BY <1>4, <2>1
    <3>2. /\ InFlight(g)' => InFlight(g)
          /\ ~(imp'[g].state = "unavailable" /\ imp'[g].dead)
      BY <1>1, <1>2, <1>4, <2>1, <2>5, <3>1, <1>38 DEF PublishDoes, StagedAt, InFlight, JobIs, Late
    <3>3. ASSUME InFlight(g)', src'[g] = "none"
          PROVE  (g \in fs' /\ Held(g)') \/ \E u \in Token : Carried(g, u)'
      <4>1. src[g] = "none"
        BY <3>3, <1>38 DEF PublishDoes
      <4>2. /\ fs' = fs /\ Held(g)'
            /\ \A u \in Token \ {t}, b \in Bytes : <<g, u, b>> \in temp => <<g, u, b>> \in temp'
        <5>1. PICK b \in Bytes : /\ <<job[t].f, t, b>> \in temp /\ temp' = temp \ {<<job[t].f, t, b>>}
                                 /\ disk' = [disk EXCEPT ![job[t].f][job[t].type] = b]
          BY <1>38 DEF PublishDoes
        <5>2. b # "none"
          BY <1>2, <5>1 DEF Hashed
        <5>3. disk'[g][job[t].type] = b
          BY <1>1, <1>2, <2>5, <5>1
        <5>4. QED
          BY <1>2, <5>1, <5>2, <5>3, <1>38 DEF PublishDoes, Held
      <4>3. ASSUME NEW u \in Token, Carried(g, u)
            PROVE  Carried(g, u)'
        <5>1. job'[t].f = g /\ job'[t].pc = "placed"
          BY <2>5, <1>38 DEF PublishDoes, JobIs
        <5>2. CASE u = t
          BY <4>2, <5>1, <5>2 DEF Carried
        <5>3. CASE u # t
          BY <2>2, <4>2, <4>3, <5>3 DEF Carried
        <5>4. QED
          BY <5>2, <5>3
      <4>4. QED
        BY <3>1, <3>2, <3>3, <4>1, <4>2, <4>3 DEF StagedAt
    <3>4. QED
      BY <2>2, <3>1, <3>2, <3>3 DEF StagedAt
  <2>6. ASSUME NEW u \in Token, job'[u].f \in staged, Owns(u)'
        PROVE  Alone(u)'
    <3>1. job[u].f \in staged /\ Owns(u) /\ Alone(u)
      BY <2>1, <2>2, <2>3, <2>6
    <3>2. src' = src
      BY <1>38 DEF PublishDoes
    <3>3. job'[t].pc \notin {"copy", "temp", "placed"} \/ job[t].pc \in {"copy", "temp", "placed"}
      BY <1>38 DEF PublishDoes, JobIs
    <3>4. job'[t].pc \notin {"resolve", "copy"}
      BY <1>38 DEF PublishDoes, JobIs
    <3>5. QED
      BY <2>2, <3>1, <3>2, <3>3, <3>4 DEF Alone
  <2>7. QED
    BY <2>4, <2>5, <2>6
<1>39. ASSUME NEW t \in Token, RecordDoes(t)
      PROVE  Staged'
  <2>. SUFFICES ASSUME hazard' \cap {"movedUnrecorded", "failedAdded", "retried"} = {}
       PROVE  /\ \A g \in staged : StagedAt(g)'
              /\ \A v \in Token : job'[v].f \in staged /\ Owns(v)' => Alone(v)'
    BY <1>39 DEF Staged, RecordDoes
  <2>1. /\ \A g \in staged : StagedAt(g)
        /\ \A v \in Token : job[v].f \in staged /\ Owns(v) => Alone(v)
    BY <1>39 DEF Staged, RecordDoes, JobIs, Late
  <2>2. /\ \A u \in Token \ {t} : job'[u] = job[u]
        /\ job'[t].f = job[t].f /\ UNCHANGED scan
    BY <1>39 DEF RecordDoes, JobIs
  <2>3. \A u \in Token : Owns(u)' => Owns(u)
    <3>1. \A h \in File : imp'[h].state = "active" =>
            imp[h].state = "active" /\ imp'[h].token = imp[h].token
      BY <1>1, <1>2, <1>3, <1>4, <1>39 DEF RecordDoes, Owns, JobIs, Late
    <3>2. QED
      BY <1>2, <2>2, <3>1 DEF Owns
  <2>4. ASSUME NEW g \in staged, g # job[t].f
        PROVE  StagedAt(g)'
    <3>1. g \in File /\ StagedAt(g)
      BY <1>4, <2>1, <2>4
    <3>2. /\ imp'[g] = imp[g] /\ src'[g] = src[g] /\ disk'[g] = disk[g] /\ (g \in fs => g \in fs')
          /\ \A u \in Token, b \in Bytes : <<g, u, b>> \in temp => <<g, u, b>> \in temp'
      BY <1>1, <1>2, <2>4, <3>1, <1>39 DEF RecordDoes, JobIs, Late
    <3>3. \A u \in Token : Carried(g, u) => Carried(g, u)'
      BY <2>2, <2>4, <3>2 DEF Carried, Held
    <3>4. QED
      BY <2>2, <3>1, <3>2, <3>3 DEF StagedAt, InFlight, Held
  <2>5. ASSUME NEW g \in staged, g = job[t].f
        PROVE  StagedAt(g)'
    <3>1. g \in File /\ StagedAt(g)
      BY <1>4, <2>1
    <3>2. /\ InFlight(g)' => InFlight(g)
          /\ ~(imp'[g].state = "unavailable" /\ imp'[g].dead)
      BY <1>1, <1>2, <1>4, <2>1, <2>5, <3>1, <1>39 DEF RecordDoes, StagedAt, InFlight, JobIs, Late
    <3>3. ASSUME InFlight(g)', src'[g] = "none"
          PROVE  (g \in fs' /\ Held(g)') \/ \E u \in Token : Carried(g, u)'
      <4>1. src[g] = "none" /\ disk' = disk /\ g \in fs' /\ temp' = temp /\ job[t].pc = "placed"
        BY <2>5, <3>3, <1>39 DEF RecordDoes
      <4>2. CASE g \in fs /\ Held(g)
        BY <4>1, <4>2 DEF Held
      <4>3. ASSUME NEW u \in Token, Carried(g, u)
            PROVE  (g \in fs' /\ Held(g)') \/ Carried(g, u)'
        <5>1. CASE u = t
          BY <4>1, <4>3, <5>1 DEF Carried, Held
        <5>2. CASE u # t
          BY <2>2, <4>1, <4>3, <5>2 DEF Carried, Held
        <5>3. QED
          BY <5>1, <5>2
      <4>4. QED
        BY <3>1, <3>2, <3>3, <4>1, <4>2, <4>3 DEF StagedAt
    <3>4. QED
      BY <2>2, <3>1, <3>2, <3>3 DEF StagedAt
  <2>6. ASSUME NEW u \in Token, job'[u].f \in staged, Owns(u)'
        PROVE  Alone(u)'
    <3>1. job[u].f \in staged /\ Owns(u) /\ Alone(u)
      BY <2>1, <2>2, <2>3, <2>6
    <3>2. src' = src
      BY <1>39 DEF RecordDoes
    <3>3. job'[t].pc \notin {"copy", "temp", "placed"} \/ job[t].pc \in {"copy", "temp", "placed"}
      BY <1>39 DEF RecordDoes, JobIs
    <3>4. job'[t].pc \notin {"resolve", "copy"}
      BY <1>39 DEF RecordDoes, JobIs
    <3>5. QED
      BY <2>2, <3>1, <3>2, <3>3, <3>4 DEF Alone
  <2>7. QED
    BY <2>4, <2>5, <2>6
<1>40. ASSUME NEW t \in Token, RecordCutDoes(t)
      PROVE  Staged'
  <2>. SUFFICES ASSUME hazard' \cap {"movedUnrecorded", "failedAdded", "retried"} = {}
       PROVE  /\ \A g \in staged : StagedAt(g)'
              /\ \A v \in Token : job'[v].f \in staged /\ Owns(v)' => Alone(v)'
    BY <1>40 DEF Staged, RecordCutDoes
  <2>1. /\ \A g \in staged : StagedAt(g)
        /\ \A v \in Token : job[v].f \in staged /\ Owns(v) => Alone(v)
    BY <1>40 DEF Staged, RecordCutDoes, JobIs
  <2>2. /\ \A u \in Token \ {t} : job'[u] = job[u]
        /\ job'[t].f = job[t].f /\ UNCHANGED scan
    BY <1>40 DEF RecordCutDoes, JobIs
  <2>3. \A u \in Token : Owns(u)' => Owns(u)
    <3>1. \A h \in File : imp'[h].state = "active" =>
            imp[h].state = "active" /\ imp'[h].token = imp[h].token
      BY <1>1, <1>2, <1>3, <1>4, <1>40 DEF RecordCutDoes, Owns, JobIs
    <3>2. QED
      BY <1>2, <2>2, <3>1 DEF Owns
  <2>4. ASSUME NEW g \in staged, g # job[t].f
        PROVE  StagedAt(g)'
    <3>1. g \in File /\ StagedAt(g)
      BY <1>4, <2>1, <2>4
    <3>2. /\ imp'[g] = imp[g] /\ src'[g] = src[g] /\ disk'[g] = disk[g] /\ (g \in fs => g \in fs')
          /\ \A u \in Token, b \in Bytes : <<g, u, b>> \in temp => <<g, u, b>> \in temp'
      BY <1>1, <1>2, <2>4, <3>1, <1>40 DEF RecordCutDoes, JobIs
    <3>3. \A u \in Token : Carried(g, u) => Carried(g, u)'
      BY <2>2, <2>4, <3>2 DEF Carried, Held
    <3>4. QED
      BY <2>2, <3>1, <3>2, <3>3 DEF StagedAt, InFlight, Held
  <2>5. ASSUME NEW g \in staged, g = job[t].f
        PROVE  StagedAt(g)'
    <3>1. g \in File /\ StagedAt(g)
      BY <1>4, <2>1
    <3>2. /\ InFlight(g)' => InFlight(g)
          /\ ~(imp'[g].state = "unavailable" /\ imp'[g].dead)
      BY <1>1, <1>2, <1>4, <2>1, <2>5, <3>1, <1>40 DEF RecordCutDoes, StagedAt, InFlight, JobIs
    <3>3. ASSUME InFlight(g)', src'[g] = "none"
          PROVE  (g \in fs' /\ Held(g)') \/ \E u \in Token : Carried(g, u)'
      <4>1. src[g] = "none"
        BY <3>3, <1>40 DEF RecordCutDoes
      <4>2. CASE g \in fs /\ Held(g)
        BY <1>1, <1>2, <1>4, <1>6, <2>5, <3>2, <3>3, <4>2, <1>40 DEF RecordCutDoes, Held, JobIs
      <4>3. ASSUME NEW u \in Token, Carried(g, u)
            PROVE  u # t /\ Carried(g, u)'
        BY <1>1, <1>2, <1>4, <1>6, <2>2, <2>5, <3>2, <3>3, <4>3, <1>40 DEF RecordCutDoes, Carried, Held, JobIs
      <4>4. QED
        BY <3>1, <3>2, <3>3, <4>1, <4>2, <4>3 DEF StagedAt
    <3>4. QED
      BY <2>2, <3>1, <3>2, <3>3 DEF StagedAt
  <2>6. ASSUME NEW u \in Token, job'[u].f \in staged, Owns(u)'
        PROVE  Alone(u)'
    <3>1. job[u].f \in staged /\ Owns(u) /\ Alone(u)
      BY <2>1, <2>2, <2>3, <2>6
    <3>2. src' = src
      BY <1>40 DEF RecordCutDoes
    <3>3. job'[t].pc \notin {"copy", "temp", "placed"} \/ job[t].pc \in {"copy", "temp", "placed"}
      BY <1>40 DEF RecordCutDoes, JobIs
    <3>4. job'[t].pc \notin {"resolve", "copy"}
      BY <1>40 DEF RecordCutDoes, JobIs
    <3>5. QED
      BY <2>2, <3>1, <3>2, <3>3, <3>4 DEF Alone
  <2>7. QED
    BY <2>4, <2>5, <2>6
<1>41. ASSUME NEW t \in Token, HashDoes(t)
      PROVE  Staged'
  <2>. SUFFICES ASSUME hazard' \cap {"movedUnrecorded", "failedAdded", "retried"} = {}
       PROVE  /\ \A g \in staged : StagedAt(g)'
              /\ \A v \in Token : job'[v].f \in staged /\ Owns(v)' => Alone(v)'
    BY <1>41 DEF Staged, HashDoes
  <2>1. /\ \A g \in staged : StagedAt(g)
        /\ \A v \in Token : job[v].f \in staged /\ Owns(v) => Alone(v)
    BY <1>41 DEF Staged, HashDoes, JobIs
  <2>2. /\ \A u \in Token \ {t} : job'[u] = job[u]
        /\ job'[t].f = job[t].f /\ UNCHANGED scan
    BY <1>41 DEF HashDoes, JobIs
  <2>3. \A u \in Token : Owns(u)' => Owns(u)
    <3>1. \A h \in File : imp'[h].state = "active" =>
            imp[h].state = "active" /\ imp'[h].token = imp[h].token
      BY <1>1, <1>2, <1>3, <1>4, <1>41 DEF HashDoes, Owns, JobIs
    <3>2. QED
      BY <1>2, <2>2, <3>1 DEF Owns
  <2>4. ASSUME NEW g \in staged, g # job[t].f
        PROVE  StagedAt(g)'
    <3>1. g \in File /\ StagedAt(g)
      BY <1>4, <2>1, <2>4
    <3>2. /\ imp'[g] = imp[g] /\ src'[g] = src[g] /\ disk'[g] = disk[g] /\ (g \in fs => g \in fs')
          /\ \A u \in Token, b \in Bytes : <<g, u, b>> \in temp => <<g, u, b>> \in temp'
      BY <1>1, <1>2, <2>4, <3>1, <1>41 DEF HashDoes, JobIs
    <3>3. \A u \in Token : Carried(g, u) => Carried(g, u)'
      BY <2>2, <2>4, <3>2 DEF Carried, Held
    <3>4. QED
      BY <2>2, <3>1, <3>2, <3>3 DEF StagedAt, InFlight, Held
  <2>5. ASSUME NEW g \in staged, g = job[t].f
        PROVE  StagedAt(g)'
    <3>1. g \in File /\ StagedAt(g)
      BY <1>4, <2>1
    <3>2. /\ InFlight(g)' => InFlight(g)
          /\ ~(imp'[g].state = "unavailable" /\ imp'[g].dead)
      BY <1>1, <1>2, <1>4, <2>1, <2>5, <3>1, <1>41 DEF HashDoes, StagedAt, InFlight, JobIs
    <3>3. ASSUME InFlight(g)', src'[g] = "none"
          PROVE  (g \in fs' /\ Held(g)') \/ \E u \in Token : Carried(g, u)'
      <4>1. src[g] = "none"
        BY <3>3, <1>41 DEF HashDoes
      <4>2. CASE g \in fs /\ Held(g)
        BY <1>1, <1>2, <1>4, <1>6, <2>5, <3>2, <3>3, <4>2, <1>41 DEF HashDoes, Held, JobIs
      <4>3. ASSUME NEW u \in Token, Carried(g, u)
            PROVE  u # t /\ Carried(g, u)'
        BY <1>1, <1>2, <1>4, <1>6, <2>2, <2>5, <3>2, <3>3, <4>3, <1>41 DEF HashDoes, Carried, Held, JobIs
      <4>4. QED
        BY <3>1, <3>2, <3>3, <4>1, <4>2, <4>3 DEF StagedAt
    <3>4. QED
      BY <2>2, <3>1, <3>2, <3>3 DEF StagedAt
  <2>6. ASSUME NEW u \in Token, job'[u].f \in staged, Owns(u)'
        PROVE  Alone(u)'
    <3>1. job[u].f \in staged /\ Owns(u) /\ Alone(u)
      BY <2>1, <2>2, <2>3, <2>6
    <3>2. src' = src
      BY <1>41 DEF HashDoes
    <3>3. job'[t].pc \notin {"copy", "temp", "placed"} \/ job[t].pc \in {"copy", "temp", "placed"}
      BY <1>41 DEF HashDoes, JobIs
    <3>4. job'[t].pc \notin {"resolve", "copy"}
      BY <1>41 DEF HashDoes, JobIs
    <3>5. QED
      BY <2>2, <3>1, <3>2, <3>3, <3>4 DEF Alone
  <2>7. QED
    BY <2>4, <2>5, <2>6
<1>42. ASSUME NEW t \in Token, RefuseEmptyDoes(t)
      PROVE  Staged'
  <2>. SUFFICES ASSUME hazard' \cap {"movedUnrecorded", "failedAdded", "retried"} = {}
       PROVE  /\ \A g \in staged : StagedAt(g)'
              /\ \A v \in Token : job'[v].f \in staged /\ Owns(v)' => Alone(v)'
    BY <1>42 DEF Staged, RefuseEmptyDoes
  <2>1. /\ \A g \in staged : StagedAt(g)
        /\ \A v \in Token : job[v].f \in staged /\ Owns(v) => Alone(v)
    BY <1>42 DEF Staged, RefuseEmptyDoes, ImpIs, JobIs, RowIs, Settles, removeNow
  <2>2. /\ \A u \in Token \ {t} : job'[u] = job[u]
        /\ job'[t].f = job[t].f /\ UNCHANGED scan
    BY <1>42 DEF RefuseEmptyDoes, JobIs
  <2>3. \A u \in Token : Owns(u)' => Owns(u)
    <3>1. \A h \in File : imp'[h].state = "active" =>
            imp[h].state = "active" /\ imp'[h].token = imp[h].token
      BY <1>1, <1>2, <1>3, <1>4, <1>42 DEF RefuseEmptyDoes, Owns, ImpIs, JobIs, RowIs, Settles, removeNow
    <3>2. QED
      BY <1>2, <2>2, <3>1 DEF Owns
  <2>4. ASSUME NEW g \in staged, g # job[t].f
        PROVE  StagedAt(g)'
    <3>1. g \in File /\ StagedAt(g)
      BY <1>4, <2>1, <2>4
    <3>2. /\ imp'[g] = imp[g] /\ src'[g] = src[g] /\ disk'[g] = disk[g] /\ (g \in fs => g \in fs')
          /\ \A u \in Token, b \in Bytes : <<g, u, b>> \in temp => <<g, u, b>> \in temp'
      BY <1>1, <1>2, <2>4, <3>1, <1>42 DEF RefuseEmptyDoes, ImpIs, JobIs, RowIs, Settles, removeNow
    <3>3. \A u \in Token : Carried(g, u) => Carried(g, u)'
      BY <2>2, <2>4, <3>2 DEF Carried, Held
    <3>4. QED
      BY <2>2, <3>1, <3>2, <3>3 DEF StagedAt, InFlight, Held
  <2>5. ASSUME NEW g \in staged, g = job[t].f
        PROVE  StagedAt(g)'
    <3>1. g \in File /\ StagedAt(g)
      BY <1>4, <2>1
    <3>2. /\ InFlight(g)' => InFlight(g)
          /\ ~(imp'[g].state = "unavailable" /\ imp'[g].dead)
      BY <1>1, <1>2, <1>4, <2>1, <2>5, <3>1, <1>42 DEF RefuseEmptyDoes, StagedAt, InFlight, ImpIs, JobIs, RowIs, Settles, removeNow
    <3>3. ASSUME InFlight(g)', src'[g] = "none"
          PROVE  (g \in fs' /\ Held(g)') \/ \E u \in Token : Carried(g, u)'
      <4>1. src[g] = "none"
        BY <3>3, <1>42 DEF RefuseEmptyDoes
      <4>2. CASE g \in fs /\ Held(g)
        BY <1>1, <1>2, <1>4, <1>6, <2>5, <3>2, <3>3, <4>2, <1>42 DEF RefuseEmptyDoes, Held, ImpIs, JobIs, RowIs, Settles, removeNow, Claims, Owns, Gone, InFlight
      <4>3. ASSUME NEW u \in Token, Carried(g, u)
            PROVE  u # t /\ Carried(g, u)'
        BY <1>1, <1>2, <1>4, <1>6, <2>2, <2>5, <3>2, <3>3, <4>3, <1>42 DEF RefuseEmptyDoes, Carried, Held, ImpIs, JobIs, RowIs, Settles, removeNow, Claims, Owns, Gone, InFlight
      <4>4. QED
        BY <3>1, <3>2, <3>3, <4>1, <4>2, <4>3 DEF StagedAt
    <3>4. QED
      BY <2>2, <3>1, <3>2, <3>3 DEF StagedAt
  <2>6. ASSUME NEW u \in Token, job'[u].f \in staged, Owns(u)'
        PROVE  Alone(u)'
    <3>1. job[u].f \in staged /\ Owns(u) /\ Alone(u)
      BY <2>1, <2>2, <2>3, <2>6
    <3>2. src' = src
      BY <1>42 DEF RefuseEmptyDoes
    <3>3. job'[t].pc \notin {"copy", "temp", "placed"} \/ job[t].pc \in {"copy", "temp", "placed"}
      BY <1>42 DEF RefuseEmptyDoes, JobIs
    <3>4. job'[t].pc \notin {"resolve", "copy"}
      BY <1>42 DEF RefuseEmptyDoes, JobIs
    <3>5. QED
      BY <2>2, <3>1, <3>2, <3>3, <3>4 DEF Alone
  <2>7. QED
    BY <2>4, <2>5, <2>6
<1>43. ASSUME NEW t \in Token, RenameDoes(t)
      PROVE  Staged'
  <2>. SUFFICES ASSUME hazard' \cap {"movedUnrecorded", "failedAdded", "retried"} = {}
       PROVE  /\ \A g \in staged : StagedAt(g)'
              /\ \A v \in Token : job'[v].f \in staged /\ Owns(v)' => Alone(v)'
    BY <1>43 DEF Staged, RenameDoes
  <2>1. /\ \A g \in staged : StagedAt(g)
        /\ \A v \in Token : job[v].f \in staged /\ Owns(v) => Alone(v)
    BY <1>43 DEF Staged, RenameDoes, JobIs
  <2>2. /\ \A u \in Token \ {t} : job'[u] = job[u]
        /\ job'[t].f = job[t].f /\ UNCHANGED scan
    BY <1>43 DEF RenameDoes, JobIs
  <2>3. \A u \in Token : Owns(u)' => Owns(u)
    <3>1. \A h \in File : imp'[h].state = "active" =>
            imp[h].state = "active" /\ imp'[h].token = imp[h].token
      BY <1>1, <1>2, <1>3, <1>4, <1>43 DEF RenameDoes, Owns, JobIs
    <3>2. QED
      BY <1>2, <2>2, <3>1 DEF Owns
  <2>4. ASSUME NEW g \in staged, g # job[t].f
        PROVE  StagedAt(g)'
    <3>1. g \in File /\ StagedAt(g)
      BY <1>4, <2>1, <2>4
    <3>2. /\ imp'[g] = imp[g] /\ src'[g] = src[g] /\ disk'[g] = disk[g] /\ (g \in fs => g \in fs')
          /\ \A u \in Token, b \in Bytes : <<g, u, b>> \in temp => <<g, u, b>> \in temp'
      BY <1>1, <1>2, <2>4, <3>1, <1>43 DEF RenameDoes, JobIs
    <3>3. \A u \in Token : Carried(g, u) => Carried(g, u)'
      BY <2>2, <2>4, <3>2 DEF Carried, Held
    <3>4. QED
      BY <2>2, <3>1, <3>2, <3>3 DEF StagedAt, InFlight, Held
  <2>5. ASSUME NEW g \in staged, g = job[t].f
        PROVE  StagedAt(g)'
    <3>1. g \in File /\ StagedAt(g)
      BY <1>4, <2>1
    <3>2. /\ InFlight(g)' => InFlight(g)
          /\ ~(imp'[g].state = "unavailable" /\ imp'[g].dead)
      BY <1>1, <1>2, <1>4, <2>1, <2>5, <3>1, <1>43 DEF RenameDoes, StagedAt, InFlight, JobIs
    <3>3. ASSUME InFlight(g)', src'[g] = "none"
          PROVE  (g \in fs' /\ Held(g)') \/ \E u \in Token : Carried(g, u)'
      <4>1. src[g] = "none"
        BY <3>3, <1>43 DEF RenameDoes
      <4>2. CASE g \in fs /\ Held(g)
        BY <1>1, <1>2, <1>4, <1>6, <2>5, <3>2, <3>3, <4>2, <1>43 DEF RenameDoes, Held, JobIs
      <4>3. ASSUME NEW u \in Token, Carried(g, u)
            PROVE  u # t /\ Carried(g, u)'
        BY <1>1, <1>2, <1>4, <1>6, <2>2, <2>5, <3>2, <3>3, <4>3, <1>43 DEF RenameDoes, Carried, Held, JobIs
      <4>4. QED
        BY <3>1, <3>2, <3>3, <4>1, <4>2, <4>3 DEF StagedAt
    <3>4. QED
      BY <2>2, <3>1, <3>2, <3>3 DEF StagedAt
  <2>6. ASSUME NEW u \in Token, job'[u].f \in staged, Owns(u)'
        PROVE  Alone(u)'
    <3>1. job[u].f \in staged /\ Owns(u) /\ Alone(u)
      BY <2>1, <2>2, <2>3, <2>6
    <3>2. src' = src
      BY <1>43 DEF RenameDoes
    <3>3. job'[t].pc \notin {"copy", "temp", "placed"} \/ job[t].pc \in {"copy", "temp", "placed"}
      BY <1>43 DEF RenameDoes, JobIs
    <3>4. job'[t].pc \notin {"resolve", "copy"}
      BY <1>43 DEF RenameDoes, JobIs
    <3>5. QED
      BY <2>2, <3>1, <3>2, <3>3, <3>4 DEF Alone
  <2>7. QED
    BY <2>4, <2>5, <2>6
<1>44. ASSUME NEW t \in Token, RecordHashDoes(t)
      PROVE  Staged'
  <2>. SUFFICES ASSUME hazard' \cap {"movedUnrecorded", "failedAdded", "retried"} = {}
       PROVE  /\ \A g \in staged : StagedAt(g)'
              /\ \A v \in Token : job'[v].f \in staged /\ Owns(v)' => Alone(v)'
    BY <1>44 DEF Staged, RecordHashDoes
  <2>1. /\ \A g \in staged : StagedAt(g)
        /\ \A v \in Token : job[v].f \in staged /\ Owns(v) => Alone(v)
    BY <1>44 DEF Staged, RecordHashDoes, JobIs
  <2>2. /\ \A u \in Token \ {t} : job'[u] = job[u]
        /\ job'[t].f = job[t].f /\ UNCHANGED scan
    BY <1>44 DEF RecordHashDoes, JobIs
  <2>3. \A u \in Token : Owns(u)' => Owns(u)
    <3>1. \A h \in File : imp'[h].state = "active" =>
            imp[h].state = "active" /\ imp'[h].token = imp[h].token
      BY <1>1, <1>2, <1>3, <1>4, <1>44 DEF RecordHashDoes, Owns, JobIs
    <3>2. QED
      BY <1>2, <2>2, <3>1 DEF Owns
  <2>4. ASSUME NEW g \in staged, g # job[t].f
        PROVE  StagedAt(g)'
    <3>1. g \in File /\ StagedAt(g)
      BY <1>4, <2>1, <2>4
    <3>2. /\ imp'[g] = imp[g] /\ src'[g] = src[g] /\ disk'[g] = disk[g] /\ (g \in fs => g \in fs')
          /\ \A u \in Token, b \in Bytes : <<g, u, b>> \in temp => <<g, u, b>> \in temp'
      BY <1>1, <1>2, <2>4, <3>1, <1>44 DEF RecordHashDoes, JobIs
    <3>3. \A u \in Token : Carried(g, u) => Carried(g, u)'
      BY <2>2, <2>4, <3>2 DEF Carried, Held
    <3>4. QED
      BY <2>2, <3>1, <3>2, <3>3 DEF StagedAt, InFlight, Held
  <2>5. ASSUME NEW g \in staged, g = job[t].f
        PROVE  StagedAt(g)'
    <3>1. g \in File /\ StagedAt(g)
      BY <1>4, <2>1
    <3>2. /\ InFlight(g)' => InFlight(g)
          /\ ~(imp'[g].state = "unavailable" /\ imp'[g].dead)
      <4>1. CASE imp'[g] = imp[g]
        BY <3>1, <4>1 DEF StagedAt, InFlight
      <4>2. CASE imp'[g].state # "unavailable" /\ (InFlight(g)' => InFlight(g))
        BY <4>2
      <4>3. CASE ~imp'[g].dead /\ ~InFlight(g)'
        BY <4>3
      <4>4. QED
        BY <1>1, <1>2, <2>5, <4>1, <4>2, <4>3, <1>44 DEF RecordHashDoes, InFlight, Owns, JobIs
    <3>3. ASSUME InFlight(g)', src'[g] = "none"
          PROVE  (g \in fs' /\ Held(g)') \/ \E u \in Token : Carried(g, u)'
      <4>1. src[g] = "none"
        BY <3>3, <1>44 DEF RecordHashDoes
      <4>2. CASE g \in fs /\ Held(g)
        BY <1>1, <1>2, <1>4, <1>6, <2>5, <3>2, <3>3, <4>2, <1>44 DEF RecordHashDoes, Held, JobIs
      <4>3. ASSUME NEW u \in Token, Carried(g, u)
            PROVE  u # t /\ Carried(g, u)'
        BY <1>1, <1>2, <1>4, <1>6, <2>2, <2>5, <3>2, <3>3, <4>3, <1>44 DEF RecordHashDoes, Carried, Held, JobIs
      <4>4. QED
        BY <3>1, <3>2, <3>3, <4>1, <4>2, <4>3 DEF StagedAt
    <3>4. QED
      BY <2>2, <3>1, <3>2, <3>3 DEF StagedAt
  <2>6. ASSUME NEW u \in Token, job'[u].f \in staged, Owns(u)'
        PROVE  Alone(u)'
    <3>1. job[u].f \in staged /\ Owns(u) /\ Alone(u)
      BY <2>1, <2>2, <2>3, <2>6
    <3>2. src' = src
      BY <1>44 DEF RecordHashDoes
    <3>3. job'[t].pc \notin {"copy", "temp", "placed"} \/ job[t].pc \in {"copy", "temp", "placed"}
      BY <1>44 DEF RecordHashDoes, JobIs
    <3>4. job'[t].pc \notin {"resolve", "copy"}
      BY <1>44 DEF RecordHashDoes, JobIs
    <3>5. QED
      BY <2>2, <3>1, <3>2, <3>3, <3>4 DEF Alone
  <2>7. QED
    BY <2>4, <2>5, <2>6
<1>45. ASSUME NEW t \in Token, FinalizeDoes(t)
      PROVE  Staged'
  <2>. SUFFICES ASSUME hazard' \cap {"movedUnrecorded", "failedAdded", "retried"} = {}
       PROVE  /\ \A g \in staged : StagedAt(g)'
              /\ \A v \in Token : job'[v].f \in staged /\ Owns(v)' => Alone(v)'
    BY <1>45 DEF Staged, FinalizeDoes
  <2>1. /\ \A g \in staged : StagedAt(g)
        /\ \A v \in Token : job[v].f \in staged /\ Owns(v) => Alone(v)
    BY <1>45 DEF Staged, FinalizeDoes, FileIs, ImpIs, JobIs, RowIs
  <2>2. /\ \A u \in Token \ {t} : job'[u] = job[u]
        /\ job'[t].f = job[t].f /\ UNCHANGED scan
    BY <1>45 DEF FinalizeDoes, JobIs
  <2>3. \A u \in Token : Owns(u)' => Owns(u)
    <3>1. \A h \in File : imp'[h].state = "active" =>
            imp[h].state = "active" /\ imp'[h].token = imp[h].token
      BY <1>1, <1>2, <1>3, <1>4, <1>45 DEF FinalizeDoes, Owns, FileIs, ImpIs, JobIs, RowIs
    <3>2. QED
      BY <1>2, <2>2, <3>1 DEF Owns
  <2>4. ASSUME NEW g \in staged, g # job[t].f
        PROVE  StagedAt(g)'
    <3>1. g \in File /\ StagedAt(g)
      BY <1>4, <2>1, <2>4
    <3>2. /\ imp'[g] = imp[g] /\ src'[g] = src[g] /\ disk'[g] = disk[g] /\ (g \in fs => g \in fs')
          /\ \A u \in Token, b \in Bytes : <<g, u, b>> \in temp => <<g, u, b>> \in temp'
      BY <1>1, <1>2, <2>4, <3>1, <1>45 DEF FinalizeDoes, FileIs, ImpIs, JobIs, RowIs
    <3>3. \A u \in Token : Carried(g, u) => Carried(g, u)'
      BY <2>2, <2>4, <3>2 DEF Carried, Held
    <3>4. QED
      BY <2>2, <3>1, <3>2, <3>3 DEF StagedAt, InFlight, Held
  <2>5. ASSUME NEW g \in staged, g = job[t].f
        PROVE  StagedAt(g)'
    <3>1. g \in File /\ StagedAt(g)
      BY <1>4, <2>1
    <3>2. /\ InFlight(g)' => InFlight(g)
          /\ ~(imp'[g].state = "unavailable" /\ imp'[g].dead)
      BY <1>1, <1>2, <1>4, <2>1, <2>5, <3>1, <1>45 DEF FinalizeDoes, StagedAt, InFlight, FileIs, ImpIs, JobIs, RowIs
    <3>3. ASSUME InFlight(g)', src'[g] = "none"
          PROVE  (g \in fs' /\ Held(g)') \/ \E u \in Token : Carried(g, u)'
      <4>1. src[g] = "none"
        BY <3>3, <1>45 DEF FinalizeDoes
      <4>2. CASE g \in fs /\ Held(g)
        BY <1>1, <1>2, <1>4, <1>6, <2>5, <3>2, <3>3, <4>2, <1>45 DEF FinalizeDoes, Held, FileIs, ImpIs, JobIs, RowIs
      <4>3. ASSUME NEW u \in Token, Carried(g, u)
            PROVE  u # t /\ Carried(g, u)'
        BY <1>1, <1>2, <1>4, <1>6, <2>2, <2>5, <3>2, <3>3, <4>3, <1>45 DEF FinalizeDoes, Carried, Held, FileIs, ImpIs, JobIs, RowIs
      <4>4. QED
        BY <3>1, <3>2, <3>3, <4>1, <4>2, <4>3 DEF StagedAt
    <3>4. QED
      BY <2>2, <3>1, <3>2, <3>3 DEF StagedAt
  <2>6. ASSUME NEW u \in Token, job'[u].f \in staged, Owns(u)'
        PROVE  Alone(u)'
    <3>1. job[u].f \in staged /\ Owns(u) /\ Alone(u)
      BY <2>1, <2>2, <2>3, <2>6
    <3>2. src' = src
      BY <1>45 DEF FinalizeDoes
    <3>3. job'[t].pc \notin {"copy", "temp", "placed"} \/ job[t].pc \in {"copy", "temp", "placed"}
      BY <1>45 DEF FinalizeDoes, JobIs
    <3>4. job'[t].pc \notin {"resolve", "copy"}
      BY <1>45 DEF FinalizeDoes, JobIs
    <3>5. QED
      BY <2>2, <3>1, <3>2, <3>3, <3>4 DEF Alone
  <2>7. QED
    BY <2>4, <2>5, <2>6
<1>46. ASSUME NEW t \in Token, CleanDuplicateDoes(t)
      PROVE  Staged'
  <2>. SUFFICES ASSUME hazard' \cap {"movedUnrecorded", "failedAdded", "retried"} = {}
       PROVE  /\ \A g \in staged : StagedAt(g)'
              /\ \A v \in Token : job'[v].f \in staged /\ Owns(v)' => Alone(v)'
    BY <1>46 DEF Staged, CleanDuplicateDoes
  <2>1. /\ \A g \in staged : StagedAt(g)
        /\ \A v \in Token : job[v].f \in staged /\ Owns(v) => Alone(v)
    BY <1>46 DEF Staged, CleanDuplicateDoes, JobIs, removeNow
  <2>2. /\ \A u \in Token \ {t} : job'[u] = job[u]
        /\ job'[t].f = job[t].f /\ UNCHANGED scan
    BY <1>46 DEF CleanDuplicateDoes, JobIs
  <2>3. \A u \in Token : Owns(u)' => Owns(u)
    <3>1. \A h \in File : imp'[h].state = "active" =>
            imp[h].state = "active" /\ imp'[h].token = imp[h].token
      BY <1>1, <1>2, <1>3, <1>4, <1>46 DEF CleanDuplicateDoes, Owns, JobIs, removeNow
    <3>2. QED
      BY <1>2, <2>2, <3>1 DEF Owns
  <2>4. ASSUME NEW g \in staged, g # job[t].f
        PROVE  StagedAt(g)'
    <3>1. g \in File /\ StagedAt(g)
      BY <1>4, <2>1, <2>4
    <3>2. /\ imp'[g] = imp[g] /\ src'[g] = src[g] /\ disk'[g] = disk[g] /\ (g \in fs => g \in fs')
          /\ \A u \in Token, b \in Bytes : <<g, u, b>> \in temp => <<g, u, b>> \in temp'
      BY <1>1, <1>2, <2>4, <3>1, <1>46 DEF CleanDuplicateDoes, JobIs, removeNow
    <3>3. \A u \in Token : Carried(g, u) => Carried(g, u)'
      BY <2>2, <2>4, <3>2 DEF Carried, Held
    <3>4. QED
      BY <2>2, <3>1, <3>2, <3>3 DEF StagedAt, InFlight, Held
  <2>5. ASSUME NEW g \in staged, g = job[t].f
        PROVE  StagedAt(g)'
    <3>1. g \in File /\ StagedAt(g)
      BY <1>4, <2>1
    <3>2. /\ InFlight(g)' => InFlight(g)
          /\ ~(imp'[g].state = "unavailable" /\ imp'[g].dead)
      BY <1>1, <1>2, <1>4, <2>1, <2>5, <3>1, <1>46 DEF CleanDuplicateDoes, StagedAt, InFlight, JobIs, removeNow
    <3>3. ASSUME InFlight(g)', src'[g] = "none"
          PROVE  (g \in fs' /\ Held(g)') \/ \E u \in Token : Carried(g, u)'
      <4>1. src[g] = "none"
        BY <3>3, <1>46 DEF CleanDuplicateDoes
      <4>2. CASE g \in fs /\ Held(g)
        BY <1>1, <1>2, <1>4, <1>6, <2>5, <3>2, <3>3, <4>2, <1>46 DEF CleanDuplicateDoes, Held, JobIs, removeNow, Claims, Owns, Gone, InFlight
      <4>3. ASSUME NEW u \in Token, Carried(g, u)
            PROVE  u # t /\ Carried(g, u)'
        BY <1>1, <1>2, <1>4, <1>6, <2>2, <2>5, <3>2, <3>3, <4>3, <1>46 DEF CleanDuplicateDoes, Carried, Held, JobIs, removeNow, Claims, Owns, Gone, InFlight
      <4>4. QED
        BY <3>1, <3>2, <3>3, <4>1, <4>2, <4>3 DEF StagedAt
    <3>4. QED
      BY <2>2, <3>1, <3>2, <3>3 DEF StagedAt
  <2>6. ASSUME NEW u \in Token, job'[u].f \in staged, Owns(u)'
        PROVE  Alone(u)'
    <3>1. job[u].f \in staged /\ Owns(u) /\ Alone(u)
      BY <2>1, <2>2, <2>3, <2>6
    <3>2. src' = src
      BY <1>46 DEF CleanDuplicateDoes
    <3>3. job'[t].pc \notin {"copy", "temp", "placed"} \/ job[t].pc \in {"copy", "temp", "placed"}
      BY <1>46 DEF CleanDuplicateDoes, JobIs
    <3>4. job'[t].pc \notin {"resolve", "copy"}
      BY <1>46 DEF CleanDuplicateDoes, JobIs
    <3>5. QED
      BY <2>2, <3>1, <3>2, <3>3, <3>4 DEF Alone
  <2>7. QED
    BY <2>4, <2>5, <2>6
<1>47. ASSUME NEW t \in Token, JobFailsDoes(t)
      PROVE  Staged'
  <2>. SUFFICES ASSUME hazard' \cap {"movedUnrecorded", "failedAdded", "retried"} = {}
       PROVE  /\ \A g \in staged : StagedAt(g)'
              /\ \A v \in Token : job'[v].f \in staged /\ Owns(v)' => Alone(v)'
    BY <1>47 DEF Staged, JobFailsDoes
  <2>1. /\ \A g \in staged : StagedAt(g)
        /\ \A v \in Token : job[v].f \in staged /\ Owns(v) => Alone(v)
    BY <1>47 DEF Staged, JobFailsDoes, ImpIs, JobIs, RowIs, Settles
  <2>2. /\ \A u \in Token \ {t} : job'[u] = job[u]
        /\ job'[t].f = job[t].f /\ UNCHANGED scan
    BY <1>47 DEF JobFailsDoes, JobIs
  <2>3. \A u \in Token : Owns(u)' => Owns(u)
    <3>1. \A h \in File : imp'[h].state = "active" =>
            imp[h].state = "active" /\ imp'[h].token = imp[h].token
      BY <1>1, <1>2, <1>3, <1>4, <1>47 DEF JobFailsDoes, Owns, ImpIs, JobIs, RowIs, Settles
    <3>2. QED
      BY <1>2, <2>2, <3>1 DEF Owns
  <2>4. ASSUME NEW g \in staged, g # job[t].f
        PROVE  StagedAt(g)'
    <3>1. g \in File /\ StagedAt(g)
      BY <1>4, <2>1, <2>4
    <3>2. /\ imp'[g] = imp[g] /\ src'[g] = src[g] /\ disk'[g] = disk[g] /\ (g \in fs => g \in fs')
          /\ \A u \in Token, b \in Bytes : <<g, u, b>> \in temp => <<g, u, b>> \in temp'
      BY <1>1, <1>2, <2>4, <3>1, <1>47 DEF JobFailsDoes, ImpIs, JobIs, RowIs, Settles
    <3>3. \A u \in Token : Carried(g, u) => Carried(g, u)'
      BY <2>2, <2>4, <3>2 DEF Carried, Held
    <3>4. QED
      BY <2>2, <3>1, <3>2, <3>3 DEF StagedAt, InFlight, Held
  <2>5. ASSUME NEW g \in staged, g = job[t].f
        PROVE  StagedAt(g)'
    <3>1. g \in File /\ StagedAt(g)
      BY <1>4, <2>1
    <3>2. /\ InFlight(g)' => InFlight(g)
          /\ ~(imp'[g].state = "unavailable" /\ imp'[g].dead)
      <4>1. CASE imp'[g] = imp[g]
        BY <3>1, <4>1 DEF StagedAt, InFlight
      <4>2. CASE imp'[g].state # "unavailable" /\ (InFlight(g)' => InFlight(g))
        BY <4>2
      <4>3. CASE ~imp'[g].dead /\ ~InFlight(g)'
        BY <4>3
      <4>4. QED
        BY <1>1, <1>2, <2>5, <4>1, <4>2, <4>3, <1>47 DEF JobFailsDoes, InFlight, Owns, ImpIs, JobIs, RowIs, Settles
    <3>3. ASSUME InFlight(g)', src'[g] = "none"
          PROVE  (g \in fs' /\ Held(g)') \/ \E u \in Token : Carried(g, u)'
      <4>1. src[g] = "none" /\ UNCHANGED <<disk, fs, temp>> /\ job[t].pc \notin {"temp", "placed"}
        BY <2>5, <3>3, <1>47 DEF JobFailsDoes
      <4>2. CASE g \in fs /\ Held(g)
        BY <4>1, <4>2 DEF Held
      <4>3. ASSUME NEW u \in Token, Carried(g, u)
            PROVE  Carried(g, u)'
        <5>1. u # t
          BY <4>1, <4>3 DEF Carried
        <5>2. QED
          BY <2>2, <4>1, <4>3, <5>1 DEF Carried, Held
      <4>4. QED
        BY <3>1, <3>2, <3>3, <4>1, <4>2, <4>3 DEF StagedAt
    <3>4. QED
      BY <2>2, <3>1, <3>2, <3>3 DEF StagedAt
  <2>6. ASSUME NEW u \in Token, job'[u].f \in staged, Owns(u)'
        PROVE  Alone(u)'
    <3>1. job[u].f \in staged /\ Owns(u) /\ Alone(u)
      BY <2>1, <2>2, <2>3, <2>6
    <3>2. src' = src
      BY <1>47 DEF JobFailsDoes
    <3>3. job'[t].pc \notin {"copy", "temp", "placed"} \/ job[t].pc \in {"copy", "temp", "placed"}
      BY <1>47 DEF JobFailsDoes, JobIs
    <3>4. job'[t].pc \notin {"resolve", "copy"}
      BY <1>47 DEF JobFailsDoes, JobIs
    <3>5. QED
      BY <2>2, <3>1, <3>2, <3>3, <3>4 DEF Alone
  <2>7. QED
    BY <2>4, <2>5, <2>6
<1>48. ASSUME NEW t \in Token, CopyFindsNothingDoes(t)
      PROVE  Staged'
  <2>. SUFFICES ASSUME hazard' \cap {"movedUnrecorded", "failedAdded", "retried"} = {}
       PROVE  /\ \A g \in staged : StagedAt(g)'
              /\ \A v \in Token : job'[v].f \in staged /\ Owns(v)' => Alone(v)'
    BY <1>48 DEF Staged, CopyFindsNothingDoes
  <2>1. /\ \A g \in staged : StagedAt(g)
        /\ \A v \in Token : job[v].f \in staged /\ Owns(v) => Alone(v)
    BY <1>48 DEF Staged, CopyFindsNothingDoes, ImpIs, JobIs, RowIs, Settles
  <2>2. /\ \A u \in Token \ {t} : job'[u] = job[u]
        /\ job'[t].f = job[t].f /\ UNCHANGED scan
    BY <1>48 DEF CopyFindsNothingDoes, JobIs
  <2>3. \A u \in Token : Owns(u)' => Owns(u)
    <3>1. \A h \in File : imp'[h].state = "active" =>
            imp[h].state = "active" /\ imp'[h].token = imp[h].token
      BY <1>1, <1>2, <1>3, <1>4, <1>48 DEF CopyFindsNothingDoes, Owns, ImpIs, JobIs, RowIs, Settles
    <3>2. QED
      BY <1>2, <2>2, <3>1 DEF Owns
  <2>4. ASSUME NEW g \in staged, g # job[t].f
        PROVE  StagedAt(g)'
    <3>1. g \in File /\ StagedAt(g)
      BY <1>4, <2>1, <2>4
    <3>2. /\ imp'[g] = imp[g] /\ src'[g] = src[g] /\ disk'[g] = disk[g] /\ (g \in fs => g \in fs')
          /\ \A u \in Token, b \in Bytes : <<g, u, b>> \in temp => <<g, u, b>> \in temp'
      BY <1>1, <1>2, <2>4, <3>1, <1>48 DEF CopyFindsNothingDoes, ImpIs, JobIs, RowIs, Settles
    <3>3. \A u \in Token : Carried(g, u) => Carried(g, u)'
      BY <2>2, <2>4, <3>2 DEF Carried, Held
    <3>4. QED
      BY <2>2, <3>1, <3>2, <3>3 DEF StagedAt, InFlight, Held
  <2>5. ASSUME NEW g \in staged, g = job[t].f
        PROVE  StagedAt(g)'
    <3>1. g \in File /\ StagedAt(g)
      BY <1>4, <2>1
    <3>2. /\ InFlight(g)' => InFlight(g)
          /\ ~(imp'[g].state = "unavailable" /\ imp'[g].dead)
      BY <1>1, <1>2, <1>4, <2>1, <2>5, <3>1, <1>48 DEF CopyFindsNothingDoes, StagedAt, InFlight, ImpIs, JobIs, RowIs, Settles, Alone
    <3>3. ASSUME InFlight(g)', src'[g] = "none"
          PROVE  (g \in fs' /\ Held(g)') \/ \E u \in Token : Carried(g, u)'
      <4>1. src[g] = "none"
        BY <3>3, <1>48 DEF CopyFindsNothingDoes
      <4>2. CASE g \in fs /\ Held(g)
        BY <1>1, <1>2, <1>4, <1>6, <2>5, <3>2, <3>3, <4>2, <1>48 DEF CopyFindsNothingDoes, Held, ImpIs, JobIs, RowIs, Settles
      <4>3. ASSUME NEW u \in Token, Carried(g, u)
            PROVE  u # t /\ Carried(g, u)'
        BY <1>1, <1>2, <1>4, <1>6, <2>2, <2>5, <3>2, <3>3, <4>3, <1>48 DEF CopyFindsNothingDoes, Carried, Held, ImpIs, JobIs, RowIs, Settles
      <4>4. QED
        BY <3>1, <3>2, <3>3, <4>1, <4>2, <4>3 DEF StagedAt
    <3>4. QED
      BY <2>2, <3>1, <3>2, <3>3 DEF StagedAt
  <2>6. ASSUME NEW u \in Token, job'[u].f \in staged, Owns(u)'
        PROVE  Alone(u)'
    <3>1. job[u].f \in staged /\ Owns(u) /\ Alone(u)
      BY <2>1, <2>2, <2>3, <2>6
    <3>2. src' = src
      BY <1>48 DEF CopyFindsNothingDoes
    <3>3. job'[t].pc \notin {"copy", "temp", "placed"} \/ job[t].pc \in {"copy", "temp", "placed"}
      BY <1>48 DEF CopyFindsNothingDoes, JobIs
    <3>4. job'[t].pc \notin {"resolve", "copy"}
      BY <1>48 DEF CopyFindsNothingDoes, JobIs
    <3>5. QED
      BY <2>2, <3>1, <3>2, <3>3, <3>4 DEF Alone
  <2>7. QED
    BY <2>4, <2>5, <2>6
<1>49. ASSUME NEW f \in File, GiveUpDoes(f)
      PROVE  Staged'
  <2>. SUFFICES ASSUME hazard' \cap {"movedUnrecorded", "failedAdded", "retried"} = {}
       PROVE  /\ \A g \in staged : StagedAt(g)'
              /\ \A t \in Token : job'[t].f \in staged /\ Owns(t)' => Alone(t)'
    BY <1>49 DEF Staged, GiveUpDoes
  <2>1. /\ \A g \in staged : StagedAt(g)
        /\ \A t \in Token : job[t].f \in staged /\ Owns(t) => Alone(t)
    BY <1>49 DEF Staged, GiveUpDoes, ImpIs, RowIs
  <2>2. UNCHANGED <<job, fs, disk, temp, scan>>
    BY <1>49 DEF GiveUpDoes
  <2>3. \A g \in staged : /\ g \in File /\ ~(imp'[g].state = "unavailable" /\ imp'[g].dead)
                          /\ InFlight(g)' => InFlight(g) /\ src'[g] = src[g]
    BY <1>1, <1>3, <1>4, <2>1, <1>49 DEF GiveUpDoes, StagedAt, InFlight, ImpIs, RowIs
  <2>4. \A t \in Token : job[t].f \in staged /\ Owns(t)' => Owns(t) /\ src'[job[t].f] = src[job[t].f]
    BY <1>1, <1>2, <1>3, <1>4, <2>2, <1>49 DEF GiveUpDoes, Owns, ImpIs, RowIs
  <2>5. ASSUME NEW g \in staged
        PROVE  StagedAt(g)'
    <3>1. \A t \in Token : Carried(g, t) => Carried(g, t)'
      BY <2>2 DEF Carried, Held
    <3>2. QED
      BY <2>1, <2>2, <2>3, <3>1 DEF StagedAt, Held
  <2>6. QED
    BY <2>1, <2>2, <2>4, <2>5 DEF Alone
<1>50. ASSUME NEW f \in File, RependDoes(f)
      PROVE  Staged'
  <2>. SUFFICES ASSUME hazard' \cap {"movedUnrecorded", "failedAdded", "retried"} = {}
       PROVE  /\ \A g \in staged : StagedAt(g)'
              /\ \A t \in Token : job'[t].f \in staged /\ Owns(t)' => Alone(t)'
    BY <1>50 DEF Staged, RependDoes
  <2>1. /\ \A g \in staged : StagedAt(g)
        /\ \A t \in Token : job[t].f \in staged /\ Owns(t) => Alone(t)
    BY <1>50 DEF Staged, RependDoes, ImpIs, RowIs
  <2>2. UNCHANGED <<job, fs, disk, temp, scan>>
    BY <1>50 DEF RependDoes
  <2>3. \A g \in staged : /\ g \in File /\ ~(imp'[g].state = "unavailable" /\ imp'[g].dead)
                          /\ InFlight(g)' => InFlight(g) /\ src'[g] = src[g]
    BY <1>1, <1>3, <1>4, <2>1, <1>50 DEF RependDoes, StagedAt, InFlight, ImpIs, RowIs
  <2>4. \A t \in Token : job[t].f \in staged /\ Owns(t)' => Owns(t) /\ src'[job[t].f] = src[job[t].f]
    BY <1>1, <1>2, <1>3, <1>4, <2>2, <1>50 DEF RependDoes, Owns, ImpIs, RowIs
  <2>5. ASSUME NEW g \in staged
        PROVE  StagedAt(g)'
    <3>1. \A t \in Token : Carried(g, t) => Carried(g, t)'
      BY <2>2 DEF Carried, Held
    <3>2. QED
      BY <2>1, <2>2, <2>3, <3>1 DEF StagedAt, Held
  <2>6. QED
    BY <2>1, <2>2, <2>4, <2>5 DEF Alone
<1>51. ASSUME NEW f \in File, EditSourceDoes(f)
      PROVE  Staged'
  <2>. SUFFICES ASSUME hazard' \cap {"movedUnrecorded", "failedAdded", "retried"} = {}
       PROVE  /\ \A g \in staged : StagedAt(g)'
              /\ \A t \in Token : job'[t].f \in staged /\ Owns(t)' => Alone(t)'
    BY <1>51 DEF Staged, EditSourceDoes
  <2>1. /\ \A g \in staged : StagedAt(g)
        /\ \A t \in Token : job[t].f \in staged /\ Owns(t) => Alone(t)
    BY <1>51 DEF Staged, EditSourceDoes
  <2>2. UNCHANGED <<job, fs, disk, temp, scan>>
    BY <1>51 DEF EditSourceDoes
  <2>3. \A g \in staged : /\ g \in File /\ ~(imp'[g].state = "unavailable" /\ imp'[g].dead)
                          /\ InFlight(g)' => InFlight(g) /\ src'[g] = src[g]
    BY <1>1, <1>3, <1>4, <2>1, <1>51 DEF EditSourceDoes, StagedAt, InFlight
  <2>4. \A t \in Token : job[t].f \in staged /\ Owns(t)' => Owns(t) /\ src'[job[t].f] = src[job[t].f]
    BY <1>1, <1>2, <1>3, <1>4, <2>2, <1>51 DEF EditSourceDoes, Owns
  <2>5. ASSUME NEW g \in staged
        PROVE  StagedAt(g)'
    <3>1. \A t \in Token : Carried(g, t) => Carried(g, t)'
      BY <2>2 DEF Carried, Held
    <3>2. QED
      BY <2>1, <2>2, <2>3, <3>1 DEF StagedAt, Held
  <2>6. QED
    BY <2>1, <2>2, <2>4, <2>5 DEF Alone
<1>52. ASSUME AbortDoes
      PROVE  Staged'
  <2>. SUFFICES ASSUME hazard' \cap {"movedUnrecorded", "failedAdded", "retried"} = {}
       PROVE  /\ \A g \in staged : StagedAt(g)'
              /\ \A t \in Token : job'[t].f \in staged /\ Owns(t)' => Alone(t)'
    BY <1>52 DEF Staged, AbortDoes
  <2>1. /\ \A g \in staged : StagedAt(g)
        /\ \A t \in Token : job[t].f \in staged /\ Owns(t) => Alone(t)
    BY <1>52 DEF Staged, AbortDoes
  <2>2. /\ UNCHANGED <<imp, src, fs, disk, temp, scan>>
        /\ \A t \in Token : /\ job'[t].f = job[t].f
                            /\ job'[t].pc = job[t].pc \/ (job[t].pc = "hash" /\ job'[t].pc = "over")
    BY <1>52 DEF AbortDoes
  <2>3. ASSUME NEW g \in staged
        PROVE  StagedAt(g)'
    <3>1. \A u \in Token : Carried(g, u) => Carried(g, u)'
      BY <2>2 DEF Carried, Held
    <3>2. QED
      BY <2>1, <2>2, <3>1 DEF StagedAt, Held, InFlight
  <2>4. ASSUME NEW t \in Token, job'[t].f \in staged, Owns(t)'
        PROVE  Alone(t)'
    <3>1. job[t].f \in staged /\ Owns(t)
      BY <2>2, <2>4 DEF Owns
    <3>2. QED
      BY <2>1, <2>2, <3>1 DEF Alone
  <2>5. QED
    BY <2>3, <2>4
<1>53. ASSUME KillDoes
      PROVE  Staged'
  <2>. SUFFICES ASSUME hazard' \cap {"movedUnrecorded", "failedAdded", "retried"} = {}
       PROVE  /\ \A g \in staged : StagedAt(g)'
              /\ \A t \in Token : job'[t].f \in staged /\ Owns(t)' => Alone(t)'
    BY <1>53 DEF Staged, KillDoes
  <2>1. /\ \A g \in staged : StagedAt(g)
        /\ \A t \in Token : job[t].f \in staged /\ Owns(t) => Alone(t)
    BY <1>53 DEF Staged, KillDoes, EvictIs, Late, ScanIs
  <2>2. /\ UNCHANGED <<imp, src, fs, temp>> /\ scan'.pc = "idle"
        /\ \A t \in Token : job'[t].pc \in {"free", "over"}
        /\ \A g \in File, y \in Type : disk[g][y] # "none" => disk'[g][y] # "none"
    BY <1>53 DEF KillDoes, ScanIs
  <2>3. ASSUME NEW g \in staged
        PROVE  StagedAt(g)'
    <3>1. \A t \in Token : ~Carried(g, t)
      BY <2>3, <1>53 DEF KillDoes, Carried, Copying
    <3>2. QED
      BY <1>4, <2>1, <2>2, <3>1 DEF StagedAt, Held, InFlight
  <2>4. QED
    BY <2>2, <2>3 DEF Alone
<1>54. ASSUME DropReadDoes
      PROVE  Staged'
  <2>. SUFFICES ASSUME hazard' \cap {"movedUnrecorded", "failedAdded", "retried"} = {}
       PROVE  /\ \A g \in staged : StagedAt(g)'
              /\ \A t \in Token : job'[t].f \in staged /\ Owns(t)' => Alone(t)'
    BY <1>54 DEF Staged, DropReadDoes
  <2>1. /\ \A g \in staged : StagedAt(g)
        /\ \A t \in Token : job[t].f \in staged /\ Owns(t) => Alone(t)
    BY <1>54 DEF Staged, DropReadDoes
  <2>2. UNCHANGED <<imp, job, src>>
    BY <1>54 DEF DropReadDoes
  <2>3. \A t \in Token : job'[t].f \in staged /\ Owns(t)' => Alone(t)'
    BY <2>1, <2>2 DEF Owns, Alone
  <2>4. ASSUME NEW g \in staged
        PROVE  StagedAt(g)'
    <3>1. g \in File /\ StagedAt(g)
      BY <1>4, <2>1
    <3>2. ASSUME InFlight(g)
          PROVE  /\ g \in fs => g \in fs'
                 /\ Held(g) => Held(g)'
                 /\ \A t \in Token, b \in Bytes : <<g, t, b>> \in temp => <<g, t, b>> \in temp'
      <4>1. file[g].state = "none"
        BY <1>5, <3>1, <3>2
      <4>2. QED
        BY <1>1, <1>4, <3>1, <3>2, <4>1, <1>54 DEF DropReadDoes, Held, Exists, InFlight, StagedAt
    <3>3. /\ scan'.pc = "entries" /\ g \in scan'.orphans => ~InFlight(g)
          /\ \A t \in Token, b \in Bytes : scan'.pc = "entries" /\ <<g, t, b>> \in scan'.temps => ~InFlight(g)
      BY <1>4, <3>1, <1>54 DEF DropReadDoes, StagedAt
    <3>4. QED
      BY <2>2, <3>1, <3>2, <3>3, StagedStays
  <2>5. QED
    BY <2>3, <2>4
<1>55. ASSUME failImportDoes
      PROVE  Staged'
  <2>. SUFFICES ASSUME hazard' \cap {"movedUnrecorded", "failedAdded", "retried"} = {}
       PROVE  /\ \A g \in staged : StagedAt(g)'
              /\ \A t \in Token : job'[t].f \in staged /\ Owns(t)' => Alone(t)'
    BY <1>55 DEF Staged, failImportDoes
  <2>1. /\ \A g \in staged : StagedAt(g)
        /\ \A t \in Token : job[t].f \in staged /\ Owns(t) => Alone(t)
    BY <1>55 DEF Staged, failImportDoes, RowIs
  <2>2. UNCHANGED <<job, fs, disk, temp, scan>>
    BY <1>55 DEF failImportDoes
  <2>3. \A g \in staged : /\ g \in File /\ ~(imp'[g].state = "unavailable" /\ imp'[g].dead)
                          /\ InFlight(g)' => InFlight(g) /\ src'[g] = src[g]
    BY <1>1, <1>3, <1>4, <2>1, <1>55 DEF failImportDoes, StagedAt, InFlight, RowIs
  <2>4. \A t \in Token : job[t].f \in staged /\ Owns(t)' => Owns(t) /\ src'[job[t].f] = src[job[t].f]
    BY <1>1, <1>2, <1>3, <1>4, <2>2, <1>55 DEF failImportDoes, Owns, RowIs
  <2>5. ASSUME NEW g \in staged
        PROVE  StagedAt(g)'
    <3>1. \A t \in Token : Carried(g, t) => Carried(g, t)'
      BY <2>2 DEF Carried, Held
    <3>2. QED
      BY <2>1, <2>2, <2>3, <3>1 DEF StagedAt, Held
  <2>6. QED
    BY <2>1, <2>2, <2>4, <2>5 DEF Alone
<1>56. ASSUME NEW f \in File, NEW y \in Type, DropBytesDoes(f, y)
      PROVE  Staged'
  <2>. SUFFICES ASSUME hazard' \cap {"movedUnrecorded", "failedAdded", "retried"} = {}
       PROVE  /\ \A g \in staged : StagedAt(g)'
              /\ \A t \in Token : job'[t].f \in staged /\ Owns(t)' => Alone(t)'
    BY <1>56 DEF Staged, DropBytesDoes
  <2>1. /\ \A g \in staged : StagedAt(g)
        /\ \A t \in Token : job[t].f \in staged /\ Owns(t) => Alone(t)
    BY <1>56 DEF Staged, DropBytesDoes, removeNow
  <2>2. UNCHANGED <<imp, job, src>>
    BY <1>56 DEF DropBytesDoes
  <2>3. \A t \in Token : job'[t].f \in staged /\ Owns(t)' => Alone(t)'
    BY <2>1, <2>2 DEF Owns, Alone
  <2>4. ASSUME NEW g \in staged
        PROVE  StagedAt(g)'
    <3>1. g \in File /\ StagedAt(g)
      BY <1>4, <2>1
    <3>2. ASSUME InFlight(g)
          PROVE  /\ g \in fs => g \in fs'
                 /\ Held(g) => Held(g)'
                 /\ \A t \in Token, b \in Bytes : <<g, t, b>> \in temp => <<g, t, b>> \in temp'
      <4>1. file[g].state = "none"
        BY <1>5, <3>1, <3>2
      <4>2. QED
        BY <1>1, <1>4, <3>1, <3>2, <4>1, <1>56 DEF DropBytesDoes, Held, Exists, InFlight, StagedAt, removeNow, Dropped, Gone
    <3>3. /\ scan'.pc = "entries" /\ g \in scan'.orphans => ~InFlight(g)
          /\ \A t \in Token, b \in Bytes : scan'.pc = "entries" /\ <<g, t, b>> \in scan'.temps => ~InFlight(g)
      BY <1>4, <3>1, <1>56 DEF DropBytesDoes, StagedAt
    <3>4. QED
      BY <2>2, <3>1, <3>2, <3>3, StagedStays
  <2>5. QED
    BY <2>3, <2>4
<1>57. ASSUME deleteDirectoryDoes
      PROVE  Staged'
  <2>. SUFFICES ASSUME hazard' \cap {"movedUnrecorded", "failedAdded", "retried"} = {}
       PROVE  /\ \A g \in staged : StagedAt(g)'
              /\ \A t \in Token : job'[t].f \in staged /\ Owns(t)' => Alone(t)'
    BY <1>57 DEF Staged, deleteDirectoryDoes
  <2>1. /\ \A g \in staged : StagedAt(g)
        /\ \A t \in Token : job[t].f \in staged /\ Owns(t) => Alone(t)
    BY <1>57 DEF Staged, deleteDirectoryDoes
  <2>2. UNCHANGED <<imp, job, src>>
    BY <1>57 DEF deleteDirectoryDoes
  <2>3. \A t \in Token : job'[t].f \in staged /\ Owns(t)' => Alone(t)'
    BY <2>1, <2>2 DEF Owns, Alone
  <2>4. ASSUME NEW g \in staged
        PROVE  StagedAt(g)'
    <3>1. g \in File /\ StagedAt(g)
      BY <1>4, <2>1
    <3>2. ASSUME InFlight(g)
          PROVE  /\ g \in fs => g \in fs'
                 /\ Held(g) => Held(g)'
                 /\ \A t \in Token, b \in Bytes : <<g, t, b>> \in temp => <<g, t, b>> \in temp'
      <4>1. file[g].state = "none"
        BY <1>5, <3>1, <3>2
      <4>2. QED
        BY <1>1, <1>4, <3>1, <3>2, <4>1, <1>57 DEF deleteDirectoryDoes, Held, Exists, InFlight, StagedAt
    <3>3. /\ scan'.pc = "entries" /\ g \in scan'.orphans => ~InFlight(g)
          /\ \A t \in Token, b \in Bytes : scan'.pc = "entries" /\ <<g, t, b>> \in scan'.temps => ~InFlight(g)
      BY <1>4, <3>1, <1>57 DEF deleteDirectoryDoes, StagedAt
    <3>4. QED
      BY <2>2, <3>1, <3>2, <3>3, StagedStays
  <2>5. QED
    BY <2>3, <2>4
<1>58. QED
  BY <1>8, <1>9, <1>10, <1>11, <1>12, <1>13, <1>14, <1>15, <1>16, <1>17, <1>18, <1>19, <1>20,
    <1>21, <1>22, <1>23, <1>24, <1>25, <1>26, <1>27, <1>28, <1>29, <1>30, <1>31, <1>32, <1>33,
    <1>34, <1>35, <1>36, <1>37, <1>38, <1>39, <1>40, <1>41, <1>42, <1>43, <1>44, <1>45, <1>46,
    <1>47, <1>48, <1>49, <1>50, <1>51, <1>52, <1>53, <1>54, <1>55, <1>56, <1>57 DEF Effect

\* Eviction's removal follows the count of its row's objects.
EvictsBackedUp ==
  \A f \in File : holder'[f] = "evict" /\ holder[f] # "evict" /\ ~evict.any
    => indexer \in obj[f] \/ "switched" \in hazard

\* What is taken was counted.
LEMMA TakenBackedUp ==
  ASSUME Types, Types', Backed, Effect
  PROVE  EvictsBackedUp
PROOF
<1>1. holder \in [File -> {"free", "download", "evict"}] /\ evict \in EvictState
  BY DEF Types
<1>2. ASSUME NEW f \in File, GetFileUriDoes(f)
      PROVE  EvictsBackedUp
  BY <1>2, <1>1 DEF GetFileUriDoes, getFsFileUri, EvictsBackedUp, Backed
<1>3. ASSUME NEW f \in File, DownloadStartDoes(f)
      PROVE  EvictsBackedUp
  BY <1>3, <1>1 DEF DownloadStartDoes, DlIs, EvictsBackedUp, Backed
<1>4. ASSUME NEW f \in File, DownloadOpensDoes(f)
      PROVE  EvictsBackedUp
  BY <1>4, <1>1 DEF DownloadOpensDoes, DlIs, EvictsBackedUp, Backed
<1>5. ASSUME NEW f \in File, DownloadArrivesDoes(f)
      PROVE  EvictsBackedUp
  BY <1>5, <1>1 DEF DownloadArrivesDoes, DlIs, EvictsBackedUp, Backed
<1>6. ASSUME NEW f \in File, DownloadRecordsDoes(f)
      PROVE  EvictsBackedUp
  BY <1>6, <1>1 DEF DownloadRecordsDoes, DlIs, Recorded, EvictsBackedUp, Backed
<1>7. ASSUME NEW f \in File, DownloadStopsDoes(f)
      PROVE  EvictsBackedUp
  BY <1>7, <1>1 DEF DownloadStopsDoes, DlIs, EvictsBackedUp, Backed
<1>8. ASSUME NEW f \in File, EditDoes(f)
      PROVE  EvictsBackedUp
  BY <1>8, <1>1 DEF EditDoes, FileIs, EvictsBackedUp, Backed
<1>9. ASSUME NEW f \in File, TombstoneDoes(f)
      PROVE  EvictsBackedUp
  BY <1>9, <1>1 DEF TombstoneDoes, FileIs, EvictsBackedUp, Backed
<1>10. ASSUME NEW f \in File, UploadDoes(f)
      PROVE  EvictsBackedUp
  BY <1>10, <1>1 DEF UploadDoes, EvictsBackedUp, Backed
<1>11. ASSUME NEW f \in File, NEW y \in Type, RetypeDoes(f, y)
      PROVE  EvictsBackedUp
  BY <1>11, <1>1 DEF RetypeDoes, FileIs, Recorded, EvictsBackedUp, Backed
<1>12. ASSUME NEW f \in File, NEW y \in Type, removeTombstonedDoes(f, y)
      PROVE  EvictsBackedUp
  BY <1>12, <1>1 DEF removeTombstonedDoes, removeNow, EvictsBackedUp, Backed
<1>13. ASSUME ScanJudgeDoes
      PROVE  EvictsBackedUp
  BY <1>13, <1>1 DEF ScanJudgeDoes, ScanIs, EvictsBackedUp, Backed
<1>14. ASSUME RemoveTempDoes
      PROVE  EvictsBackedUp
  BY <1>14, <1>1 DEF RemoveTempDoes, ScanIs, EvictsBackedUp, Backed
<1>15. ASSUME NEW f \in File, NEW y \in Type, ScanEntryDoes(f, y)
      PROVE  EvictsBackedUp
  BY <1>15, <1>1 DEF ScanEntryDoes, Misjudged, Recorded, ScanIs, ScansOn, getFsFileUri,
    removeNow, EvictsBackedUp, Backed
<1>16. ASSUME ScanEndDoes
      PROVE  EvictsBackedUp
  BY <1>16, <1>1 DEF ScanEndDoes, ScanIs, EvictsBackedUp, Backed
<1>17. ASSUME EvictReadDoes
      PROVE  EvictsBackedUp
  BY <1>17, <1>1 DEF EvictReadDoes, EvictIs, EvictsBackedUp, Backed
<1>18. ASSUME NEW f \in File, NEW y \in Type, EvictCountDoes(f, y)
      PROVE  EvictsBackedUp
  BY <1>18, <1>1 DEF EvictCountDoes, EvictIs, EvictsBackedUp, Backed
<1>19. ASSUME NEW f \in File, NEW y \in Type, EvictTryDoes(f, y)
      PROVE  EvictsBackedUp
  BY <1>19, <1>1 DEF EvictTryDoes, EvictIs, EvictsBackedUp, Backed
<1>20. ASSUME NEW f \in File, NEW y \in Type, EvictRowDoes(f, y)
      PROVE  EvictsBackedUp
  BY <1>20, <1>1 DEF EvictRowDoes, EvictIs, EvictsBackedUp, Backed
<1>21. ASSUME EvictEndDoes
      PROVE  EvictsBackedUp
  BY <1>21, <1>1 DEF EvictEndDoes, EvictIs, EvictsBackedUp, Backed
<1>22. ASSUME NEW f \in File, NEW y \in Type, NEW z \in Type \union {"none"}, retypeFileDoes(f,
  y, z)
      PROVE  EvictsBackedUp
  BY <1>22, <1>1 DEF retypeFileDoes, FileIs, Recorded, EvictsBackedUp, Backed
<1>23. ASSUME SwitchIndexerDoes
      PROVE  EvictsBackedUp
  BY <1>23, <1>1 DEF SwitchIndexerDoes, EvictsBackedUp, Backed
<1>24. ASSUME ScanListDoes
      PROVE  EvictsBackedUp
  BY <1>24, <1>1 DEF ScanListDoes, ScanIs, EvictsBackedUp, Backed
<1>25. ASSUME TickBeginDoes
      PROVE  EvictsBackedUp
  BY <1>25, <1>1 DEF TickBeginDoes, RowIs, EvictsBackedUp, Backed
<1>26. ASSUME TickDoes
      PROVE  EvictsBackedUp
  BY <1>26, <1>1 DEF TickDoes, EvictsBackedUp, Backed
<1>27. ASSUME NEW f \in File, NEW t \in Token, ClaimDoes(f, t)
      PROVE  EvictsBackedUp
  BY <1>27, <1>1 DEF ClaimDoes, ImpIs, RowIs, EvictsBackedUp, Backed
<1>28. ASSUME NEW t \in Token, JobStartDoes(t)
      PROVE  EvictsBackedUp
  BY <1>28, <1>1 DEF JobStartDoes, JobIs, EvictsBackedUp, Backed
<1>29. ASSUME NEW t \in Token, ResolveDoes(t)
      PROVE  EvictsBackedUp
  BY <1>29, <1>1 DEF ResolveDoes, ImpIs, JobIs, RowIs, Settles, EvictsBackedUp, Backed
<1>30. ASSUME NEW t \in Token, CopyDoes(t)
      PROVE  EvictsBackedUp
  BY <1>30, <1>1 DEF CopyDoes, JobIs, Late, EvictsBackedUp, Backed
<1>31. ASSUME NEW t \in Token, CancelCopyDoes(t)
      PROVE  EvictsBackedUp
  BY <1>31, <1>1 DEF CancelCopyDoes, JobIs, EvictsBackedUp, Backed
<1>32. ASSUME NEW t \in Token, PublishDoes(t)
      PROVE  EvictsBackedUp
  BY <1>32, <1>1 DEF PublishDoes, JobIs, Late, EvictsBackedUp, Backed
<1>33. ASSUME NEW t \in Token, RecordDoes(t)
      PROVE  EvictsBackedUp
  BY <1>33, <1>1 DEF RecordDoes, JobIs, Late, EvictsBackedUp, Backed
<1>34. ASSUME NEW t \in Token, RecordCutDoes(t)
      PROVE  EvictsBackedUp
  BY <1>34, <1>1 DEF RecordCutDoes, JobIs, EvictsBackedUp, Backed
<1>35. ASSUME NEW t \in Token, HashDoes(t)
      PROVE  EvictsBackedUp
  BY <1>35, <1>1 DEF HashDoes, JobIs, EvictsBackedUp, Backed
<1>36. ASSUME NEW t \in Token, RefuseEmptyDoes(t)
      PROVE  EvictsBackedUp
  BY <1>36, <1>1 DEF RefuseEmptyDoes, ImpIs, JobIs, RowIs, Settles, removeNow, EvictsBackedUp,
    Backed
<1>37. ASSUME NEW t \in Token, RenameDoes(t)
      PROVE  EvictsBackedUp
  BY <1>37, <1>1 DEF RenameDoes, JobIs, EvictsBackedUp, Backed
<1>38. ASSUME NEW t \in Token, RecordHashDoes(t)
      PROVE  EvictsBackedUp
  BY <1>38, <1>1 DEF RecordHashDoes, JobIs, EvictsBackedUp, Backed
<1>39. ASSUME NEW t \in Token, FinalizeDoes(t)
      PROVE  EvictsBackedUp
  BY <1>39, <1>1 DEF FinalizeDoes, FileIs, ImpIs, JobIs, RowIs, EvictsBackedUp, Backed
<1>40. ASSUME NEW t \in Token, CleanDuplicateDoes(t)
      PROVE  EvictsBackedUp
  BY <1>40, <1>1 DEF CleanDuplicateDoes, JobIs, removeNow, EvictsBackedUp, Backed
<1>41. ASSUME NEW t \in Token, JobFailsDoes(t)
      PROVE  EvictsBackedUp
  BY <1>41, <1>1 DEF JobFailsDoes, ImpIs, JobIs, RowIs, Settles, EvictsBackedUp, Backed
<1>42. ASSUME NEW t \in Token, CopyFindsNothingDoes(t)
      PROVE  EvictsBackedUp
  BY <1>42, <1>1 DEF CopyFindsNothingDoes, ImpIs, JobIs, RowIs, Settles, EvictsBackedUp, Backed
<1>43. ASSUME NEW f \in File, GiveUpDoes(f)
      PROVE  EvictsBackedUp
  BY <1>43, <1>1 DEF GiveUpDoes, ImpIs, RowIs, EvictsBackedUp, Backed
<1>44. ASSUME NEW f \in File, RependDoes(f)
      PROVE  EvictsBackedUp
  BY <1>44, <1>1 DEF RependDoes, ImpIs, RowIs, EvictsBackedUp, Backed
<1>45. ASSUME NEW f \in File, EditSourceDoes(f)
      PROVE  EvictsBackedUp
  BY <1>45, <1>1 DEF EditSourceDoes, EvictsBackedUp, Backed
<1>46. ASSUME AbortDoes
      PROVE  EvictsBackedUp
  BY <1>46, <1>1 DEF AbortDoes, EvictsBackedUp, Backed
<1>47. ASSUME KillDoes
      PROVE  EvictsBackedUp
  BY <1>47, <1>1 DEF KillDoes, EvictIs, Late, ScanIs, EvictsBackedUp, Backed
<1>48. ASSUME DropReadDoes
      PROVE  EvictsBackedUp
  BY <1>48, <1>1 DEF DropReadDoes, EvictsBackedUp, Backed
<1>49. ASSUME failImportDoes
      PROVE  EvictsBackedUp
  BY <1>49, <1>1 DEF failImportDoes, RowIs, EvictsBackedUp, Backed
<1>50. ASSUME NEW f \in File, NEW y \in Type, DropBytesDoes(f, y)
      PROVE  EvictsBackedUp
  BY <1>50, <1>1 DEF DropBytesDoes, removeNow, EvictsBackedUp, Backed
<1>51. ASSUME deleteDirectoryDoes
      PROVE  EvictsBackedUp
  BY <1>51, <1>1 DEF deleteDirectoryDoes, EvictsBackedUp, Backed
<1>52. QED
  BY <1>2, <1>3, <1>4, <1>5, <1>6, <1>7, <1>8, <1>9, <1>10, <1>11, <1>12, <1>13, <1>14, <1>15,
    <1>16, <1>17, <1>18, <1>19, <1>20, <1>21, <1>22, <1>23, <1>24, <1>25, <1>26, <1>27, <1>28,
    <1>29, <1>30, <1>31, <1>32, <1>33, <1>34, <1>35, <1>36, <1>37, <1>38, <1>39, <1>40, <1>41,
    <1>42, <1>43, <1>44, <1>45, <1>46, <1>47, <1>48, <1>49, <1>50, <1>51 DEF Effect

\* The inductive invariant: what is known of the files, the claims and the passes,
\* and what each property needs of them.
Invariants ==
  /\ Types
  /\ Unmade /\ Locks /\ Backed /\ Moves /\ Listed
  /\ Claims /\ Rows /\ Dropped /\ Hashed /\ Hashes
  /\ InPlace /\ AddedMeansFile /\ Sound /\ Last /\ Quiet /\ Staged

\* It holds at first.
LEMMA InitInvariants ==
  ASSUME Init
  PROVE  Invariants
PROOF
<1>1. Types /\ Begun
  BY InitTypes
<1>2. \A t \in Token, f \in File : imp[f].token # t
  BY <1>1 DEF Begun, Token
<1>3. \A t \in Token : ~Owns(t) /\ ~Waited(t)
  BY <1>1, <1>2 DEF Owns, Waited, Begun, Types, JobRow
<1>4. Unmade /\ Locks /\ Backed /\ Moves /\ Listed
  BY <1>1 DEF Begun, Unmade, Locks, Backed, Moves, Listed
<1>5. Claims /\ Rows /\ Dropped
  BY <1>1, <1>2, <1>3 DEF Begun, Claims, Rows, Dropped
<1>6. Hashed /\ Hashes
  BY <1>1, <1>3 DEF Begun, Hashed, Hashes, Exists
<1>7. InPlace
  BY <1>1, <1>3 DEF Begun, InPlace, AtItsTypes
<1>8. AddedMeansFile
  BY <1>1, ImportsAssumption DEF Begun, AddedMeansFile
<1>9. ASSUME NEW f \in File, Exists(f)
      PROVE  SoundAt(f) /\ OneCopy(f) /\ ScanKnows(f) /\ QuietAt(f)
  <2>1. file[f].type \in Type
    BY <1>1 DEF Types, FileRow
  <2>2. /\ file[f].hash # "none" /\ sent[f] = file[f].hash /\ Slot(f) = file[f].hash
        /\ \A y \in Type \ {file[f].type} : disk[f][y] = "none"
    BY <1>1, <1>9 DEF Begun, Exists
  <2>3. SoundAt(f)
    BY <2>1, <2>2 DEF SoundAt, Slot
  <2>4. OneCopy(f)
    BY <2>1, <2>2 DEF OneCopy, Slot
  <2>5. ScanKnows(f)
    BY <1>1 DEF ScanKnows, Begun
  <2>6. QuietAt(f)
    BY <1>1, <2>2 DEF QuietAt, Begun
  <2>7. QED
    BY <2>3, <2>4, <2>5, <2>6
<1>10. Sound /\ Last /\ Quiet
  BY <1>1, <1>9 DEF Sound, Last, Quiet, Begun
<1>11. ASSUME NEW f \in staged
       PROVE  StagedAt(f)
  <2>1. f \in Importing
    BY <1>1 DEF Types
  <2>2. f \in File /\ imp[f].state = "pending" /\ src[f] # "none" /\ scan.pc = "idle"
    BY <1>1, <2>1, ImportsAssumption DEF Begun
  <2>3. QED
    BY <2>2 DEF StagedAt
<1>12. Staged
  BY <1>3, <1>11 DEF Staged
<1>13. QED
  BY <1>1, <1>4, <1>5, <1>6, <1>7, <1>8, <1>10, <1>12 DEF Invariants

\* Every step keeps it.
LEMMA StepInvariants ==
  ASSUME Invariants, [Next]_vars
  PROVE  Invariants' /\ Effect
PROOF
<1>1. /\ Types /\ Unmade /\ Locks /\ Backed /\ Moves /\ Listed /\ Claims /\ Rows /\ Dropped
      /\ Hashed /\ Hashes /\ InPlace /\ AddedMeansFile /\ Sound /\ Last /\ Quiet /\ Staged
  BY DEF Invariants
<1>2. Types' /\ Effect
  BY <1>1, Steps
<1>3. Unmade' /\ Locks' /\ Backed' /\ Moves' /\ Listed'
  BY <1>1, <1>2, UnmadeKept, LocksKept, BackedKept, MovesKept, ListedKept
<1>4. Claims' /\ Rows' /\ Dropped' /\ Hashed' /\ Hashes'
  BY <1>1, <1>2, ClaimsKept, RowsKept, DroppedKept, HashedKept, HashesKept
<1>5. InPlace' /\ AddedMeansFile'
  BY <1>1, <1>2, InPlaceKept, AddedKept
<1>6. Sound' /\ Last' /\ Quiet' /\ Staged'
  BY <1>1, <1>2, SoundKept, LastKept, QuietKept, StagedInvKept
<1>7. QED
  BY <1>2, <1>3, <1>4, <1>5, <1>6 DEF Invariants

\* So it holds throughout.
LEMMA AlwaysInvariants == Spec => []Invariants
PROOF
<1>1. Init => Invariants
  BY InitInvariants
<1>2. Invariants /\ [Next]_vars => Invariants'
  BY StepInvariants
<1>3. QED
  BY <1>1, <1>2, PTL DEF Spec

\* A row of import_files is marked added just when its file exists, but for a
\* folder's delete that fails the rows it read after one of them was added.
THEOREM ImportsAddedMeansFile == Spec => []AddedMeansFile
PROOF
<1>1. Invariants => AddedMeansFile
  BY DEF Invariants
<1>2. QED
  BY <1>1, AlwaysInvariants, PTL

\* A file no indexer holds still has its bytes on the device, whole and in one slot:
\* no scan, eviction, download, rename, retry or crash takes them, but for the races
\* the property names.
THEOREM LastCopyIsKept == Spec => []LastCopyKept
PROOF
<1>1. Invariants => LastCopyKept
  BY DEF Invariants, Last, LastCopyKept, OneCopy, Whole
<1>2. QED
  BY <1>1, AlwaysInvariants, PTL

\* What the uploader sent of a file is what the file's hash says, but for the races
\* the property names.
THEOREM WholeFilesAreSent == Spec => []SentIsWhole
PROOF
<1>1. Invariants => SentIsWhole
  BY DEF Invariants, Sound, SentIsWhole, SoundAt
<1>2. QED
  BY <1>1, AlwaysInvariants, PTL

\* A file shown as on the device has bytes at its slot, while eviction does not hold
\* its lock and nothing but the races the property lets pass has happened.
THEOREM FsRowsHaveBytes == Spec => []OnDeviceHasBytes
PROOF
<1>1. Invariants => OnDeviceHasBytes
  BY DEF Invariants, Types, Quiet, OnDeviceHasBytes, QuietAt
<1>2. QED
  BY <1>1, AlwaysInvariants, PTL

\* The bytes of a staged import, whose source is moved and not copied, are at the
\* source, in its job's temp or at a slot until it is added or given up.
THEOREM StagedBytesAreKept == Spec => []StagedKept
PROOF
<1>1. ASSUME Invariants
      PROVE  StagedKept
  <2>1. temp \subseteq File \X Token \X Bytes
    BY <1>1 DEF Invariants, Types
  <2>2. SUFFICES ASSUME hazard \cap {"movedUnrecorded", "failedAdded", "retried"} = {}, NEW f \in staged
        PROVE  /\ InFlight(f) => \/ src[f] # "none"
                                 \/ \E y \in Type : disk[f][y] # "none"
                                 \/ \E e \in temp : e[1] = f
               /\ ~(imp[f].state = "unavailable" /\ imp[f].dead)
    BY DEF StagedKept
  <2>3. StagedAt(f)
    BY <1>1, <2>2 DEF Invariants, Staged
  <2>4. ASSUME NEW t \in Token, Carried(f, t)
        PROVE  (\E y \in Type : disk[f][y] # "none") \/ \E e \in temp : e[1] = f
    <3>1. CASE Held(f)
      BY <3>1 DEF Held
    <3>2. ASSUME NEW b \in Bytes, <<f, t, b>> \in temp
          PROVE  \E e \in temp : e[1] = f
      <4>1. <<f, t, b>>[1] = f
        OBVIOUS
      <4>2. QED
        BY <3>2, <4>1
    <3>3. QED
      BY <2>4, <3>1, <3>2 DEF Carried
  <2>5. QED
    BY <2>3, <2>4 DEF StagedAt, Held
<1>2. QED
  BY <1>1, AlwaysInvariants, PTL

\* Eviction of current and trashed files takes the copy of a file only while the
\* connected indexer has it, though it counts, waits for the lock and removes in
\* three steps, but for a switch of indexers in between.
THEOREM EvictionIsBackedUp == Spec => EvictsOnlyBackedUp
PROOF
<1>1. ASSUME Invariants, [Next]_vars
      PROVE  [\A f \in File : holder'[f] = "evict" /\ holder[f] # "evict" /\ ~evict.any
                => indexer \in obj[f] \/ "switched" \in hazard]_vars
  <2>1. Types /\ Types' /\ Backed /\ Effect
    BY <1>1, StepInvariants DEF Invariants
  <2>2. EvictsBackedUp
    BY <2>1, TakenBackedUp
  <2>3. QED
    BY <2>2 DEF EvictsBackedUp
<1>2. QED
  BY <1>1, AlwaysInvariants, PTL DEF Spec, EvictsOnlyBackedUp

=============================================================================
