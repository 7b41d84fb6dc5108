---------------------------- MODULE EngineReport ---------------------------
(* What encode reports, whatever is edited and however long workers take:  *)
(* what is refused for its size, what is encoded only once, every file     *)
(* found once with the counts that go with it, a result that passes        *)
(* validate, and a cancellation that is prompt.                            *)
EXTENDS EngineProofs

-----------------------------------------------------------------------------
(* Refusals for size. *)

\* At the start no file is in hand, no worker has answered, and what may be
\* reused has no error.
LEMMA FitInit == Init => FitInv /\ AnswersInv
BY NoneAssumption DEF Init, FitInv, AnswersInv, InFile, IsOpen, Awaiting, FilePcs, AwaitPcs

\* The size of the file in hand, its overflow and its room stay related.
LEMMA FitStep ==
    ASSUME TypeOK, RevisionsInv, ReadingInv, FitInv, [Next]_vars
    PROVE  FitInv'
<1> USE DEF FitInv, InFile, IsOpen, Sized, Awaiting, FilePcs, AwaitPcs
<1>a. PlaceType /\ FileType /\ WorldType
  BY DEF TypeOK
<1>b. UNCHANGED <<disk, cur>> => (StillCurrent(cur.path, cur.rev)' <=> StillCurrent(cur.path, cur.rev))
  BY DEF StillCurrent
<1>c. UNCHANGED <<pool, cur>> => (MustWait' <=> MustWait)
  BY DEF MustWait, Staged, Active, Holding
<1>1. CASE Interrupt
  BY <1>a, <1>b, <1>c, <1>1 DEF Interrupt, world, native
<1>2. ASSUME NEW p \in Paths, ListEntry(p) PROVE FitInv'
  BY <1>a, <1>b, <1>c, <1>2 DEF ListEntry, world, native
<1>3. ASSUME NEW p \in Paths, ListDirectory(p) PROVE FitInv'
  BY <1>a, <1>b, <1>c, <1>3 DEF ListDirectory, world, native
<1>4. CASE ListingFails
  BY <1>a, <1>b, <1>c, <1>4 DEF ListingFails, world, native
<1>5. CASE DiscoveryEnds
  BY <1>a, <1>b, <1>c, <1>5 DEF DiscoveryEnds, world, native
<1>6. CASE TakeFile
  BY <1>6, <1>a DEF TakeFile, NotOpened
<1>7. CASE Drain
  <2>1. /\ UNCHANGED <<disk, cur>> /\ pc = "drain"
        /\ pc' \in {"finish", "open"} /\ (pc' = "finish" => ret' = "drain")
    BY <1>7 DEF Drain, world, native
  <2> QED BY <2>1, <1>b
<1>8. CASE WaitOne
  BY <1>a, <1>b, <1>c, <1>8 DEF WaitOne, world, native
<1>9. CASE Finish
  BY <1>a, <1>b, <1>c, <1>9 DEF Finish, world, native
<1>10. CASE Settle
  <2>1. /\ UNCHANGED <<disk, cur>> /\ pc' = ret /\ ret' = ret /\ pc = "settle"
        /\ ret \in {"drain", "admit", "dedup", "final"}
    BY <1>a, <1>10 DEF Settle, PlaceType, world, native
  <2> QED BY <2>1, <1>b
<1>11. CASE FilesEnd
  BY <1>a, <1>b, <1>c, <1>11 DEF FilesEnd, world, native
<1>12. CASE AwaitWorkers
  BY <1>a, <1>b, <1>c, <1>12 DEF AwaitWorkers, world, native
<1>13. CASE FileFails
  BY <1>a, <1>b, <1>c, <1>13 DEF FileFails, NextFile, world, native
<1>14. CASE Open
  <2>1. CASE pc' = "sniff"
    <3>1. /\ cur \in FilesInHand /\ disk' = disk /\ ~cur.staged /\ ~cur.overflow
          /\ cur' = [cur EXCEPT !.rev = disk[cur.path].rev, !.size = Len(disk[cur.path].data),
                                !.data = disk[cur.path].data, !.linked = TRUE]
      BY <2>1, <1>a, <1>14 DEF Open, NextFile, FileType, world, ReadingInv
    <3>2. /\ cur'.data = disk[cur.path].data /\ cur'.size = Len(disk[cur.path].data)
          /\ ~cur'.staged /\ ~cur'.overflow
      BY <3>1 DEF FilesInHand, Opened
    <3> QED BY <2>1, <3>2
  <2>2. CASE pc' = "top"
    BY <2>2
  <2> QED BY <2>1, <2>2, <1>14 DEF Open, NextFile
<1>15. CASE Sniff
  <2>1. /\ cur \in FilesInHand /\ disk' = disk /\ pc = "sniff" /\ pc' \in {"admit", "hash"}
        /\ cur' = [cur EXCEPT !.fmt = DetectFormat(cur.path, cur.data)]
    BY <1>a, <1>15 DEF Sniff, FileType, world, native
  <2>2. /\ cur'.data = cur.data /\ cur'.path = cur.path /\ cur'.rev = cur.rev
        /\ cur'.size = cur.size /\ cur'.staged = cur.staged /\ cur'.limit = cur.limit
        /\ cur'.overflow = cur.overflow
    BY <2>1 DEF FilesInHand, Opened
  <2> QED BY <2>1, <2>2 DEF StillCurrent
<1>16. CASE Admit
  <2>1. UNCHANGED <<disk, cur, pool>> /\ pc = "admit"
    BY <1>16 DEF Admit, native, world, native
  <2>2. CASE MustWait /\ pc' = "wait" /\ ret' = "admit"
    BY <2>1, <2>2, <1>b
  <2>3. CASE ~MustWait /\ pc' = "stage"
    BY <2>1, <2>3, <1>b, <1>c
  <2> QED BY <2>2, <2>3, <1>16 DEF Admit
<1>17. CASE Stage
  <2>1. /\ cur \in FilesInHand /\ disk' = disk /\ pc = "stage" /\ pc' = "hash" /\ ~MustWait
        /\ cur' = [cur EXCEPT !.limit = SourceLimit, !.overflow = cur.size > SourceLimit,
                              !.staged = ~(cur.size > SourceLimit)]
    BY <1>a, <1>17 DEF Stage, FileType, world, native
  <2>2. /\ Staged \in Nat /\ cur.size \in Nat /\ StagingBytes \in Nat /\ Reserve \in Nat
        /\ SourceLimit \in Nat
    BY <2>1, <1>a, StagedType, SizesAssumption DEF TypeOK, FilesInHand, Opened, SourceLimit
  <2>3. cur.size > SourceLimit => cur.size + Reserve > StagingBytes
    <3>1. CASE Active = {}
      BY <2>2, <3>1, StagedNone DEF SourceLimit
    <3>2. CASE Active # {}
      <4>1. Staged + cur.size + Reserve <= StagingBytes
        BY <2>1, <2>2, <3>2 DEF MustWait
      <4> QED BY <2>2, <4>1 DEF SourceLimit
    <3> QED BY <3>1, <3>2
  <2>4. /\ cur'.data = cur.data /\ cur'.path = cur.path /\ cur'.rev = cur.rev
        /\ cur'.size = cur.size /\ cur'.limit = SourceLimit
        /\ cur'.overflow = (cur.size > SourceLimit) /\ cur'.staged = ~(cur.size > SourceLimit)
    BY <2>1 DEF FilesInHand, Opened
  <2>5. cur'.staged => cur'.size <= cur'.limit
    <3>1. ~(cur.size > SourceLimit) => cur.size <= SourceLimit
      BY <2>2
    <3> QED BY <3>1, <2>4
  <2>6. cur'.overflow => cur'.size + Reserve > StagingBytes
    BY <2>3, <2>4
  <2> QED BY <2>1, <2>4, <2>5, <2>6 DEF StillCurrent
<1>18. CASE Hash
  <2>1. cur \in FilesInHand /\ disk' = disk /\ pc = "hash"
    BY <1>a, <1>18 DEF Hash, FileType, world, native
  <2>2. CASE UNCHANGED cur
    BY <2>1, <2>2, <1>b, <1>18 DEF Hash
  <2>3. CASE ~UNCHANGED cur
    <3>1. /\ pc' = "hash" /\ Len(cur.hashed) + 1 <= Len(cur.data)
          /\ cur'.data = cur.data /\ cur'.path = cur.path /\ cur'.rev = cur.rev
          /\ cur'.size = cur.size /\ cur'.limit = cur.limit
          /\ cur'.staged => cur.staged
          /\ cur'.overflow =>
                cur.overflow \/ (cur.staged /\ ~(Len(cur.hashed) + 1 <= cur.limit))
      BY <2>1, <2>3, <1>18 DEF Hash, FilesInHand, Opened
    <3>2. cur.size \in Nat /\ cur.limit \in Nat /\ Len(cur.data) \in Nat /\ Len(cur.hashed) \in Nat
      BY <2>1, SizesAssumption DEF FilesInHand, Opened
    <3>3. cur.size = Len(cur.data) /\ cur'.overflow => cur.overflow
      BY <2>1, <3>1, <3>2
    <3> QED BY <2>1, <3>1, <3>3 DEF StillCurrent
  <2> QED BY <2>2, <2>3
<1>19. CASE Verify
  BY <1>a, <1>b, <1>c, <1>19 DEF Verify, NextFile, world, native
<1>20. CASE Dedup
  BY <1>a, <1>b, <1>c, <1>20 DEF Dedup, world, native
<1>21. CASE Lookup
  <2>1. /\ cur \in FilesInHand /\ disk' = disk /\ pc = "lookup"
        /\ pc' \in {"reuse", "text", "judge", "submit"}
        /\ pc' # "judge" => cur' = cur
        /\ pc' = "judge" => \E e \in Errors :
              /\ cur' = [cur EXCEPT !.verdict = Bad(e)]
              /\ e = "ResourceBudgetTooSmall" => cur.overflow
    BY <1>a, <1>21 DEF Lookup, FileType, world, Errors
  <2>2. CASE pc' # "judge"
    BY <2>1, <2>2, <1>b
  <2>3. ASSUME NEW e \in Errors, pc' = "judge", cur' = [cur EXCEPT !.verdict = Bad(e)],
               e = "ResourceBudgetTooSmall" => cur.overflow
        PROVE  FitInv'
    <3>1. /\ cur'.staged = cur.staged /\ cur'.size = cur.size /\ cur'.limit = cur.limit
          /\ cur'.overflow = cur.overflow /\ cur'.data = cur.data
          /\ cur'.path = cur.path /\ cur'.rev = cur.rev /\ cur'.verdict = Bad(e)
      BY <2>1, <2>3 DEF FilesInHand, Opened
    <3>2. Bad(e).error = e
      BY DEF Bad
    <3> QED BY <2>1, <2>3, <3>1, <3>2 DEF StillCurrent
  <2> QED BY <2>1, <2>2, <2>3
<1>22. CASE Reuse
  BY <1>a, <1>b, <1>c, <1>22 DEF Reuse, NextFile, world, native
<1>23. CASE EncodeText
  <2>1. cur \in FilesInHand /\ disk' = disk /\ pc = "text"
    BY <1>a, <1>23 DEF EncodeText, FileType, world, native
  <2>2. \/ pc' = "text" /\ \E x : cur' = [cur EXCEPT !.reread = x]
        \/ pc' = "judge" /\ \E v : /\ cur' = [cur EXCEPT !.verdict = v]
                                   /\ v.error # "ResourceBudgetTooSmall"
    <3>1. Good("text", cur.reread).error # "ResourceBudgetTooSmall"
      BY NoneAssumption DEF Good, Errors
    <3>2. \A e \in {"InsufficientContent", "IoError", "InvalidText"} :
             Bad(e).error # "ResourceBudgetTooSmall"
      BY DEF Bad
    <3> QED BY <3>1, <3>2, <1>23 DEF EncodeText
  <2>3. ASSUME NEW x, pc' = "text", cur' = [cur EXCEPT !.reread = x] PROVE FitInv'
    <3>1. /\ cur'.staged = cur.staged /\ cur'.size = cur.size /\ cur'.limit = cur.limit
          /\ cur'.overflow = cur.overflow /\ cur'.data = cur.data
          /\ cur'.path = cur.path /\ cur'.rev = cur.rev
      BY <2>1, <2>3 DEF FilesInHand, Opened
    <3> QED BY <2>1, <2>3, <3>1 DEF StillCurrent
  <2>4. ASSUME NEW v, pc' = "judge", cur' = [cur EXCEPT !.verdict = v],
               v.error # "ResourceBudgetTooSmall"
        PROVE  FitInv'
    <3>1. /\ cur'.staged = cur.staged /\ cur'.size = cur.size /\ cur'.limit = cur.limit
          /\ cur'.overflow = cur.overflow /\ cur'.data = cur.data
          /\ cur'.path = cur.path /\ cur'.rev = cur.rev /\ cur'.verdict = v
      BY <2>1, <2>4 DEF FilesInHand, Opened
    <3> QED BY <2>1, <2>4, <3>1 DEF StillCurrent
  <2> QED BY <2>2, <2>3, <2>4
<1>24. CASE Judge
  BY <1>a, <1>b, <1>c, <1>24 DEF Judge, NextFile, world, native
<1>25. CASE Submit
  BY <1>a, <1>b, <1>c, <1>25 DEF Submit, NextFile, world, native
<1>26. CASE Assemble
  BY <1>a, <1>b, <1>c, <1>26 DEF Assemble, world, native
<1>27. CASE Cleanup
  BY <1>a, <1>b, <1>c, <1>27 DEF Cleanup, world, native
<1>28. ASSUME NEW s \in Slots, WorkerAnswers(s) PROVE FitInv'
  <2>1. Active' = Active /\ Staged' = Staged
    BY <1>28, StagedAnswer
  <2> QED BY <2>1, <1>b, <1>28 DEF WorkerAnswers, world, MustWait
<1>29. ASSUME NEW p \in Paths, NEW c \in Contents, Overwrite(p, c) PROVE FitInv'
  <2>1. CASE ~InFile
    BY <2>1, <1>a, <1>29 DEF Overwrite, Edit, HoldsInode, InHand, FileType
  <2>2. CASE InFile
    <3>1. /\ cur \in FilesInHand /\ cur'.path = cur.path /\ cur'.rev = cur.rev
          /\ cur'.size = cur.size /\ cur'.staged = cur.staged /\ cur'.limit = cur.limit
          /\ cur'.overflow = cur.overflow /\ cur'.verdict = cur.verdict /\ pool' = pool
          /\ (cur.path # p => cur' = cur) /\ UNCHANGED <<pc, ret>>
      BY <2>2, <1>a, <1>29 DEF Overwrite, Edit, native, HoldsInode, InHand, FileType, FilesInHand, Opened
    <3>2. cur.path \in Paths /\ cur.rev \in Int /\ cur.rev <= edits
      BY <2>2, <3>1 DEF FilesInHand, Opened, RevisionsInv
    <3>3. StillCurrent(cur.path, cur.rev)' =>
             StillCurrent(cur.path, cur.rev) /\ disk'[cur.path] = disk[cur.path] /\ cur' = cur
      <4>1. StillCurrent(cur.path, cur.rev)' =>
              StillCurrent(cur.path, cur.rev) /\ disk'[cur.path] = disk[cur.path] /\ cur.path # p
        <5> DEFINE q == cur.path
                   r == cur.rev
        <5>1. disk'[q].kind = "file" /\ disk'[q].rev = r =>
                StillCurrent(q, r) /\ disk'[q] = disk[q] /\ q # p
          BY <3>2, <1>29, EditOutdates
        <5> QED BY <5>1, <3>1 DEF StillCurrent
      <4> QED BY <4>1, <3>1
    <3>4. MustWait' <=> MustWait
      BY <3>1 DEF MustWait, Staged, Active, Holding
    <3> QED BY <2>2, <3>1, <3>3, <3>4
  <2> QED BY <2>1, <2>2
<1>30. ASSUME NEW p \in Paths, NEW e \in Substitutes, Rename(p, e) PROVE FitInv'
  <2>1. CASE ~InFile
    BY <2>1, <1>a, <1>30 DEF Rename, Edit, HoldsInode, InHand, FileType
  <2>2. CASE InFile
    <3>1. /\ cur \in FilesInHand /\ cur'.path = cur.path /\ cur'.rev = cur.rev
          /\ cur'.size = cur.size /\ cur'.staged = cur.staged /\ cur'.limit = cur.limit
          /\ cur'.overflow = cur.overflow /\ cur'.verdict = cur.verdict /\ pool' = pool
          /\ (cur.path # p => cur' = cur) /\ UNCHANGED <<pc, ret>>
      BY <2>2, <1>a, <1>30 DEF Rename, Edit, native, HoldsInode, InHand, FileType, FilesInHand, Opened
    <3>2. cur.path \in Paths /\ cur.rev \in Int /\ cur.rev <= edits
      BY <2>2, <3>1 DEF FilesInHand, Opened, RevisionsInv
    <3>3. StillCurrent(cur.path, cur.rev)' =>
             StillCurrent(cur.path, cur.rev) /\ disk'[cur.path] = disk[cur.path] /\ cur' = cur
      <4>1. StillCurrent(cur.path, cur.rev)' =>
              StillCurrent(cur.path, cur.rev) /\ disk'[cur.path] = disk[cur.path] /\ cur.path # p
        <5> DEFINE q == cur.path
                   r == cur.rev
        <5>1. disk'[q].kind = "file" /\ disk'[q].rev = r =>
                StillCurrent(q, r) /\ disk'[q] = disk[q] /\ q # p
          BY <3>2, <1>30, EditOutdates
        <5> QED BY <5>1, <3>1 DEF StillCurrent
      <4> QED BY <4>1, <3>1
    <3>4. MustWait' <=> MustWait
      BY <3>1 DEF MustWait, Staged, Active, Holding
    <3> QED BY <2>2, <3>1, <3>3, <3>4
  <2> QED BY <2>1, <2>2
<1>31. CASE Cancel
  BY <1>a, <1>b, <1>c, <1>31 DEF Cancel, world, native
<1>32. CASE UNCHANGED vars
  BY <1>b, <1>c, <1>32 DEF vars, world, native
<1> QED
  BY <1>1, <1>2, <1>3, <1>4, <1>5, <1>6, <1>7, <1>8, <1>9, <1>10, <1>11, <1>12, <1>13, <1>14, <1>15, <1>16, <1>17, <1>18, <1>19, <1>20, <1>21, <1>22, <1>23, <1>24, <1>25, <1>26, <1>27, <1>28, <1>29, <1>30, <1>31, <1>32
     DEF Next, Coordinator, Environment, Returned

\* A record refused for its size names content that does not fit alone, and one
\* that is ready has no error.
Fits(r) ==
    /\ r.error = "ResourceBudgetTooSmall" => Len(r.id) + Reserve > StagingBytes
    /\ r.state = "ready" => r.error = None

\* finish_record refuses a file for its size only if its verdict does.
LEMMA SettledFits ==
    ASSUME NEW ctx \in Contexts, NEW v \in Verdicts,
           ctx.record = [Blank(ctx.path) EXCEPT !.id = ctx.record.id, !.family = ctx.record.family],
           StillCurrent(ctx.path, ctx.rev) /\ v.error = "ResourceBudgetTooSmall" =>
               Len(ctx.record.id) + Reserve > StagingBytes
    PROVE  Fits(Settled(ctx, v))
<1> DEFINE r == Settled(ctx, v)
<1>0. ctx.record \in FileRecords /\ ctx.record.state = "failed" /\ ctx.record.error = None
  BY DEF Blank, Contexts
<1>1. CASE ~StillCurrent(ctx.path, ctx.rev)
  <2>1. r.error = "SourceChanged" /\ r.state = "failed"
    BY <1>0, <1>1 DEF Settled, FileRecords
  <2> QED BY <2>1 DEF Fits
<1>2. CASE StillCurrent(ctx.path, ctx.rev) /\ v.error = None
  <2>1. r.error = None
    BY <1>0, <1>2 DEF Settled, FileRecords
  <2>2. None # "ResourceBudgetTooSmall"
    BY NoneAssumption DEF Errors
  <2> QED BY <2>1, <2>2 DEF Fits
<1>3. CASE StillCurrent(ctx.path, ctx.rev) /\ v.error # None
  <2>1. r.error = v.error /\ r.id = ctx.record.id /\ r.state # "ready"
    BY <1>0, <1>3 DEF Settled, FileRecords
  <2> QED BY <1>3, <2>1 DEF Fits
<1> QED BY <1>1, <1>2, <1>3

\* Every record made is refused for its size only if it would be so alone.
LEMMA RefusalsStep ==
    ASSUME TypeOK, SlotsInv, ReadingInv, JobsInv, FitInv, AnswersInv, [Next]_vars
    PROVE  \/ UNCHANGED <<cache, records>>
           \/ \E c \in Tallies, r \in FileRecords : Record(c, r) /\ Fits(r)
<1> DEFINE Made == \E c \in Tallies, r \in FileRecords : Record(c, r) /\ Fits(r)
<1> USE DEF report
<1>0. /\ FileType /\ SlotsType /\ HeldType /\ counts \in Tallies /\ Found \in Tallies
      /\ cache \subseteq FileRecords
  BY FoundType DEF TypeOK, ReportType
<1>1. CASE Interrupt \/ ListingFails \/ DiscoveryEnds \/ TakeFile \/ Drain \/ WaitOne \/ Finish
  BY <1>1 DEF Interrupt, ListingFails, DiscoveryEnds, TakeFile, Drain, WaitOne, Finish
<1>2. CASE FilesEnd \/ AwaitWorkers \/ Sniff \/ Admit \/ Stage \/ Hash
  BY <1>2 DEF FilesEnd, AwaitWorkers, Sniff, Admit, Stage, Hash
<1>3. CASE Dedup \/ Lookup \/ EncodeText \/ Submit \/ Assemble \/ Cleanup
  BY <1>3 DEF Dedup, Lookup, EncodeText, Submit, Assemble, Cleanup
<1>4. CASE Cancel \/ UNCHANGED vars \/ \E s \in Slots : WorkerAnswers(s)
  BY <1>4 DEF Cancel, vars, WorkerAnswers
<1>5. CASE \E p \in Paths : (\E c \in Contents : Overwrite(p, c)) \/ (\E e \in Substitutes : Rename(p, e))
  BY <1>5 DEF Overwrite, Rename, Edit
<1>6. ASSUME NEW p \in Paths, NEW st \in {"failed", "skipped"},
             NEW e \in {"IoError", "UnsupportedFormat", "SourceChanged"}, NEW c \in Tallies,
             Record(c, Refused(p, st, e))
      PROVE  Made
  <2>1. Refused(p, st, e) \in FileRecords
    BY RefusedType DEF States, Errors
  <2>2. Fits(Refused(p, st, e))
    BY DEF Fits, Refused, Blank
  <2> QED BY <1>6, <2>1, <2>2
<1>7. ASSUME NEW p \in Paths, ListEntry(p) PROVE UNCHANGED <<cache, records>> \/ Made
  BY <1>0, <1>6, <1>7 DEF ListEntry
<1>8. ASSUME NEW p \in Paths, ListDirectory(p) PROVE UNCHANGED <<cache, records>> \/ Made
  BY <1>0, <1>6, <1>8 DEF ListDirectory
<1>9. CASE FileFails \/ Open
  <2>1. cur.path \in Paths
    BY <1>0, <1>9 DEF FileFails, Open, FileType, InFile, FilePcs, FilesInHand, Opened
  <2> QED BY <2>1, <1>0, <1>6, <1>9 DEF FileFails, Open
<1>10. CASE Settle
  <2> DEFINE s == held[1]
             v == held[2]
  <2>1. /\ s \in Slots /\ v \in Verdicts /\ held # None
        /\ v.error # "ResourceBudgetTooSmall"
    BY <1>0, <1>10, NoneAssumption DEF Settle, HeldType, AnswersInv
  <2>2. pending[s] \in Contexts /\ pending[s] # None /\ Record(counts, Settled(pending[s], v))
    BY <1>0, <1>10, <2>1 DEF Settle, SlotsType
  <2>3. Fits(Settled(pending[s], v))
    BY <2>1, <2>2, SettledFits DEF JobsInv, JobOK
  <2>4. Settled(pending[s], v) \in FileRecords
    BY <2>1, <2>2, SettledType
  <2> QED BY <1>0, <2>2, <2>3, <2>4
<1>11. ASSUME HashDone, InFile, Sniffed, IsOpen, NEW v \in Verdicts,
              v.error = "ResourceBudgetTooSmall" => cur.overflow,
              Record(counts, Settled(Context, v))
       PROVE  Made
  <2>1. cur \in FilesInHand /\ cur.fmt \in Formats /\ Context \in Contexts
    BY <1>0, <1>11, ContextType DEF FileType
  <2>2. StillCurrent(cur.path, cur.rev) /\ cur.overflow => Len(cur.hashed) + Reserve > StagingBytes
    BY <1>11 DEF ReadingInv, FitInv
  <2>3. Fits(Settled(Context, v))
    BY <1>11, <2>1, <2>2, ContextBlank, SettledFits
  <2>4. Settled(Context, v) \in FileRecords
    BY <2>1, SettledType
  <2> QED BY <1>0, <1>11, <2>3, <2>4
<1>12. Bad("SourceChanged") \in Verdicts /\ Bad("SourceChanged").error # "ResourceBudgetTooSmall"
  BY VerdictType DEF Bad, Errors
<1>13. CASE Verify
  <2>1. HashDone /\ InFile /\ Sniffed /\ IsOpen
    BY <1>13 DEF Verify, HashDone, InFile, Sniffed, IsOpen, FilePcs
  <2> QED BY <1>11, <1>12, <1>13, <2>1 DEF Verify
<1>14. CASE Judge
  <2>1. /\ HashDone /\ InFile /\ Sniffed /\ IsOpen /\ cur.verdict \in Verdicts
        /\ cur.verdict.error = "ResourceBudgetTooSmall" => cur.overflow
    BY <1>0, <1>14 DEF Judge, HashDone, InFile, Sniffed, IsOpen, FilePcs, FileType, FitInv
  <2> QED BY <1>11, <1>14, <2>1 DEF Judge
<1>15. CASE Reuse
  <2>1. /\ HashDone /\ InFile /\ Sniffed /\ IsOpen /\ cur \in FilesInHand
    BY <1>0, <1>15 DEF Reuse, HashDone, InFile, Sniffed, IsOpen, FilePcs, FileType
  <2>2. ASSUME NEW h \in Hits, Record(counts, [h EXCEPT !.path = cur.path, !.reused = TRUE])
        PROVE  Made
    <3> DEFINE r == [h EXCEPT !.path = cur.path, !.reused = TRUE]
    <3>1. h \in FileRecords /\ h.error = None
      BY <1>0, <2>2 DEF Hits, CachedAs, AnswersInv
    <3>2. r.error = None /\ r \in FileRecords
      BY <2>1, <3>1 DEF FileRecords, FilesInHand, Opened
    <3>3. None # "ResourceBudgetTooSmall"
      BY NoneAssumption DEF Errors
    <3>4. Fits(r)
      BY <3>2, <3>3 DEF Fits
    <3> QED BY <1>0, <2>2, <3>2, <3>4
  <2> QED BY <1>11, <1>12, <1>15, <2>1, <2>2 DEF Reuse
<1> QED
  BY <1>1, <1>2, <1>3, <1>4, <1>5, <1>7, <1>8, <1>9, <1>10, <1>13, <1>14, <1>15
     DEF Next, Coordinator, Environment, Returned

\* No worker comes to refuse a file for its size, and what is kept for reuse has
\* no error.
LEMMA AnswersStep ==
    ASSUME TypeOK, AnswersInv, [Next]_vars,
           \/ UNCHANGED <<cache, records>>
           \/ \E c \in Tallies, r \in FileRecords : Record(c, r) /\ Fits(r)
    PROVE  AnswersInv'
<1> DEFINE Jobbed == \A s \in Slots : pool[s] # None /\ pool[s].answer # None =>
                        pool[s].answer.error # "ResourceBudgetTooSmall"
           Polled == held # None => held[2].error # "ResourceBudgetTooSmall"
<1>0. SlotsType /\ Jobbed /\ Polled
  BY DEF TypeOK, AnswersInv
<1>1. \A h \in cache' : h.error = None
  <2>1. CASE UNCHANGED <<cache, records>>
    BY <2>1 DEF AnswersInv
  <2>2. ASSUME NEW c \in Tallies, NEW r \in FileRecords, Record(c, r), Fits(r)
        PROVE  \A h \in cache' : h.error = None
    BY <2>2 DEF Record, Fits, AnswersInv
  <2> QED BY <2>1, <2>2
<1> SUFFICES Jobbed' /\ Polled'
  BY <1>1 DEF AnswersInv
<1>2. CASE UNCHANGED native
  BY <1>0, <1>2 DEF native
<1>3. CASE Poll
  <2>1. PICK s \in Ready : held' = <<s, pool[s].answer>> /\ pool' = [pool EXCEPT ![s] = None]
    BY <1>3 DEF Poll
  <2>2. s \in Slots /\ pool[s] # None /\ pool[s].answer # None
    BY DEF Ready
  <2> QED BY <1>0, <2>1, <2>2 DEF SlotsType
<1>4. CASE Drain \/ WaitOne
  BY <1>0, <1>3, <1>4 DEF Drain, WaitOne
<1>5. CASE Settle \/ Interrupt
  BY <1>0, <1>5 DEF Settle, Interrupt
<1>6. CASE Submit
  <2>1. PICK s \in Slots \ Active :
           pool' = [pool EXCEPT ![s] = [copy |-> cur.copy, fmt |-> cur.fmt, answer |-> None]]
    BY <1>6 DEF Submit
  <2> QED BY <1>0, <1>6, <2>1 DEF Submit, SlotsType
<1>7. CASE Assemble
  BY <1>0, <1>7 DEF Assemble
<1>8. ASSUME NEW t \in Slots, WorkerAnswers(t) PROVE Jobbed' /\ Polled'
  <2>1. PICK v : /\ v \in {Bad("WorkerFailed"), Bad("UnsupportedFormat")} \cup
                          {Good(Candidates(pool[t].fmt)[i], pool[t].copy) :
                             i \in DOMAIN Candidates(pool[t].fmt)}
                 /\ pool' = [pool EXCEPT ![t].answer = v]
    BY <1>8 DEF WorkerAnswers
  <2>2. v.error # "ResourceBudgetTooSmall"
    BY <2>1, NoneAssumption DEF Bad, Good, Errors
  <2>3. pool[t] \in Jobs /\ held' = held
    BY <1>0, <1>8 DEF WorkerAnswers, SlotsType
  <2> QED BY <1>0, <2>1, <2>2, <2>3 DEF SlotsType, Jobs
<1> QED BY <1>2, <1>4, <1>5, <1>6, <1>7, <1>8, JobSteps

\* A file is refused for its size only if its private copy and reserve exceed
\* the staging allowance by themselves: however busy the slots are and however
\* the file grows or shrinks meanwhile.
THEOREM RefusalsHold == Spec => []RefusalsAreReal
<1> DEFINE Inv == ContentInv /\ FitInv /\ AnswersInv /\ RefusalsAreReal
<1>1. Init => Inv
  BY ContentInit, FitInit DEF RefusalsAreReal, Init
<1>2. Inv /\ [Next]_vars => Inv'
  <2> SUFFICES ASSUME Inv, [Next]_vars PROVE Inv'
    OBVIOUS
  <2> USE DEF ContentInv
  <2>1. ContentInv' /\ FitInv'
    BY ContentStep, FitStep
  <2>2. AnswersInv'
    BY RefusalsStep, AnswersStep
  <2>3. RefusalsAreReal'
    <3>1. CASE UNCHANGED <<cache, records>>
      BY <3>1 DEF RefusalsAreReal
    <3>2. ASSUME NEW c \in Tallies, NEW r \in FileRecords, Record(c, r), Fits(r)
          PROVE  RefusalsAreReal'
      <4>1. records \in Seq(FileRecords) /\ records' = Append(records, r)
        BY <3>2 DEF TypeOK, ReportType, Record
      <4>2. /\ DOMAIN records = 1..Len(records) /\ DOMAIN records' = 1..(Len(records) + 1)
            /\ Len(records) \in Nat /\ records'[Len(records) + 1] = r
            /\ \A i \in 1..Len(records) : records'[i] = records[i]
        BY <4>1
      <4> QED BY <3>2, <4>2 DEF RefusalsAreReal, Fits
    <3> QED BY <3>1, <3>2, RefusalsStep
  <2> QED BY <2>1, <2>2, <2>3
<1> QED BY <1>1, <1>2, PTL DEF Spec

-----------------------------------------------------------------------------
(* Encoded once. *)

\* At the start what may be reused is what was given, and nothing is encoded.
LEMMA OnceInit == Init => KeptInv /\ TwinsInv /\ FreshInv /\ EncodedOnce
<1> SUFFICES ASSUME Init PROVE KeptInv /\ TwinsInv /\ FreshInv /\ EncodedOnce
  OBVIOUS
<1> DEFINE given(k) == [path |-> 1, id |-> k[1], state |-> "ready", family |-> k[2],
                        profile |-> k[2], vector |-> [of |-> k[1], made |-> 0],
                        reused |-> FALSE, error |-> None]
<1>1. cache = {given(k) : k \in Previous} /\ records = <<>>
  BY DEF Init
<1>2. \A k \in Previous : k = <<k[1], k[2]>> /\ k[1] \in Seq(Chunks) /\ k[2] \in Profiles
  BY DataAssumption
<1>a. ASSUME NEW k \in Previous
      PROVE  given(k) \in cache /\ Key(given(k)) = k /\ given(k).state = "ready" /\ RecordOK(given(k))
  <2>1. k[1] # None /\ k[2] # None /\ [of |-> k[1], made |-> 0] # None
    BY <1>2, NoneAssumption DEF Vectors, Paths
  <2> QED BY <1>1, <1>2, <2>1 DEF Key, RecordOK, ReadyRecordOK
<1>b. KeptInv
  <2>1. \A k \in Previous : Kept(k[1], k[2])
    BY <1>2, <1>a DEF Kept, KeptIn
  <2>2. \A h \in cache : h.state = "ready" /\ RecordOK(h)
    BY <1>1, <1>a
  <2>3. ASSUME NEW g \in cache, NEW h \in cache, Key(g) = Key(h) PROVE g = h
    <3>1. PICK k \in Previous, l \in Previous : g = given(k) /\ h = given(l)
      BY <1>1
    <3>2. Key(given(k)) = k /\ Key(given(l)) = l
      BY <1>a
    <3> HIDE DEF given
    <3> QED BY <2>3, <3>1, <3>2
  <2> QED BY <1>1, <2>1, <2>2, <2>3 DEF KeptInv
<1>c. EncodedOnce
  BY <1>1 DEF EncodedOnce
<1>3. TwinsInv /\ FreshInv
  BY DEF Init, TwinsInv, FreshInv, Deduped, Fresh
<1> QED BY <1>b, <1>c, <1>3

\* A context that is there after a step was there before, or is being submitted.
LEMMA PendingSteps ==
    ASSUME TypeOK, [Next]_vars, NEW s \in Slots, pending'[s] # None
    PROVE  pending'[s] = pending[s] \/ (Submit /\ pending'[s] = Context)
<1>0. SlotsType
  BY DEF TypeOK
<1>1. CASE UNCHANGED native \/ Drain \/ WaitOne \/ Interrupt \/ \E t \in Slots : WorkerAnswers(t)
  BY <1>1 DEF native, Drain, WaitOne, Interrupt, WorkerAnswers
<1>2. CASE Settle
  BY <1>0, <1>2 DEF Settle, SlotsType
<1>3. CASE Submit
  BY <1>0, <1>3 DEF Submit, SlotsType
<1>4. CASE Assemble
  BY <1>4 DEF Assemble
<1> QED BY <1>1, <1>2, <1>3, <1>4, JobSteps

\* From the search for a twin to the submission no context comes or goes and
\* nothing is recorded.
LEMMA DedupedSteps ==
    ASSUME TypeOK, [Next]_vars, Deduped'
    PROVE  /\ UNCHANGED <<pending, cache>> /\ cur'.hashed = cur.hashed /\ cur'.fmt = cur.fmt
           /\ Deduped \/ (pc = "dedup" /\ ~Twin)
           /\ Fresh' => Fresh \/ (pc = "lookup" /\ Hits = {})
<1> DEFINE Goal == /\ UNCHANGED <<pending, cache>> /\ cur'.hashed = cur.hashed /\ cur'.fmt = cur.fmt
                   /\ Deduped \/ (pc = "dedup" /\ ~Twin)
                   /\ Fresh' => Fresh \/ (pc = "lookup" /\ Hits = {})
<1> USE DEF Deduped, Fresh, native, report
<1>0. FileType /\ PlaceType
  BY DEF TypeOK
<1>1. ~(Interrupt \/ ListingFails \/ DiscoveryEnds \/ TakeFile \/ Drain \/ WaitOne \/ Finish)
  BY DEF Interrupt, ListingFails, DiscoveryEnds, TakeFile, Drain, WaitOne, Finish
<1>2. ~Settle
  BY <1>0 DEF Settle, PlaceType
<1>3. ~(\E p \in Paths : ListEntry(p)) /\ ~(\E p \in Paths : ListDirectory(p))
  BY DEF ListEntry, ListDirectory
<1>4. ~(FilesEnd \/ AwaitWorkers \/ FileFails \/ Open \/ Sniff \/ Admit \/ Stage \/ Hash \/ Verify)
  BY DEF FilesEnd, AwaitWorkers, FileFails, Open, Sniff, Admit, Stage, Hash, Verify, NextFile
<1>5. ~(Reuse \/ Judge \/ Submit \/ Assemble \/ Cleanup)
  BY DEF Reuse, Judge, Submit, Assemble, Cleanup, NextFile
<1>6. CASE Dedup
  BY <1>6 DEF Dedup
<1>7. CASE Lookup
  <2>1. cur \in FilesInHand /\ pc = "lookup"
    BY <1>0, <1>7 DEF Lookup, FileType, InFile, FilePcs
  <2>2. CASE cur' = cur
    BY <1>7, <2>2 DEF Lookup
  <2>3. ASSUME NEW e, cur' = [cur EXCEPT !.verdict = Bad(e)], pc' = "judge", e # None PROVE Goal
    <3>1. cur'.hashed = cur.hashed /\ cur'.fmt = cur.fmt /\ cur'.verdict.error = e
      BY <2>1, <2>3 DEF FilesInHand, Opened, Bad
    <3> QED BY <1>7, <2>1, <2>3, <3>1 DEF Lookup
  <2> QED BY <1>7, <2>2, <2>3, NoneAssumption DEF Lookup, Errors
<1>8. CASE EncodeText
  <2>1. cur \in FilesInHand /\ pc = "text" /\ UNCHANGED <<pending, cache>>
    BY <1>0, <1>8 DEF EncodeText, FileType, InFile, FilePcs
  <2>2. \/ \E x : cur' = [cur EXCEPT !.reread = x]
        \/ \E v : cur' = [cur EXCEPT !.verdict = v]
    BY <1>8 DEF EncodeText
  <2>3. cur'.hashed = cur.hashed /\ cur'.fmt = cur.fmt
    BY <2>1, <2>2 DEF FilesInHand, Opened
  <2> QED BY <2>1, <2>3
<1>9. CASE Cancel \/ UNCHANGED vars \/ \E s \in Slots : WorkerAnswers(s)
  BY <1>9 DEF Cancel, vars, WorkerAnswers
<1>10. CASE \E p \in Paths : (\E c \in Contents : Overwrite(p, c)) \/ (\E e \in Substitutes : Rename(p, e))
  <2>1. /\ UNCHANGED <<pc, pending, cache>>
        /\ \/ cur' = cur \/ \E c : cur' = [cur EXCEPT !.data = c] \/ cur' = [cur EXCEPT !.linked = FALSE]
    BY <1>10 DEF Overwrite, Rename, Edit
  <2>2. cur \in FilesInHand
    BY <1>0, <2>1 DEF FileType, InFile, FilePcs
  <2>3. cur'.hashed = cur.hashed /\ cur'.fmt = cur.fmt /\ cur'.verdict = cur.verdict
    BY <2>1, <2>2 DEF FilesInHand, Opened
  <2> QED BY <2>1, <2>3
<1> QED
  BY <1>1, <1>2, <1>3, <1>4, <1>5, <1>6, <1>7, <1>8, <1>9, <1>10
     DEF Next, Coordinator, Environment, Returned

\* A record is consistent; a ready one either is what is kept, or is of content
\* that is not, and that no job is left with.
Novel(r) ==
    /\ RecordOK(r)
    /\ r.state = "ready" =>
          IF r.reused THEN \E h \in cache : Key(h) = Key(r) /\ h.vector = r.vector
          ELSE /\ ~Kept(r.id, r.profile)
               /\ \A t \in Slots : pending'[t] # None => pending'[t].record.id # r.id

\* finish_record never makes a record that reuses, and a ready one only of a
\* good verdict and a source that is current.
LEMMA SettledReady ==
    ASSUME NEW ctx \in Contexts, NEW v \in Verdicts,
           ctx.record = [Blank(ctx.path) EXCEPT !.id = ctx.record.id, !.family = ctx.record.family],
           Settled(ctx, v).state = "ready"
    PROVE  /\ StillCurrent(ctx.path, ctx.rev) /\ v.error = None
           /\ Settled(ctx, v).id = ctx.record.id /\ Settled(ctx, v).profile = v.family
           /\ ~Settled(ctx, v).reused
<1>0. ctx.record \in FileRecords /\ ctx.record.state = "failed" /\ ~ctx.record.reused
  BY DEF Blank, Contexts
<1>1. StillCurrent(ctx.path, ctx.rev)
  BY <1>0 DEF Settled, FileRecords
<1>2. v.error = None
  BY <1>0, <1>1 DEF Settled, FileRecords
<1> QED BY <1>0, <1>1, <1>2 DEF Settled, FileRecords

\* Whatever it makes is consistent.
LEMMA SettledOK ==
    ASSUME NEW ctx \in Contexts, NEW v \in Verdicts, ctx.record.id # None,
           ctx.record = [Blank(ctx.path) EXCEPT !.id = ctx.record.id, !.family = ctx.record.family]
    PROVE  RecordOK(Settled(ctx, v))
<1> DEFINE r == Settled(ctx, v)
<1>0. /\ ctx.record \in FileRecords /\ ctx.record.state = "failed" /\ ~ctx.record.reused
      /\ ctx.record.vector = None /\ ctx.record.error = None
  BY DEF Blank, Contexts
<1>1. CASE ~StillCurrent(ctx.path, ctx.rev)
  <2>1. r.error = "SourceChanged" /\ r.state = "failed" /\ r.vector = None /\ ~r.reused
    BY <1>0, <1>1 DEF Settled, FileRecords
  <2> QED BY <2>1, NoneAssumption DEF RecordOK, UnavailableRecordOK, Errors
<1>2. CASE StillCurrent(ctx.path, ctx.rev) /\ v.error = None
  <2>1. /\ r.state = "ready" /\ r.error = None /\ r.id = ctx.record.id /\ r.family = v.family
        /\ r.profile = v.family /\ r.vector = [of |-> v.source, made |-> ctx.path]
    BY <1>0, <1>2 DEF Settled, FileRecords
  <2>2. v.family # None /\ [of |-> v.source, made |-> ctx.path] \in Vectors
    BY <1>2 DEF Verdicts, Vectors, Contexts
  <2> QED BY <2>1, <2>2, NoneAssumption DEF RecordOK, ReadyRecordOK
<1>3. CASE StillCurrent(ctx.path, ctx.rev) /\ v.error # None
  <2>1. r.error = v.error /\ r.state # "ready" /\ r.vector = None /\ ~r.reused
    BY <1>0, <1>3 DEF Settled, FileRecords
  <2> QED BY <1>3, <2>1 DEF RecordOK, UnavailableRecordOK
<1> QED BY <1>1, <1>2, <1>3

\* Every record made is novel or reused.
LEMMA NovelStep ==
    ASSUME TypeOK, SlotsInv, ReadingInv, JobsInv, KeptInv, TwinsInv, FreshInv, [Next]_vars
    PROVE  \/ UNCHANGED <<cache, records>>
           \/ \E c \in {counts, Found}, r \in FileRecords : Record(c, r) /\ Novel(r)
<1> DEFINE Made == \E c \in {counts, Found}, r \in FileRecords : Record(c, r) /\ Novel(r)
<1> USE DEF report
<1>0. /\ FileType /\ SlotsType /\ HeldType /\ counts \in Tallies /\ Found \in Tallies
      /\ cache \subseteq FileRecords
  BY FoundType DEF TypeOK, ReportType
<1>1. CASE Interrupt \/ ListingFails \/ DiscoveryEnds \/ TakeFile \/ Drain \/ WaitOne \/ Finish
  BY <1>1 DEF Interrupt, ListingFails, DiscoveryEnds, TakeFile, Drain, WaitOne, Finish
<1>2. CASE FilesEnd \/ AwaitWorkers \/ Sniff \/ Admit \/ Stage \/ Hash
  BY <1>2 DEF FilesEnd, AwaitWorkers, Sniff, Admit, Stage, Hash
<1>3. CASE Dedup \/ Lookup \/ EncodeText \/ Submit \/ Assemble \/ Cleanup
  BY <1>3 DEF Dedup, Lookup, EncodeText, Submit, Assemble, Cleanup
<1>4. CASE Cancel \/ UNCHANGED vars \/ \E s \in Slots : WorkerAnswers(s)
  BY <1>4 DEF Cancel, vars, WorkerAnswers
<1>5. CASE \E p \in Paths : (\E c \in Contents : Overwrite(p, c)) \/ (\E e \in Substitutes : Rename(p, e))
  BY <1>5 DEF Overwrite, Rename, Edit
<1>6. ASSUME NEW p \in Paths, NEW st \in {"failed", "skipped"},
             NEW e \in {"IoError", "UnsupportedFormat", "SourceChanged"}, NEW c \in {counts, Found},
             Record(c, Refused(p, st, e))
      PROVE  Made
  <2>1. Refused(p, st, e) \in FileRecords
    BY RefusedType DEF States, Errors
  <2>2. Refused(p, st, e).state # "ready" /\ RecordOK(Refused(p, st, e))
    BY NoneAssumption DEF Refused, Blank, RecordOK, UnavailableRecordOK, Errors
  <2> QED BY <1>6, <2>1, <2>2 DEF Novel
<1>7. ASSUME NEW p \in Paths, ListEntry(p) PROVE UNCHANGED <<cache, records>> \/ Made
  BY <1>0, <1>6, <1>7 DEF ListEntry
<1>8. ASSUME NEW p \in Paths, ListDirectory(p) PROVE UNCHANGED <<cache, records>> \/ Made
  BY <1>0, <1>6, <1>8 DEF ListDirectory
<1>9. CASE FileFails \/ Open
  <2>1. cur.path \in Paths
    BY <1>0, <1>9 DEF FileFails, Open, FileType, InFile, FilePcs, FilesInHand, Opened
  <2> QED BY <2>1, <1>0, <1>6, <1>9 DEF FileFails, Open
<1>10. CASE Settle
  <2> DEFINE s == held[1]
             v == held[2]
             c == pending[s]
             r == Settled(c, v)
  <2>1. s \in Slots /\ v \in Verdicts /\ held # None
    BY <1>0, <1>10, NoneAssumption DEF Settle, HeldType
  <2>2. /\ c \in Contexts /\ c # None /\ Record(counts, r)
        /\ pending' = [pending EXCEPT ![s] = None]
    BY <1>0, <1>10, <2>1 DEF Settle, SlotsType
  <2>3. /\ c.record = [Blank(c.path) EXCEPT !.id = c.record.id, !.family = c.record.family]
        /\ StillCurrent(c.path, c.rev) => Sound(v, c.path, c.record.id)
    BY <2>1, <2>2 DEF JobsInv, JobOK
  <2>a. RecordOK(r)
    BY <2>1, <2>2, <2>3, SettledOK DEF JobsInv, JobOK
  <2>4. ASSUME r.state = "ready" PROVE Novel(r)
    <3>1. /\ StillCurrent(c.path, c.rev) /\ v.error = None
          /\ r.id = c.record.id /\ r.profile = v.family /\ ~r.reused
      BY <2>1, <2>2, <2>3, <2>4, SettledReady
    <3>2. ~Kept(r.id, r.profile)
      BY <2>1, <2>2, <2>3, <3>1 DEF Sound, FreshInv
    <3>3. ASSUME NEW t \in Slots, pending'[t] # None PROVE pending'[t].record.id # r.id
      BY <1>0, <2>1, <2>2, <3>1, <3>3 DEF TwinsInv, SlotsType
    <3> QED BY <2>a, <3>1, <3>2, <3>3 DEF Novel
  <2>5. r \in FileRecords
    BY <2>1, <2>2, SettledType
  <2> HIDE DEF r
  <2>6. Novel(r)
    BY <2>a, <2>4 DEF Novel
  <2> QED BY <1>0, <2>2, <2>5, <2>6
<1>11. ASSUME HashDone, InFile, Sniffed, IsOpen, NEW v \in Verdicts, UNCHANGED pending,
              v.error = None => pc = "judge" /\ v = cur.verdict,
              Record(counts, Settled(Context, v))
       PROVE  Made
  <2> DEFINE r == Settled(Context, v)
  <2>1. cur \in FilesInHand /\ cur.fmt \in Formats /\ Context \in Contexts
    BY <1>0, <1>11, ContextType DEF FileType
  <2>a. RecordOK(r)
    <3>1. cur.hashed # None
      BY <2>1, NoneAssumption DEF FilesInHand, Opened
    <3> QED BY <2>1, <3>1, ContextBlank, SettledOK
  <2>2. ASSUME r.state = "ready" PROVE Novel(r)
    <3>1. /\ StillCurrent(cur.path, cur.rev) /\ v.error = None
          /\ r.id = cur.hashed /\ r.profile = v.family /\ ~r.reused
      BY <2>1, <2>2, ContextBlank, SettledReady
    <3>2. Fresh /\ Deduped
      BY <1>11, <3>1 DEF Fresh, Deduped
    <3>3. v.family \in Families(cur.fmt)
      BY <1>11, <3>1 DEF ReadingInv, Sound
    <3> QED BY <1>11, <2>a, <3>1, <3>2, <3>3 DEF Novel, FreshInv, TwinsInv
  <2>3. r \in FileRecords
    BY <2>1, SettledType
  <2> HIDE DEF r
  <2>4. Novel(r)
    BY <2>a, <2>2 DEF Novel
  <2> QED BY <1>0, <1>11, <2>3, <2>4 DEF r
<1>12. Bad("SourceChanged") \in Verdicts /\ Bad("SourceChanged").error # None
  BY VerdictType, NoneAssumption DEF Bad, Errors
<1>13. CASE Verify
  <2>1. HashDone /\ InFile /\ Sniffed /\ IsOpen /\ UNCHANGED pending
    BY <1>13 DEF Verify, HashDone, InFile, Sniffed, IsOpen, FilePcs, native
  <2> QED BY <1>11, <1>12, <1>13, <2>1 DEF Verify
<1>14. CASE Judge
  <2>1. HashDone /\ InFile /\ Sniffed /\ IsOpen /\ cur.verdict \in Verdicts /\ UNCHANGED pending
    BY <1>0, <1>14 DEF Judge, HashDone, InFile, Sniffed, IsOpen, FilePcs, FileType, native
  <2> QED BY <1>11, <1>14, <2>1 DEF Judge
<1>15. CASE Reuse
  <2>1. /\ HashDone /\ InFile /\ Sniffed /\ IsOpen /\ cur \in FilesInHand /\ UNCHANGED pending
    BY <1>0, <1>15 DEF Reuse, HashDone, InFile, Sniffed, IsOpen, FilePcs, FileType, native
  <2>2. ASSUME NEW h \in Hits, Record(counts, [h EXCEPT !.path = cur.path, !.reused = TRUE])
        PROVE  Made
    <3> DEFINE r == [h EXCEPT !.path = cur.path, !.reused = TRUE]
    <3>1. h \in cache /\ h \in FileRecords
      BY <1>0, <2>2 DEF Hits, CachedAs
    <3>2. /\ r \in FileRecords /\ r.id = h.id /\ r.profile = h.profile /\ r.reused
          /\ r.vector = h.vector /\ r.family = h.family /\ r.error = h.error /\ r.state = h.state
      BY <2>1, <3>1 DEF FileRecords, FilesInHand, Opened
    <3>3. Key(h) = Key(r) /\ h.state = "ready" /\ RecordOK(h)
      BY <3>1, <3>2 DEF Key, KeptInv
    <3>4. Novel(r)
      <4>1. RecordOK(r)
        BY <3>2, <3>3 DEF RecordOK, ReadyRecordOK
      <4> QED BY <3>1, <3>2, <3>3, <4>1 DEF Novel
    <3> QED BY <1>0, <2>2, <3>2, <3>4
  <2> QED BY <1>11, <1>12, <1>15, <2>1, <2>2 DEF Reuse
<1> QED
  BY <1>1, <1>2, <1>3, <1>4, <1>5, <1>7, <1>8, <1>9, <1>10, <1>13, <1>14, <1>15
     DEF Next, Coordinator, Environment, Returned

\* Recording keeps what may be reused, and adds a ready record's key.
LEMMA KeptRecord ==
    ASSUME NEW c, NEW r, Record(c, r), NEW id, NEW f
    PROVE  KeptIn(cache', id, f) <=> Kept(id, f) \/ (r.state = "ready" /\ <<id, f>> = Key(r))
<1>1. CASE r.state # "ready"
  BY <1>1 DEF Record, Kept, KeptIn
<1>2. CASE r.state = "ready"
  <2>1. cache' = {h \in cache : Key(h) # Key(r)} \cup {r}
    BY <1>2 DEF Record
  <2>2. KeptIn(cache', id, f) <=> \E h \in cache' : Key(h) = <<id, f>>
    BY DEF KeptIn
  <2>3. CASE <<id, f>> = Key(r)
    BY <1>2, <2>1, <2>2, <2>3
  <2>4. CASE <<id, f>> # Key(r)
    BY <1>2, <2>1, <2>2, <2>4 DEF Kept, KeptIn
  <2> QED BY <2>3, <2>4
<1> QED BY <1>1, <1>2

\* What was ready or given stays reusable, and no key is encoded again.
LEMMA OnceRecord ==
    ASSUME TypeOK, KeptInv, EncodedOnce,
           NEW c \in Tallies, NEW r \in FileRecords, Record(c, r), Novel(r)
    PROVE  KeptInv' /\ EncodedOnce'
<1>1. records \in Seq(FileRecords) /\ records' = Append(records, r)
  BY DEF TypeOK, ReportType, Record
<1>2. /\ DOMAIN records = 1..Len(records) /\ DOMAIN records' = 1..(Len(records) + 1)
      /\ Len(records) \in Nat /\ records'[Len(records) + 1] = r
      /\ \A i \in 1..Len(records) : records'[i] = records[i]
  BY <1>1
<1>3. \A id, f : KeptIn(cache', id, f) <=> Kept(id, f) \/ (r.state = "ready" /\ <<id, f>> = Key(r))
  BY KeptRecord
<1>a. \A h \in cache' : h = r \/ (h \in cache /\ (r.state = "ready" => Key(h) # Key(r)))
  BY DEF Record
<1>b. /\ r.state = "ready" => r \in cache'
      /\ \A h \in cache : (r.state = "ready" /\ Key(h) = Key(r)) \/ h \in cache'
  BY DEF Record
<1>c. \A i \in 1..Len(records) :
         /\ RecordOK(records[i])
         /\ records[i].state = "ready" =>
               \E h \in cache : Key(h) = Key(records[i]) /\ h.vector = records[i].vector
  BY <1>2 DEF KeptInv
<1>4. KeptInv'
  <2>1. \A k \in Previous : Kept(k[1], k[2])'
    <3>1. \A k \in Previous : KeptIn(cache', k[1], k[2])
      BY <1>3 DEF KeptInv
    <3> QED BY <3>1 DEF Kept
  <2>2. ASSUME NEW i \in DOMAIN records', records'[i].state = "ready"
        PROVE  \E h \in cache' : Key(h) = Key(records'[i]) /\ h.vector = records'[i].vector
    <3>1. CASE i = Len(records) + 1
      BY <1>2, <1>b, <2>2, <3>1
    <3>2. CASE i \in 1..Len(records)
      <4>1. PICK h \in cache : Key(h) = Key(records[i]) /\ h.vector = records[i].vector
        BY <1>2, <1>c, <2>2, <3>2
      <4>2. CASE h \in cache'
        BY <1>2, <3>2, <4>1, <4>2
      <4>3. CASE r.state = "ready" /\ Key(h) = Key(r)
        <5>1. Kept(r.id, r.profile)
          BY <4>3 DEF Kept, KeptIn, Key
        <5>2. PICK g \in cache : Key(g) = Key(r) /\ g.vector = r.vector
          BY <4>3, <5>1 DEF Novel
        <5>3. g = h
          BY <4>3, <5>2 DEF KeptInv
        <5> QED BY <1>2, <1>b, <3>2, <4>1, <4>3, <5>2, <5>3
      <4> QED BY <1>b, <4>2, <4>3
    <3> QED BY <1>2, <3>1, <3>2
  <2>3. \A h \in cache' : h.state = "ready" /\ RecordOK(h)
    BY DEF Record, Novel, KeptInv
  <2>4. \A g, h \in cache' : Key(g) = Key(h) => g = h
    BY DEF Record, KeptInv
  <2>5. \A i \in DOMAIN records' : RecordOK(records'[i])
    BY <1>2, <1>c DEF Novel
  <2> QED BY <2>1, <2>2, <2>3, <2>4, <2>5 DEF KeptInv
<1>5. r.state = "ready" /\ ~r.reused =>
         /\ Key(r) \notin Previous
         /\ \A i \in 1..Len(records) : records[i].state = "ready" => Key(records[i]) # Key(r)
  <2> SUFFICES ASSUME r.state = "ready", ~r.reused
               PROVE  /\ Key(r) \notin Previous
                      /\ \A i \in 1..Len(records) :
                            records[i].state = "ready" => Key(records[i]) # Key(r)
    OBVIOUS
  <2>1. ~Kept(r.id, r.profile)
    BY DEF Novel
  <2>2. Key(r) \notin Previous
    BY <2>1 DEF KeptInv, Key
  <2>3. ASSUME NEW i \in 1..Len(records), records[i].state = "ready" PROVE Key(records[i]) # Key(r)
    BY <1>c, <2>1, <2>3 DEF Kept, KeptIn, Key
  <2> QED BY <2>2, <2>3
<1>6. EncodedOnce'
  <2> SUFFICES ASSUME NEW i \in DOMAIN records', NEW j \in DOMAIN records',
                      records'[i].state = "ready", ~records'[i].reused
               PROVE  /\ Key(records'[i]) \notin Previous
                      /\ i # j /\ records'[j].state = "ready" /\ ~records'[j].reused =>
                            Key(records'[i]) # Key(records'[j])
    BY DEF EncodedOnce, Key
  <2>1. CASE i = Len(records) + 1
    BY <1>2, <1>5, <2>1
  <2>2. CASE i \in 1..Len(records) /\ j = Len(records) + 1
    <3>1. Key(records[i]) \notin Previous
      BY <1>2, <2>2 DEF EncodedOnce
    <3> QED BY <1>2, <1>5, <2>2, <3>1
  <2>3. CASE i \in 1..Len(records) /\ j \in 1..Len(records)
    BY <1>2, <2>3 DEF EncodedOnce
  <2> QED BY <1>2, <2>1, <2>2, <2>3
<1> QED BY <1>4, <1>6

\* Jobs never share content.
LEMMA TwinsStep ==
    ASSUME TypeOK, TwinsInv, [Next]_vars
    PROVE  TwinsInv'
<1>1. ASSUME Submit PROVE Context.record.id = cur.hashed /\ Deduped
  <2>1. cur \in FilesInHand /\ cur.fmt \in Formats
    BY <1>1 DEF Submit, TypeOK, FileType, InFile, Sniffed, FilePcs
  <2> QED BY <1>1, <2>1, ContextBlank DEF Submit, Deduped
<1>2. ASSUME NEW s \in Slots, NEW t \in Slots, s # t, pending'[s] # None, pending'[t] # None
      PROVE  pending'[s].record.id # pending'[t].record.id
  <2>1. CASE pending'[s] = pending[s] /\ pending'[t] = pending[t]
    BY <1>2, <2>1 DEF TwinsInv
  <2>2. ASSUME Submit PROVE pending'[s].record.id # pending'[t].record.id
    <3>1. PICK u \in Slots : pending' = [pending EXCEPT ![u] = Context]
      BY <2>2 DEF Submit
    <3>2. SlotsType
      BY DEF TypeOK
    <3> QED BY <1>1, <1>2, <2>2, <3>1, <3>2 DEF TwinsInv, SlotsType
  <2> QED BY <1>2, <2>1, <2>2, PendingSteps
<1>3. ASSUME Deduped', NEW s \in Slots, pending'[s] # None
      PROVE  pending'[s].record.id # cur'.hashed
  BY <1>3, DedupedSteps DEF TwinsInv, Twin
<1> QED BY <1>2, <1>3 DEF TwinsInv

\* Nothing that is being encoded comes to be kept by another record.
LEMMA FreshStep ==
    ASSUME TypeOK, RevisionsInv, ReadingInv, TwinsInv, FreshInv, [Next]_vars,
           \/ UNCHANGED <<cache, records>>
           \/ \E c \in Tallies, r \in FileRecords : Record(c, r) /\ Novel(r)
    PROVE  FreshInv'
<1>1. ASSUME Fresh', NEW f \in Families(cur'.fmt) PROVE ~KeptIn(cache', cur'.hashed, f)
  <2>1. Deduped'
    BY <1>1 DEF Fresh, Deduped
  <2>2. /\ cache' = cache /\ cur'.hashed = cur.hashed /\ cur'.fmt = cur.fmt
        /\ Fresh \/ (pc = "lookup" /\ Hits = {})
    BY <1>1, <2>1, DedupedSteps
  <2>3. Hits = {} => ~Kept(cur.hashed, f)
    <3>1. f \in {Candidates(cur.fmt)[k] : k \in DOMAIN Candidates(cur.fmt)}
      BY <1>1, <2>2 DEF Families
    <3>2. f = Candidates(cur.fmt)[1]
             \/ (Len(Candidates(cur.fmt)) = 2 /\ f = Candidates(cur.fmt)[2])
      BY <3>1 DEF Candidates
    <3>3. Hits = {} => CachedAs(f) = {}
      BY <3>2 DEF Hits
    <3> QED BY <3>3 DEF CachedAs, Kept, KeptIn
  <2>4. ~Kept(cur.hashed, f)
    BY <1>1, <2>2, <2>3 DEF FreshInv
  <2> QED BY <2>2, <2>4 DEF Kept, KeptIn
<1>2. ASSUME NEW s \in Slots, pending'[s] # None,
             disk'[pending'[s].path].kind = "file",
             disk'[pending'[s].path].rev = pending'[s].rev,
             NEW f \in Families(DetectFormat(pending'[s].path, pending'[s].record.id))
      PROVE  ~KeptIn(cache', pending'[s].record.id, f)
  <2> DEFINE id == pending'[s].record.id
  <2>1. CASE Submit /\ pending'[s] = Context
    <3>1. /\ cur \in FilesInHand /\ cur.fmt \in Formats /\ UNCHANGED <<cache, disk>>
          /\ InFile /\ IsOpen /\ HashDone /\ Sniffed /\ Fresh
      BY <2>1 DEF Submit, TypeOK, FileType, InFile, IsOpen, HashDone, Sniffed, FilePcs, Fresh,
                  report, world
    <3>2. Context.path = cur.path /\ Context.rev = cur.rev /\ Context.record.id = cur.hashed
      BY <3>1, ContextBlank
    <3>3. StillCurrent(cur.path, cur.rev)
      BY <1>2, <2>1, <3>1, <3>2 DEF StillCurrent
    <3>4. cur.fmt = DetectFormat(cur.path, cur.hashed)
      BY <3>1, <3>3 DEF ReadingInv
    <3>5. ~Kept(cur.hashed, f)
      BY <1>2, <2>1, <3>1, <3>2, <3>4 DEF FreshInv
    <3> QED BY <2>1, <3>1, <3>2, <3>5 DEF Kept, KeptIn
  <2>2. CASE pending'[s] = pending[s]
    <3>1. /\ pending[s].path \in Paths /\ pending[s].rev \in Int /\ pending[s].rev <= edits
      BY <1>2, <2>2 DEF TypeOK, SlotsType, Contexts, RevisionsInv
    <3>2. StillCurrent(pending[s].path, pending[s].rev)
      <4>1. CASE UNCHANGED <<disk, edits>>
        BY <1>2, <2>2, <4>1 DEF StillCurrent
      <4>2. ASSUME NEW p \in Paths,
                   (\E c \in Contents : Overwrite(p, c)) \/ (\E e \in Substitutes : Rename(p, e))
            PROVE  StillCurrent(pending[s].path, pending[s].rev)
        <5>1. /\ disk'[pending[s].path].kind = "file"
              /\ disk'[pending[s].path].rev = pending[s].rev
          BY <1>2, <2>2 DEF StillCurrent
        <5> QED BY <3>1, <4>2, <5>1, EditOutdates
      <4> QED BY <4>1, <4>2, DiskSteps
    <3>3. ~Kept(id, f)
      BY <1>2, <2>2, <3>2 DEF FreshInv
    <3>4. CASE UNCHANGED <<cache, records>>
      BY <3>3, <3>4 DEF Kept, KeptIn
    <3>5. ASSUME NEW c \in Tallies, NEW r \in FileRecords, Record(c, r), Novel(r)
          PROVE  ~KeptIn(cache', pending'[s].record.id, f)
      <4>1. r.state = "ready" => <<id, f>> # Key(r)
        BY <1>2, <3>3, <3>5 DEF Novel, Key, Kept, KeptIn
      <4>2. KeptIn(cache', id, f) <=> Kept(id, f) \/ (r.state = "ready" /\ <<id, f>> = Key(r))
        <5> HIDE DEF id
        <5> QED BY <3>5, KeptRecord
      <4> QED BY <3>3, <4>1, <4>2
    <3> QED BY <3>4, <3>5
  <2> QED BY <1>2, <2>1, <2>2, PendingSteps
<1> QED BY <1>1, <1>2 DEF FreshInv, StillCurrent, Kept

\* No content is encoded twice under one profile in a call, nor at all when the
\* previous vector file had it: for any number of identical files, slots and
\* edits, in whatever order workers answer.
THEOREM EncodesOnce == Spec => []EncodedOnce
<1> DEFINE Inv == ContentInv /\ KeptInv /\ TwinsInv /\ FreshInv /\ EncodedOnce
<1>1. Init => Inv
  BY ContentInit, OnceInit
<1>2. Inv /\ [Next]_vars => Inv'
  <2> SUFFICES ASSUME Inv, [Next]_vars PROVE Inv'
    OBVIOUS
  <2> USE DEF ContentInv
  <2>0. counts \in Tallies /\ Found \in Tallies
    BY FoundType DEF TypeOK, ReportType
  <2>1. ContentInv' /\ TwinsInv' /\ FreshInv'
    BY <2>0, ContentStep, TwinsStep, FreshStep, NovelStep
  <2>2. KeptInv' /\ EncodedOnce'
    <3>1. CASE UNCHANGED <<cache, records>>
      BY <3>1 DEF KeptInv, EncodedOnce, Kept, KeptIn
    <3>2. CASE \E c \in Tallies, r \in FileRecords : Record(c, r) /\ Novel(r)
      BY <3>2, OnceRecord
    <3> QED BY <2>0, <3>1, <3>2, NovelStep
  <2> QED BY <2>1, <2>2
<1> QED BY <1>1, <1>2, PTL DEF Spec

-----------------------------------------------------------------------------
(* Accounting: what is recorded, when, and of what. *)

\* encode_file's locals exist exactly while a file is in hand.
LEMMA HandIsFile == TypeOK => (InHand <=> InFile)
BY NoneAssumption DEF TypeOK, FileType, FilesInHand, InHand

\* Recording adds one record and leaves the number of files found as given.
LEMMA RecordAdds ==
    ASSUME TypeOK, NEW c \in Tallies, NEW r, Record(c, r)
    PROVE  /\ Len(records') = Len(records) + 1
           /\ counts'.discovered = c.discovered
<1>1. records \in Seq(FileRecords) /\ records' = Append(records, r)
  BY DEF TypeOK, ReportType, Record
<1>2. Len(records') = Len(records) + 1
  BY <1>1
<1>3. counts'.discovered = c.discovered
  BY DEF Record, Tallies
<1> QED BY <1>2, <1>3

\* The file in hand keeps its path.
LEMMA PathKept ==
    ASSUME TypeOK, [Next]_vars, InHand
    PROVE  InHand' => cur'.path = cur.path
<1>0. cur \in FilesInHand /\ InFile
  BY HandIsFile DEF TypeOK, FileType
<1>1. UNCHANGED cur => cur'.path = cur.path
  OBVIOUS
<1>2. CASE Interrupt \/ ListingFails \/ DiscoveryEnds \/ Drain \/ WaitOne \/ Finish \/ Settle \/ FilesEnd
  BY <1>2 DEF Interrupt, ListingFails, DiscoveryEnds, Drain, WaitOne, Finish, Settle, FilesEnd, InHand
<1>3. ~TakeFile
  BY <1>0 DEF TakeFile, InFile, FilePcs, Awaiting, AwaitPcs
<1>4. CASE (\E p \in Paths : ListEntry(p)) \/ (\E p \in Paths : ListDirectory(p)) \/ AwaitWorkers
  BY <1>4 DEF ListEntry, ListDirectory, AwaitWorkers
<1>5. CASE FileFails \/ Verify \/ Reuse \/ Judge \/ Submit \/ Admit \/ Dedup
  BY <1>5 DEF FileFails, Verify, Reuse, Judge, Submit, Admit, Dedup, NextFile, InHand
<1>6. CASE Open \/ Sniff \/ Stage
  BY <1>0, <1>6 DEF Open, Sniff, Stage, NextFile, InHand, FilesInHand, Opened
<1>7. CASE Hash
  <2> DEFINE i == Len(cur.hashed) + 1
             fits == cur.staged /\ i <= cur.limit
  <2>1. \/ UNCHANGED cur
        \/ cur' = [cur EXCEPT
                      !.hashed = Append(@, cur.data[i]), !.staged = fits,
                      !.overflow = @ \/ (cur.staged /\ ~fits),
                      !.copy = IF fits THEN Append(@, cur.data[i]) ELSE <<>>]
    BY <1>7 DEF Hash
  <2> HIDE DEF i, fits
  <2> QED BY <1>0, <2>1 DEF FilesInHand, Opened
<1>8. CASE Lookup
  BY <1>0, <1>8 DEF Lookup, FilesInHand, Opened
<1>9. CASE EncodeText
  <2>1. \/ \E x : cur' = [cur EXCEPT !.reread = x]
        \/ \E v : cur' = [cur EXCEPT !.verdict = v]
    BY <1>9 DEF EncodeText
  <2> QED BY <1>0, <2>1 DEF FilesInHand, Opened
<1>10. CASE Assemble \/ Cleanup \/ Cancel \/ UNCHANGED vars \/ \E s \in Slots : WorkerAnswers(s)
  BY <1>10 DEF Assemble, Cleanup, Cancel, vars, WorkerAnswers
<1>11. CASE \E p \in Paths : (\E c \in Contents : Overwrite(p, c)) \/ (\E e \in Substitutes : Rename(p, e))
  BY <1>0, <1>11 DEF Overwrite, Rename, Edit, FilesInHand, Opened
<1> QED
  BY <1>2, <1>3, <1>4, <1>5, <1>6, <1>7, <1>8, <1>9, <1>10, <1>11
     DEF Next, Coordinator, Environment, Returned

\* What finish_record makes is of its context's path.
LEMMA SettledPath ==
    ASSUME NEW ctx \in Contexts, NEW v \in Verdicts PROVE Settled(ctx, v).path = ctx.record.path
BY DEF Settled, Contexts, FileRecords

\* The listing still has what it had, and perhaps a name that came back.
MayComeBack ==
    UNCHANGED <<unseen, again>>
        \/ \E p \in Paths : unseen' = unseen \cup {p} /\ again' = again \cup {p}

\* Every step either records nothing and keeps the file in hand in hand; or
\* lists, with the token not set; or takes up a file or an outcome, with the
\* token not set; or gives up the outcome or the file in hand for a record; or
\* submits the file in hand; or ends process.
LEMMA RecordSteps ==
    ASSUME TypeOK, TypeOK', [Next]_vars
    PROVE  \/ /\ UNCHANGED <<files, dirs, pending, records, counts>> /\ MayComeBack
              /\ (InHand' <=> InHand) /\ (pc' = "settle" => pc = "settle") /\ (Running' => Running)
           \/ (\E p \in Paths : ListEntry(p) \/ ListDirectory(p)) \/ DiscoveryEnds
           \/ TakeFile \/ Finish \/ Settle \/ Submit
           \/ /\ UNCHANGED <<files, unseen, again, dirs, pending, outcome>> /\ Running
              /\ InHand /\ ~InHand' /\ pc # "settle" /\ pc' = "top"
              /\ \E r : r.path = cur.path /\ Record(counts, r)
           \/ /\ UNCHANGED <<files, unseen, again, dirs, records, counts>> /\ ~Running'
              /\ (InHand' => InHand) /\ pc' # "settle"
<1> USE DEF world, walk, native, report, ends, Running, MayComeBack
<1>0. PlaceType /\ EndsType /\ (InHand <=> InFile) /\ (InHand' <=> InFile')
  BY HandIsFile, NoneAssumption DEF TypeOK, FileType, FilesInHand, InHand
<1>1. CASE Drain \/ WaitOne
  BY <1>1 DEF Drain, WaitOne, InHand
<1>2. CASE FilesEnd \/ AwaitWorkers
  BY <1>2, <1>0 DEF FilesEnd, AwaitWorkers, InHand, EndsType, Ended
<1>3. CASE Sniff \/ Admit \/ Stage \/ Hash
  BY <1>3, <1>0 DEF Sniff, Admit, Stage, Hash, InFile, FilePcs, Awaiting, AwaitPcs
<1>4. CASE Dedup \/ Lookup \/ EncodeText
  BY <1>4, <1>0 DEF Dedup, Lookup, EncodeText, InFile, FilePcs, Awaiting, AwaitPcs
<1>5. CASE Cancel \/ UNCHANGED vars \/ \E s \in Slots : WorkerAnswers(s)
  BY <1>5 DEF Cancel, vars, WorkerAnswers, InHand
<1>6. CASE \E p \in Paths : (\E c \in Contents : Overwrite(p, c)) \/ (\E e \in Substitutes : Rename(p, e))
  <2>1. /\ UNCHANGED <<pc, ret, files, dirs, pending, records, counts, outcome>>
        /\ MayComeBack
    BY <1>6 DEF Overwrite, Rename, Edit, ComesBack
  <2> QED BY <2>1, <1>0 DEF InFile, Awaiting
<1>7. CASE FileFails \/ Verify \/ Judge \/ Reuse \/ Open
  <2>1. /\ pc \in {"open", "sniff", "stage", "hash", "verify", "judge", "reuse"}
        /\ UNCHANGED <<ret, files, unseen, again, dirs, pending, outcome, result>>
    BY <1>7 DEF FileFails, Verify, Judge, Reuse, Open
  <2>2. InHand /\ Running
    BY <2>1, <1>0 DEF InFile, FilePcs, EndsType, Ended
  <2>a. /\ cur \in FilesInHand /\ InFile
        /\ \A st, e : Refused(cur.path, st, e).path = cur.path
    BY <2>2, <1>0 DEF TypeOK, FileType, Refused, Blank
  <2>b. ASSUME pc \in {"verify", "judge", "reuse"}, NEW v \in Verdicts
        PROVE  Settled(Context, v).path = cur.path
    <3>1. cur.fmt \in Formats
      BY <2>b DEF TypeOK, FileType, Sniffed, InFile, FilePcs
    <3>2. Context \in Contexts /\ Context.record.path = cur.path
      BY <2>a, <3>1, ContextType, ContextBlank DEF Blank
    <3> QED BY <3>2, SettledPath
  <2>c. Bad("SourceChanged") \in Verdicts /\ (pc = "judge" => cur.verdict \in Verdicts)
    BY VerdictType DEF Errors, TypeOK, FileType, InFile, FilePcs
  <2>d. \A h \in Hits : [h EXCEPT !.path = cur.path, !.reused = TRUE].path = cur.path
    BY DEF Hits, CachedAs, TypeOK, ReportType, FileRecords
  <2>3. \/ NextFile /\ \E r : r.path = cur.path /\ Record(counts, r)
        \/ UNCHANGED <<records, counts>> /\ pc' \in {"sniff", "dedup"}
    <3>1. CASE FileFails \/ Open
      BY <2>a, <3>1 DEF FileFails, Open
    <3>2. CASE Verify \/ Judge
      BY <2>b, <2>c, <3>2 DEF Verify, Judge
    <3>3. CASE Reuse
      BY <2>b, <2>c, <2>d, <3>3 DEF Reuse
    <3> QED BY <1>7, <3>1, <3>2, <3>3
  <2>4. pc' \in {"sniff", "dedup"} => InHand'
    BY <1>0 DEF InFile, FilePcs
  <2> QED BY <2>1, <2>2, <2>3, <2>4 DEF NextFile, InHand
<1>8. CASE Interrupt \/ ListingFails
  BY <1>8, NoneAssumption DEF Interrupt, ListingFails, InHand, Outcomes
<1>9. CASE Assemble \/ Cleanup
  <2>1. outcome \in Outcomes /\ outcome' = outcome
    BY <1>9, <1>0 DEF Assemble, Cleanup, EndsType, Ended
  <2> QED BY <1>9, <2>1, NoneAssumption DEF Assemble, Cleanup, InHand
<1> QED
  BY <1>1, <1>2, <1>3, <1>4, <1>5, <1>6, <1>7, <1>8, <1>9
     DEF Next, Coordinator, Environment, Returned

\* Every step keeps the bound: what is recorded after the token is set was
\* already an outcome being settled or a file in hand.
LEMMA CancelStep ==
    ASSUME TypeOK, TypeOK', CancelInv, [Next]_vars
    PROVE  CancelInv'
<1> DEFINE Left == One(pc = "settle") + One(InHand)
<1>0. /\ Left \in 0..2 /\ Left' \in 0..2 /\ Len(records) \in Nat /\ Len(records') \in Nat
      /\ cancelAt \in Nat \cup {None} /\ counts \in Tallies /\ PlaceType
      /\ (cancelAt' = cancelAt \/ (cancelAt' = Len(records) /\ Cancel))
  <2>1. Len(records) \in Nat /\ Len(records') \in Nat
    BY DEF TypeOK, ReportType
  <2>2. cancelAt' = cancelAt \/ Cancel
    BY DEF Next, Coordinator, Environment, Returned, world, vars, Interrupt, ListEntry,
           ListDirectory, ListingFails, DiscoveryEnds, TakeFile, Drain, WaitOne, Finish, Settle,
           FilesEnd, AwaitWorkers, FileFails, Open, Sniff, Admit, Stage, Hash, Verify, Dedup,
           Lookup, Reuse, EncodeText, Judge, Submit, Assemble, Cleanup, WorkerAnswers, Overwrite,
           Rename, Edit
  <2> QED BY <2>1, <2>2 DEF One, TypeOK, WorldType, ReportType, Cancel
<1>1. CASE Cancel
  <2>1. cancelAt' = Len(records) /\ Left' = Left /\ records' = records
    BY <1>1 DEF Cancel, One, InHand, report
  <2>2. Len(records') + Left' <= cancelAt' + 2
    <3> HIDE DEF Left
    <3> QED BY <1>0, <2>1
  <2> QED BY <2>2 DEF CancelInv
<1>2. CASE cancelAt' = cancelAt /\ Len(records') + Left' <= Len(records) + Left
  <2>1. Cancelled' <=> Cancelled
    BY <1>2 DEF Cancelled
  <2>2. CancelInv' <=> (Cancelled' => Len(records') + Left' <= cancelAt' + 2)
    BY DEF CancelInv
  <2>3. Cancelled => cancelAt \in Nat /\ Len(records) + Left <= cancelAt + 2
    BY <1>0 DEF CancelInv, Cancelled
  <2> HIDE DEF Left
  <2> QED BY <1>0, <1>2, <2>1, <2>2, <2>3
<1>3. CASE cancelAt' = cancelAt /\ ~Cancelled
  BY <1>3 DEF CancelInv, Cancelled
<1> SUFFICES ASSUME cancelAt' = cancelAt
             PROVE  ~Cancelled \/ Len(records') + Left' <= Len(records) + Left
  BY <1>0, <1>1, <1>2, <1>3
<1> USE DEF One, InHand
<1>4. CASE /\ UNCHANGED records /\ (InHand' => InHand) /\ (pc' = "settle" => pc = "settle")
  BY <1>0, <1>4
<1>5. CASE (\E p \in Paths : ListEntry(p) \/ ListDirectory(p)) \/ TakeFile \/ Finish
  BY <1>5 DEF ListEntry, ListDirectory, TakeFile, Finish, Passes, CheckPoints
<1>6. CASE DiscoveryEnds \/ Submit
  BY <1>0, <1>6, <1>4 DEF DiscoveryEnds, Submit, NextFile, report
<1>7. CASE Settle
  <2>1. Len(records') = Len(records) + 1
    BY <1>0, <1>7, RecordAdds DEF Settle
  <2>2. pc = "settle" /\ pc' # "settle" /\ cur' = cur
    BY <1>0, <1>7 DEF Settle, PlaceType
  <2> QED BY <1>0, <2>1, <2>2
<1>8. ASSUME NEW r, Record(counts, r), InHand, ~InHand', pc # "settle", pc' = "top"
      PROVE  Len(records') + Left' <= Len(records) + Left
  <2>1. Len(records') = Len(records) + 1
    BY <1>0, <1>8, RecordAdds
  <2> QED BY <1>0, <1>8, <2>1
<1> QED BY <1>4, <1>5, <1>6, <1>7, <1>8, RecordSteps

\* Once the token is set, at most two more records are made, whatever the
\* number of files, slots and answers waiting: cancellation is never put off by
\* work that is queued.
THEOREM CancelIsPrompt == Spec => []PromptCancel
<1> DEFINE Inv == TypeOK /\ CancelInv
<1>1. Init => Inv
  BY TypeInit DEF Init, CancelInv, Cancelled
<1>2. Inv /\ [Next]_vars => Inv'
  <2> SUFFICES ASSUME Inv, [Next]_vars PROVE Inv'
    OBVIOUS
  <2>1. TypeOK'
    BY TypeStep
  <2> QED BY <2>1, CancelStep
<1>3. Inv => PromptCancel
  <2> SUFFICES ASSUME Inv, Cancelled PROVE Len(records) <= cancelAt + 2
    BY DEF PromptCancel
  <2>1. Len(records) \in Nat /\ cancelAt \in Nat
    BY DEF TypeOK, ReportType, WorldType, Cancelled
  <2>2. One(pc = "settle") \in 0..1 /\ One(InHand) \in 0..1
    BY DEF One
  <2> QED BY <2>1, <2>2 DEF CancelInv
<1> QED BY <1>1, <1>2, <1>3, PTL DEF Spec

\* The slots with a source context are finitely many.
Waiting == {s \in Slots : pending[s] # None}

LEMMA Finitely == IsFiniteSet(Waiting)
BY SlotsCount, FS_Subset DEF Waiting

\* process does not resume once it has returned.
LEMMA RunningEnds == ASSUME TypeOK, [Next]_vars, ~Running PROVE ~Running'
<1> USE NoneAssumption DEF Running
<1>1. Ended /\ outcome \in Outcomes
  BY DEF TypeOK, EndsType
<1>2. CASE Assemble \/ Cleanup \/ UNCHANGED vars
  BY <1>1, <1>2 DEF Assemble, Cleanup, vars, ends
<1>3. ~(Interrupt \/ ListingFails \/ (\E p \in Paths : ListEntry(p) \/ ListDirectory(p)))
  BY <1>1 DEF Ended, Interrupt, AtCheck, CheckPoints, ListingFails, ListEntry, ListDirectory
<1>4. ~(DiscoveryEnds \/ TakeFile \/ Drain \/ WaitOne \/ Finish \/ Settle \/ FilesEnd \/ AwaitWorkers)
  BY <1>1 DEF Ended, DiscoveryEnds, TakeFile, Drain, WaitOne, Finish, Settle, FilesEnd, AwaitWorkers
<1>5. ~(FileFails \/ Open \/ Sniff \/ Admit \/ Stage \/ Hash \/ Verify \/ Dedup)
  BY <1>1 DEF Ended, FileFails, Open, Sniff, Admit, Stage, Hash, Verify, Dedup
<1>6. ~(Lookup \/ Reuse \/ EncodeText \/ Judge \/ Submit)
  BY <1>1 DEF Ended, Lookup, Reuse, EncodeText, Judge, Submit
<1>7. ~Environment
  BY DEF Environment, WorkerAnswers, Overwrite, Rename, Edit, Cancel
<1> QED
  BY <1>2, <1>3, <1>4, <1>5, <1>6, <1>7 DEF Next, Coordinator, Returned

\* Every step moves a file from one place to the next and counts it once.
LEMMA NothingLostStep ==
    ASSUME TypeOK, TypeOK', SlotsInv, NothingLost, [Next]_vars
    PROVE  NothingLost'
<1> DEFINE Total == Len(files) + One(InHand) + Cardinality(Waiting) + Len(records)
<1> USE DEF One
<1>0. /\ Len(files) \in Nat /\ Cardinality(Waiting) \in Nat /\ Len(records) \in Nat
      /\ Len(files') \in Nat /\ Cardinality(Waiting') \in Nat /\ Len(records') \in Nat
      /\ counts \in Tallies /\ Found \in Tallies /\ counts.discovered \in Nat
      /\ Found.discovered = counts.discovered + 1 /\ files \in Seq(Paths)
  <2>1. IsFiniteSet(Waiting) /\ IsFiniteSet(Waiting')
    <3>1. Waiting' \subseteq Slots
      BY DEF Waiting
    <3> QED BY <3>1, Finitely, SlotsCount, FS_Subset
  <2>2. files \in Seq(Paths) /\ files' \in Seq(Paths)
    BY DEF TypeOK, WalkType
  <2>3. Len(files) \in Nat /\ Len(files') \in Nat
    BY <2>2
  <2>4. counts \in Tallies /\ records \in Seq(FileRecords) /\ records' \in Seq(FileRecords)
    BY DEF TypeOK, ReportType
  <2>5. Len(records) \in Nat /\ Len(records') \in Nat
    BY <2>4
  <2>6. counts.discovered \in Nat /\ Found.discovered = counts.discovered + 1
    BY <2>4 DEF Tallies, Found
  <2>7. Found \in Tallies
    BY FoundType
  <2> QED BY <2>1, <2>2, <2>3, <2>4, <2>5, <2>6, <2>7, FS_CardinalityType
<1>00. /\ NothingLost <=> (Running => counts.discovered = Total)
       /\ NothingLost' <=> (Running' => counts'.discovered = Total')
  BY DEF NothingLost, Waiting
<1>a. ~Running => ~Running'
  BY RunningEnds
<1> SUFFICES ASSUME Running, Running', counts.discovered = Total
             PROVE  counts'.discovered = Total'
  BY <1>a, <1>00
<1>1. CASE UNCHANGED <<files, pending, records, counts>> /\ (InHand' <=> InHand)
  <2>1. One(InHand)' = One(InHand) /\ Waiting' = Waiting
    BY <1>1 DEF Waiting
  <2> HIDE DEF One
  <2> QED BY <1>1, <2>1
<1>3. ASSUME NEW p \in Paths, ListEntry(p) PROVE counts'.discovered = Total'
  <2>1. UNCHANGED <<cur, pending>>
    BY <1>3 DEF ListEntry, native
  <2>2. CASE UNCHANGED <<files, report>>
    BY <2>1, <2>2 DEF report, Waiting, InHand
  <2>3. CASE files' = Append(files, p) /\ counts' = Found /\ UNCHANGED records
    <3>1. Len(files') = Len(files) + 1
      BY <1>0, <2>3
    <3>2. Waiting' = Waiting /\ (InHand' <=> InHand) /\ records' = records
          /\ counts'.discovered = Found.discovered
      BY <2>1, <2>3 DEF Waiting, InHand
    <3> QED BY <1>0, <3>1, <3>2
  <2>4. ASSUME NEW r, Record(Found, r), UNCHANGED files PROVE counts'.discovered = Total'
    <3>1. Len(records') = Len(records) + 1 /\ counts'.discovered = Found.discovered
      BY <1>0, <2>4, RecordAdds
    <3> QED BY <1>0, <2>1, <2>4, <3>1 DEF Waiting, InHand
  <2> QED BY <1>3, <2>2, <2>3, <2>4 DEF ListEntry
<1>4. ASSUME NEW p \in Paths, ListDirectory(p) PROVE counts'.discovered = Total'
  <2>1. UNCHANGED <<cur, pending, files>>
    BY <1>4 DEF ListDirectory, native
  <2>2. CASE UNCHANGED report
    BY <2>1, <2>2 DEF report, Waiting, InHand
  <2>3. ASSUME NEW r, Record(Found, r) PROVE counts'.discovered = Total'
    <3>1. Len(records') = Len(records) + 1 /\ counts'.discovered = Found.discovered
      BY <1>0, <2>3, RecordAdds
    <3> QED BY <1>0, <2>1, <3>1 DEF Waiting, InHand
  <2> QED BY <1>4, <2>2, <2>3 DEF ListDirectory
<1>5. CASE DiscoveryEnds
  <2>1. UNCHANGED <<cur, pending, records>> /\ counts'.discovered = counts.discovered
    BY <1>0, <1>5 DEF DiscoveryEnds, native, Tallies
  <2>2. Len(files') = Len(files)
    <3>1. PICK o \in [DOMAIN files -> DOMAIN files] :
             files' = [i \in DOMAIN files |-> files[o[i]]]
      BY <1>5, OrdersType DEF DiscoveryEnds
    <3> QED BY <1>0, <3>1, Reordered
  <2> QED BY <2>1, <2>2 DEF Waiting, InHand
<1>6. CASE TakeFile
  <2>2. Len(files') = Len(files) - 1
    BY <1>0, <1>6 DEF TakeFile
  <2>3. ~InHand /\ InHand'
    <3>1. ~InFile /\ pc' = "drain" /\ FileType'
      BY <1>6 DEF TakeFile, TypeOK, InFile, FilePcs, AwaitPcs, Awaiting
    <3>2. cur' \in FilesInHand
      BY <3>1 DEF FileType, InFile, FilePcs
    <3> QED BY <3>1, <3>2, HandIsFile, NoneAssumption DEF FilesInHand, InHand
  <2>4. UNCHANGED <<pending, records, counts>>
    BY <1>6 DEF TakeFile, native, report
  <2> QED BY <1>0, <2>2, <2>3, <2>4 DEF Waiting
<1>7. CASE Finish
  BY <1>7 DEF Finish, walk, native, report, Waiting, InHand
<1>8. CASE Settle
  <2> DEFINE s == held[1]
  <2>1. s \in Slots /\ s \in Waiting
    BY <1>8 DEF Settle, TypeOK, HeldType, Waiting
  <2>2. Waiting' = Waiting \ {s}
    BY <1>8, <2>1 DEF Settle, Waiting, TypeOK, SlotsType
  <2>3. Cardinality(Waiting') = Cardinality(Waiting) - 1
    BY <2>1, <2>2, Finitely, FS_RemoveElement
  <2>4. Len(records') = Len(records) + 1 /\ counts'.discovered = counts.discovered
    BY <1>0, <1>8, RecordAdds DEF Settle
  <2>5. UNCHANGED <<files, cur>>
    BY <1>8 DEF Settle, walk
  <2> DEFINE h == One(InHand)  f == Len(files)  w == Cardinality(Waiting)  r == Len(records)
  <2>6. f' = f /\ h' = h /\ h \in Nat
    BY <2>5 DEF InHand
  <2>7. w' = w - 1 /\ r' = r + 1 /\ f \in Nat /\ w \in Nat /\ r \in Nat
    BY <1>0, <2>3, <2>4
  <2> HIDE DEF s, h, f, w, r
  <2>8. f' + h' + w' + r' = f + h + w + r
    BY <2>6, <2>7
  <2> QED BY <2>4, <2>8 DEF h, f, w, r
<1>9. CASE Submit
  <2>1. PICK s \in Slots \ Active : pending' = [pending EXCEPT ![s] = Context]
    BY <1>9 DEF Submit
  <2>2. s \notin Waiting
    BY <1>9, <2>1 DEF Submit, SlotsInv, Waiting, Active, TypeOK, HeldType
  <2>3. Context # None
    <3>1. cur \in FilesInHand /\ cur.fmt \in Formats
      BY <1>9 DEF Submit, TypeOK, FileType, InFile, Sniffed, FilePcs
    <3> QED BY <3>1, ContextType, NoneAssumption
  <2>4. Waiting' = Waiting \cup {s}
    BY <2>1, <2>3 DEF Waiting, TypeOK, SlotsType
  <2>5. Cardinality(Waiting') = Cardinality(Waiting) + 1
    BY <2>2, <2>4, Finitely, FS_AddElement
  <2>6. InHand /\ ~InHand' /\ UNCHANGED <<files, records, counts>>
    BY <1>9, HandIsFile DEF Submit, NextFile, InHand, InFile, FilePcs, walk, report
  <2> QED BY <1>0, <2>5, <2>6
<1>10. ASSUME NEW r, Record(counts, r), InHand, ~InHand', UNCHANGED <<files, pending>>
       PROVE  counts'.discovered = Total'
  <2>1. Len(records') = Len(records) + 1 /\ counts'.discovered = counts.discovered
    BY <1>0, <1>10, RecordAdds
  <2> QED BY <1>0, <1>10, <2>1 DEF Waiting
<1>11. CASE /\ UNCHANGED <<files, pending>> /\ InHand /\ ~InHand'
            /\ \E r : Record(counts, r)
  BY <1>10, <1>11
<1>12. CASE \E p \in Paths : ListEntry(p) \/ ListDirectory(p)
  BY <1>3, <1>4, <1>12
<1> HIDE DEF Total, One
<1> QED BY <1>1, <1>5, <1>6, <1>7, <1>8, <1>9, <1>11, <1>12, RecordSteps

\* Every file found is to do, in hand, with a worker or recorded, and only once:
\* none is lost between discovery, the slots and the report, however listings
\* fail and workers answer.
THEOREM NoneIsLost == Spec => []NothingLost
<1> DEFINE Inv == TypeOK /\ SlotsInv /\ NothingLost
<1>1. Init => Inv
  <2> SUFFICES ASSUME Init PROVE Inv
    OBVIOUS
  <2>1. files = <<>> /\ {s \in Slots : pending[s] # None} = {} /\ cur = None
        /\ records = <<>> /\ counts.discovered = 0
    BY DEF Init, NoCounts
  <2>2. NothingLost
    BY <2>1, FS_EmptySet DEF NothingLost, One, InHand
  <2> QED BY <2>1, <2>2, TypeInit, SlotsInit
<1>2. Inv /\ [Next]_vars => Inv'
  <2> SUFFICES ASSUME Inv, [Next]_vars PROVE Inv'
    OBVIOUS
  <2>1. TypeOK'
    BY TypeStep
  <2> QED BY <2>1, SlotsStep, NothingLostStep
<1> QED BY <1>1, <1>2, PTL DEF Spec

-----------------------------------------------------------------------------
(* The result.                                                             *)

\* Recording adds the record, and it alone, at the end.
LEMMA RecordedNext ==
    ASSUME TypeOK, NEW c, NEW r, Record(c, r)
    PROVE  /\ \A i \in DOMAIN records' : \/ i \in DOMAIN records /\ records'[i] = records[i]
                                         \/ i \notin DOMAIN records /\ records'[i] = r
           /\ \A i, j \in DOMAIN records' \ DOMAIN records : i = j
           /\ Reported' = Reported \cup {r.path}
<1>1. records \in Seq(FileRecords) /\ records' = Append(records, r)
  BY DEF TypeOK, ReportType, Record
<1>2. /\ DOMAIN records = 1..Len(records) /\ DOMAIN records' = 1..(Len(records) + 1)
      /\ \A i \in 1..Len(records) : records'[i] = records[i]
      /\ records'[Len(records) + 1] = r /\ Len(records) \in Nat
  BY <1>1
<1> QED BY <1>2 DEF Reported

\* What is to be encoded, when a file is found, taken up, or when all are sorted.
LEMMA FiledNext ==
    ASSUME WalkType
    PROVE  /\ \A q : files' = Append(files, q) =>
                 /\ Filed' = Filed \cup {q}
                 /\ \A p : FiledOnce(p) /\ (p = q => p \notin Filed) => FiledOnce(p)'
           /\ files # <<>> /\ files' = Tail(files) =>
                 /\ Filed' \subseteq Filed /\ Head(files) \in Filed
                 /\ \A p : FiledOnce(p) => FiledOnce(p)' /\ (p = Head(files) => p \notin Filed')
           /\ DiscoveryEnds => Filed' \subseteq Filed /\ \A p : FiledOnce(p) => FiledOnce(p)'
<1>0. files \in Seq(Paths) /\ Len(files) \in Nat /\ DOMAIN files = 1..Len(files)
  BY DEF WalkType
<1>1. ASSUME NEW q, files' = Append(files, q)
      PROVE  /\ Filed' = Filed \cup {q}
             /\ \A p : FiledOnce(p) /\ (p = q => p \notin Filed) => FiledOnce(p)'
  <2>1. /\ DOMAIN files' = 1..(Len(files) + 1) /\ files'[Len(files) + 1] = q
        /\ \A i \in DOMAIN files : files'[i] = files[i]
    BY <1>0, <1>1
  <2> QED BY <1>0, <2>1 DEF Filed, FiledOnce
<1>2. ASSUME files # <<>>, files' = Tail(files)
      PROVE  /\ Filed' \subseteq Filed /\ Head(files) \in Filed
             /\ \A p : FiledOnce(p) => FiledOnce(p)' /\ (p = Head(files) => p \notin Filed')
  <2>1. /\ DOMAIN files' = 1..(Len(files) - 1) /\ 1 \in DOMAIN files /\ Head(files) = files[1]
        /\ \A i \in DOMAIN files' : i + 1 \in DOMAIN files /\ files'[i] = files[i + 1]
    BY <1>0, <1>2
  <2>2. Filed' \subseteq Filed /\ Head(files) \in Filed
    BY <2>1 DEF Filed
  <2>3. ASSUME NEW p, FiledOnce(p) PROVE FiledOnce(p)'
    <3> SUFFICES ASSUME NEW i \in DOMAIN files', NEW j \in DOMAIN files',
                        files'[i] = p, files'[j] = p
                 PROVE  i = j
      BY DEF FiledOnce
    <3>1. i + 1 = j + 1
      BY <2>1, <2>3 DEF FiledOnce
    <3> QED BY <1>0, <2>1, <3>1
  <2>4. ASSUME NEW p, FiledOnce(p), p = Head(files), p \in Filed' PROVE FALSE
    <3>1. PICK i \in DOMAIN files' : files'[i] = p
      BY <2>4 DEF Filed
    <3>2. i + 1 = 1
      BY <2>1, <2>4, <3>1 DEF FiledOnce
    <3> QED BY <1>0, <2>1, <3>1, <3>2
  <2> QED BY <2>2, <2>3, <2>4
<1>3. ASSUME DiscoveryEnds PROVE Filed' \subseteq Filed /\ \A p : FiledOnce(p) => FiledOnce(p)'
  <2>1. PICK o \in Orders(files) : files' = [i \in DOMAIN files |-> files[o[i]]]
    BY <1>3 DEF DiscoveryEnds
  <2>2. o \in [DOMAIN files -> DOMAIN files] /\ \A i, j \in DOMAIN files : o[i] = o[j] => i = j
    BY <1>0, OrdersType, OrdersCount
  <2>3. DOMAIN files' = DOMAIN files /\ \A i \in DOMAIN files : files'[i] = files[o[i]]
    BY <2>1
  <2>4. Filed' \subseteq Filed
    BY <2>2, <2>3 DEF Filed
  <2>5. ASSUME NEW p, FiledOnce(p), NEW i \in DOMAIN files', NEW j \in DOMAIN files',
               files'[i] = p, files'[j] = p
        PROVE  i = j
    <3>1. o[i] = o[j]
      BY <2>2, <2>3, <2>5 DEF FiledOnce
    <3> QED BY <2>2, <2>3, <3>1
  <2> QED BY <2>4, <2>5 DEF FiledOnce
<1> QED BY <1>1, <1>2, <1>3

\* What came back to a listing is never forgotten.
LEMMA AgainGrows == ASSUME TypeOK, TypeOK', [Next]_vars PROVE again \subseteq again'
BY RecordSteps DEF MayComeBack, ListEntry, ListDirectory, DiscoveryEnds, TakeFile, Finish, Settle,
                   Submit, walk

\* Each step moves a path from one place to the next, unless it comes back.
LEMMA PlacesStep ==
    ASSUME TypeOK, TypeOK', JobsInv, SlotsInv, PlacesInv, [Next]_vars
    PROVE  PlacesInv'
<1> USE DEF InOnePlace, Ahead
<1>0. /\ PlaceType /\ EndsType /\ FileType /\ SlotsType /\ WalkType
      /\ (InHand <=> InFile)
  BY HandIsFile DEF TypeOK
<1>a. pc \notin {"assemble", "cleanup", "done"} => Running
  BY <1>0 DEF EndsType, Ended, Running
<1>b. again \subseteq again'
  BY AgainGrows
<1> SUFFICES ASSUME NEW p \in Paths \ again'
             PROVE  ReportedOnce(p)' /\ (Running' => InOnePlace(p)')
  BY DEF PlacesInv
<1>c. ReportedOnce(p) /\ (Running => InOnePlace(p))
  BY <1>b DEF PlacesInv
<1>d. UNCHANGED files => Filed' = Filed /\ (FiledOnce(p)' <=> FiledOnce(p))
  BY DEF Filed, FiledOnce
<1>e. UNCHANGED records => Reported' = Reported /\ (ReportedOnce(p)' <=> ReportedOnce(p))
  BY DEF Reported, ReportedOnce
<1>f. ASSUME NEW c, NEW r, Record(c, r), r.path = p => p \notin Reported
      PROVE  ReportedOnce(p)' /\ Reported' = Reported \cup {r.path}
  BY <1>c, <1>f, RecordedNext DEF ReportedOnce, Reported
<1>1. CASE /\ UNCHANGED <<files, dirs, pending, records, counts>> /\ MayComeBack
           /\ (InHand' <=> InHand) /\ (Running' => Running)
  BY <1>1, <1>c, <1>d, <1>e, PathKept DEF MayComeBack
<1>2. ASSUME NEW q \in Paths, ListEntry(q)
      PROVE  ReportedOnce(p)' /\ (Running' => InOnePlace(p)')
  <2>1. /\ q \in unseen /\ unseen' = unseen \ {q} /\ UNCHANGED <<cur, pending>>
        /\ Running /\ (InHand' <=> InHand)
    BY <1>a, <1>2 DEF ListEntry, native, InHand
  <2>2. CASE UNCHANGED records /\ dirs' = dirs \cup {q} /\ UNCHANGED files
    BY <2>1, <2>2, <1>c, <1>d, <1>e
  <2>3. CASE UNCHANGED records /\ files' = Append(files, q) /\ UNCHANGED dirs
    <3>1. Filed' = Filed \cup {q} /\ (FiledOnce(p) /\ (p = q => p \notin Filed) => FiledOnce(p)')
      BY <1>0, <2>3, FiledNext
    <3> QED BY <2>1, <2>3, <3>1, <1>c, <1>e
  <2>4. ASSUME NEW r, r.path = q, Record(Found, r), UNCHANGED <<files, dirs>>
        PROVE  ReportedOnce(p)' /\ (Running' => InOnePlace(p)')
    <3>1. ReportedOnce(p)' /\ Reported' = Reported \cup {q}
      BY <2>1, <2>4, <1>c, <1>f
    <3> QED BY <2>1, <2>4, <3>1, <1>c, <1>d
  <2>5. \A st, e : Refused(q, st, e).path = q
    BY DEF Refused, Blank
  <2> QED BY <1>2, <2>2, <2>3, <2>4, <2>5 DEF ListEntry, report
<1>3. ASSUME NEW q \in Paths, ListDirectory(q)
      PROVE  ReportedOnce(p)' /\ (Running' => InOnePlace(p)')
  <2>1. /\ q \in dirs /\ dirs' = dirs \ {q} /\ UNCHANGED <<cur, pending, unseen, files>>
        /\ Running /\ (InHand' <=> InHand)
    BY <1>a, <1>3 DEF ListDirectory, native, InHand
  <2>2. CASE UNCHANGED records
    BY <2>1, <2>2, <1>c, <1>d, <1>e
  <2>3. ASSUME NEW r, r.path = q, Record(Found, r)
        PROVE  ReportedOnce(p)' /\ (Running' => InOnePlace(p)')
    <3>1. ReportedOnce(p)' /\ Reported' = Reported \cup {q}
      BY <2>1, <2>3, <1>c, <1>f
    <3> QED BY <2>1, <3>1, <1>c, <1>d
  <2>4. \A st, e : Refused(q, st, e).path = q
    BY DEF Refused, Blank
  <2> QED BY <1>3, <2>2, <2>3, <2>4 DEF ListDirectory, report
<1>4. CASE DiscoveryEnds
  <2>1. Filed' \subseteq Filed /\ (FiledOnce(p) => FiledOnce(p)')
    BY <1>0, <1>4, FiledNext
  <2> QED BY <1>4, <1>a, <1>c, <1>e, <2>1 DEF DiscoveryEnds, native, InHand
<1>5. CASE TakeFile
  <2>1. /\ Filed' \subseteq Filed /\ Head(files) \in Filed
        /\ FiledOnce(p) => FiledOnce(p)' /\ (p = Head(files) => p \notin Filed')
    BY <1>0, <1>5, FiledNext DEF TakeFile
  <2>2. cur'.path = Head(files) /\ Running /\ UNCHANGED <<unseen, dirs, pending, records>>
    BY <1>5, <1>a DEF TakeFile, NotOpened, native, report
  <2> QED BY <2>1, <2>2, <1>c, <1>e
<1>6. CASE Finish
  BY <1>6, <1>a, <1>c, <1>d, <1>e DEF Finish, walk, native, report, InHand
<1>7. CASE Settle
  <2> DEFINE s == held[1]
  <2>1. /\ s \in Slots /\ pending[s] # None /\ pending' = [pending EXCEPT ![s] = None]
        /\ Record(counts, Settled(pending[s], held[2]))
        /\ UNCHANGED <<cur, unseen, dirs, files>> /\ Running
    BY <1>7, <1>a DEF Settle, TypeOK, HeldType, walk
  <2>2. Settled(pending[s], held[2]).path = pending[s].path
    <3>1. pending[s] \in Contexts /\ held[2] \in Verdicts
      BY <1>0, <1>7, <2>1 DEF SlotsType, TypeOK, HeldType, Settle
    <3>2. pending[s].record.path = pending[s].path
      BY <2>1 DEF JobsInv, JobOK, Blank
    <3> QED BY <3>1, <3>2, SettledPath
  <2>3. pending'[s] = None /\ \A t \in Slots \ {s} : pending'[t] = pending[t]
    BY <1>0, <2>1 DEF SlotsType
  <2> HIDE DEF s
  <2>4. ReportedOnce(p)' /\ Reported' = Reported \cup {pending[s].path}
    BY <2>1, <2>2, <1>c, <1>f
  <2> QED BY <2>1, <2>3, <2>4, <1>c, <1>d DEF InHand
<1>8. CASE Submit
  <2>1. PICK s \in Slots \ Active : pending' = [pending EXCEPT ![s] = Context]
    BY <1>8 DEF Submit
  <2>2. pending'[s] = Context /\ \A t \in Slots \ {s} : pending'[t] = pending[t]
    BY <1>0, <2>1 DEF SlotsType
  <2>3. Context.path = cur.path
    BY DEF Context
  <2>4. InHand /\ ~InHand' /\ Running /\ UNCHANGED <<files, unseen, dirs, records>>
    BY <1>8, <1>0, <1>a DEF Submit, NextFile, InHand, InFile, FilePcs, walk, report
  <2> QED BY <2>1, <2>2, <2>3, <2>4, <1>c, <1>d, <1>e
<1>9. CASE /\ UNCHANGED <<files, unseen, again, dirs, pending>> /\ Running
           /\ InHand /\ ~InHand' /\ \E r : r.path = cur.path /\ Record(counts, r)
  <2>1. ReportedOnce(p)' /\ Reported' = Reported \cup {cur.path}
    BY <1>9, <1>c, <1>f
  <2> QED BY <1>9, <2>1, <1>c, <1>d
<1>10. CASE UNCHANGED records /\ ~Running'
  BY <1>10, <1>c, <1>e
<1> QED BY <1>1, <1>2, <1>3, <1>4, <1>5, <1>6, <1>7, <1>8, <1>9, <1>10, RecordSteps

\* What is counted by state, and a record's share in it.
LEMMA CountsRecord ==
    ASSUME TypeOK, CountsInv, NEW c \in {counts, Found}, NEW r \in FileRecords,
           Record(c, r), RecordOK(r), counts'.discovered >= Len(records')
    PROVE  CountsInv'
<1> DEFINE ready   == {i \in DOMAIN records : records[i].state = "ready"}
           skipped == {i \in DOMAIN records : records[i].state = "skipped"}
           hits    == {i \in DOMAIN records : records[i].reused}
           last    == Len(records) + 1
<1>1. /\ DOMAIN records = 1..Len(records) /\ DOMAIN records' = DOMAIN records \cup {last}
      /\ Len(records') = Len(records) + 1 /\ Len(records) \in Nat
      /\ last \notin DOMAIN records /\ records'[last] = r
      /\ \A i \in DOMAIN records : records'[i] = records[i]
  <2>1. records \in Seq(FileRecords) /\ records' = Append(records, r)
    BY DEF TypeOK, ReportType, Record
  <2> QED BY <2>1
<1>2. IsFiniteSet(DOMAIN records)
  BY <1>1, FS_Interval
<1>3. Cardinality(ready') = Cardinality(ready) + One(r.state = "ready") /\ Cardinality(ready) \in Nat
  <2>1. IsFiniteSet(ready) /\ last \notin ready
    BY <1>1, <1>2, FS_Subset
  <2>2. ready' = IF r.state = "ready" THEN ready \cup {last} ELSE ready
    BY <1>1
  <2> HIDE DEF ready, last
  <2> QED BY <2>1, <2>2, FS_AddElement, FS_CardinalityType DEF One
<1>4. /\ Cardinality(skipped') = Cardinality(skipped) + One(r.state = "skipped")
      /\ Cardinality(skipped) \in Nat
  <2>1. IsFiniteSet(skipped) /\ last \notin skipped
    BY <1>1, <1>2, FS_Subset
  <2>2. skipped' = IF r.state = "skipped" THEN skipped \cup {last} ELSE skipped
    BY <1>1
  <2> HIDE DEF skipped, last
  <2> QED BY <2>1, <2>2, FS_AddElement, FS_CardinalityType DEF One
<1>5. Cardinality(hits') = Cardinality(hits) + One(r.reused) /\ Cardinality(hits) \in Nat
  <2>1. IsFiniteSet(hits) /\ last \notin hits
    BY <1>1, <1>2, FS_Subset
  <2>2. hits' = IF r.reused THEN hits \cup {last} ELSE hits
    BY <1>1
  <2> HIDE DEF hits, last
  <2> QED BY <2>1, <2>2, FS_AddElement, FS_CardinalityType DEF One
<1>6. /\ counts'.processed = counts.processed + 1
      /\ counts'.ready = counts.ready + One(r.state = "ready")
      /\ counts'.skipped = counts.skipped + One(r.state = "skipped")
      /\ counts'.hits = counts.hits + One(r.state = "ready" /\ r.reused)
      /\ counts'.encoded = counts.encoded + One(r.state = "ready" /\ ~r.reused)
      /\ counts'.failed = counts.failed + One(r.state \in {"failed", "unsupported"})
      /\ counts \in Tallies
  BY DEF Record, Found, TypeOK, ReportType, Tallies
<1>7. /\ One(r.state = "ready" /\ r.reused) = One(r.reused)
      /\ One(r.state = "ready" /\ ~r.reused) = One(r.state = "ready") - One(r.reused)
      /\ One(r.state \in {"failed", "unsupported"}) =
            1 - One(r.state = "ready") - One(r.state = "skipped")
      /\ One(r.reused) \in 0..1 /\ One(r.state = "ready") \in 0..1 /\ One(r.state = "skipped") \in 0..1
  BY DEF One, RecordOK, UnavailableRecordOK, FileRecords, States
<1>8. /\ counts.processed \in Nat /\ counts.ready \in Nat /\ counts.skipped \in Nat
      /\ counts.hits \in Nat /\ counts.encoded \in Nat /\ counts.failed \in Nat
  BY <1>6 DEF Tallies
<1>9. /\ counts.processed = Len(records) /\ counts.ready = Cardinality(ready)
      /\ counts.skipped = Cardinality(skipped) /\ counts.hits = Cardinality(hits)
      /\ counts.failed  = counts.processed - counts.ready - counts.skipped
      /\ counts.encoded = counts.ready - counts.hits
  BY DEF CountsInv
<1>10. /\ counts'.processed = Len(records') /\ counts'.ready = Cardinality(ready')
       /\ counts'.skipped = Cardinality(skipped') /\ counts'.hits = Cardinality(hits')
       /\ counts'.failed  = counts'.processed - counts'.ready - counts'.skipped
       /\ counts'.encoded = counts'.ready - counts'.hits
       /\ counts'.discovered >= counts'.processed
  <2> HIDE DEF ready, skipped, hits
  <2> QED BY <1>1, <1>3, <1>4, <1>5, <1>6, <1>7, <1>8, <1>9
<1> QED BY <1>10 DEF CountsInv

\* What a step does to the tallies when it records nothing.
LEMMA TalliesKept ==
    ASSUME TypeOK, TypeOK', [Next]_vars, UNCHANGED records
    PROVE  counts' \in {counts, Found, [counts EXCEPT !.total = counts.discovered]}
<1>1. counts \in Tallies /\ Found \in Tallies /\ Len(records) \in Nat
  BY FoundType DEF TypeOK, ReportType
<1>2. \A c \in {counts, Found} : \A r : ~Record(c, r)
  BY <1>1, RecordAdds
<1>3. CASE \E p \in Paths : ListEntry(p) \/ ListDirectory(p)
  BY <1>2, <1>3 DEF ListEntry, ListDirectory, report
<1>4. CASE DiscoveryEnds \/ TakeFile \/ Finish \/ Settle \/ Submit
  BY <1>2, <1>4 DEF DiscoveryEnds, TakeFile, Finish, Settle, Submit, report
<1> QED BY <1>2, <1>3, <1>4, RecordSteps

\* Nothing is recorded once process has returned.
LEMMA RecordedWhile ==
    ASSUME TypeOK, TypeOK', [Next]_vars, records' # records
    PROVE  Running'
<1>1. EndsType
  BY DEF TypeOK
<1>2. CASE (\E p \in Paths : ListEntry(p) \/ ListDirectory(p)) \/ Settle
  BY <1>1, <1>2 DEF ListEntry, ListDirectory, Settle, ends, EndsType, Ended, Running
<1>3. CASE DiscoveryEnds \/ TakeFile \/ Finish \/ Submit
  BY <1>3 DEF DiscoveryEnds, TakeFile, Finish, Submit, report
<1> QED BY <1>2, <1>3, RecordSteps DEF Running

\* The counts stay those of the records.
LEMMA CountsStep ==
    ASSUME TypeOK, TypeOK', NothingLost', CountsInv, [Next]_vars,
           \/ UNCHANGED <<cache, records>>
           \/ \E c \in {counts, Found}, r \in FileRecords : Record(c, r) /\ Novel(r)
    PROVE  CountsInv'
<1>1. CASE UNCHANGED records
  <2>1. counts' \in {counts, Found, [counts EXCEPT !.total = counts.discovered]}
    BY <1>1, TalliesKept
  <2>2. counts \in Tallies
    BY DEF TypeOK, ReportType
  <2>3. /\ counts'.processed = counts.processed /\ counts'.ready = counts.ready
        /\ counts'.skipped = counts.skipped /\ counts'.hits = counts.hits
        /\ counts'.failed = counts.failed /\ counts'.encoded = counts.encoded
        /\ counts'.discovered \in {counts.discovered, counts.discovered + 1}
    BY <2>1, <2>2 DEF Found, Tallies
  <2>4. counts.discovered \in Nat /\ counts.processed \in Nat
    BY <2>2 DEF Tallies
  <2> QED BY <1>1, <2>3, <2>4 DEF CountsInv
<1>2. ASSUME NEW c \in {counts, Found}, NEW r \in FileRecords, Record(c, r), Novel(r)
      PROVE  CountsInv'
  <2>0. c \in Tallies /\ Len(records) \in Nat
    BY FoundType DEF TypeOK, ReportType
  <2>1. Len(records') = Len(records) + 1
    BY <1>2, <2>0, RecordAdds
  <2>2. Running'
    BY <2>0, <2>1, RecordedWhile
  <2>3. counts'.discovered >= Len(records')
    <3>1. IsFiniteSet(Waiting)' /\ files' \in Seq(Paths)
      <4>1. Waiting' \subseteq Slots
        BY DEF Waiting
      <4> QED BY <4>1, SlotsCount, FS_Subset DEF TypeOK, WalkType
    <3>2. /\ Len(files') \in Nat /\ Cardinality(Waiting') \in Nat
          /\ One(InHand)' \in Nat /\ Len(records') \in Nat
      BY <2>0, <2>1, <3>1, FS_CardinalityType DEF One
    <3>3. counts'.discovered = Len(files') + One(InHand)' + Cardinality(Waiting') + Len(records')
      BY <2>2 DEF NothingLost, Waiting
    <3> QED BY <3>2, <3>3
  <2> QED BY <1>2, <2>3, CountsRecord DEF Novel
<1> QED BY <1>1, <1>2

\* encode waits only for workers, every file being taken up.
AtEnd == pc = "final" \/ Awaiting({"final"})

\* What a step does to the total, and where it may go.
LEMMA TotalSteps ==
    ASSUME TypeOK, TypeOK', [Next]_vars
    PROVE  \/ /\ counts'.total = counts.total /\ counts'.discovered = counts.discovered
              /\ pc' = "discover" => pc = "discover"
              /\ Running' => Running /\ (pc = "discover" => pc' = "discover")
              /\ AtEnd' => files' = files /\ (AtEnd \/ (pc = "top" /\ files = <<>>))
              /\ outcome' = "ok" => \/ outcome = "ok" /\ counts' = counts
                                    \/ AwaitWorkers /\ Active = {}
           \/ (\E p \in Paths : ListEntry(p) \/ ListDirectory(p)) \/ DiscoveryEnds
<1> USE DEF world, walk, native, report, ends, Running, AtEnd, Awaiting, AwaitPcs
<1>0. PlaceType /\ EndsType /\ counts \in Tallies /\ NoneAssumption
  BY NoneAssumption DEF TypeOK, ReportType
<1>a. \A r : Record(counts, r) =>
            counts'.total = counts.total /\ counts'.discovered = counts.discovered
  BY <1>0 DEF Record, Tallies
<1>b. pc \notin {"assemble", "cleanup", "done"} => outcome = None
  BY <1>0 DEF EndsType, Ended
<1>1. CASE Interrupt \/ ListingFails
  BY <1>0, <1>1 DEF Interrupt, ListingFails, Outcomes
<1>2. CASE TakeFile \/ Drain \/ WaitOne \/ Finish \/ FilesEnd
  BY <1>0, <1>b, <1>2 DEF TakeFile, Drain, WaitOne, Finish, FilesEnd
<1>3. CASE AwaitWorkers
  BY <1>0, <1>b, <1>3 DEF AwaitWorkers, Outcomes
<1>4. CASE Settle
  <2>1. /\ pc = "settle" /\ pc' = ret /\ UNCHANGED <<files, outcome>>
        /\ counts'.total = counts.total /\ counts'.discovered = counts.discovered
    BY <1>a, <1>4 DEF Settle
  <2>2. outcome = None /\ outcome # "ok" /\ pc' \notin AwaitPcs \cup {"discover"}
        /\ (pc' = "final" => ret = "final")
    BY <1>0, <1>b, <2>1 DEF PlaceType, Outcomes
  <2> QED BY <2>1, <2>2
<1>5. CASE FileFails \/ Open \/ Verify \/ Reuse \/ Judge
  <2>1. /\ pc \in {"open", "sniff", "stage", "hash", "verify", "reuse", "judge"}
        /\ pc' \in {"top", "sniff", "dedup"} /\ UNCHANGED <<files, outcome>>
        /\ UNCHANGED counts \/ \E r : Record(counts, r)
    BY <1>5 DEF FileFails, Open, Verify, Reuse, Judge, NextFile
  <2>2. counts'.total = counts.total /\ counts'.discovered = counts.discovered
    BY <1>a, <2>1
  <2>3. outcome = None /\ outcome' # "ok"
    BY <1>0, <1>b, <2>1 DEF Outcomes
  <2> QED BY <2>1, <2>2, <2>3
<1>6. CASE Sniff \/ Admit \/ Stage \/ Hash \/ Dedup
  BY <1>0, <1>b, <1>6 DEF Sniff, Admit, Stage, Hash, Dedup
<1>7. CASE Lookup \/ EncodeText \/ Submit
  BY <1>0, <1>b, <1>7 DEF Lookup, EncodeText, Submit, NextFile
<1>8. CASE Assemble \/ Cleanup \/ UNCHANGED vars \/ Environment
  <2>1. /\ UNCHANGED <<files, counts, outcome>>
        /\ (pc' = pc /\ ret' = ret) \/ pc' \in {"cleanup", "done"}
    BY <1>8 DEF Assemble, Cleanup, vars, Environment, WorkerAnswers, Overwrite, Rename, ComesBack,
                Edit, Cancel
  <2>2. pc' \in {"cleanup", "done"} => outcome' # None
    BY <1>0 DEF TypeOK, EndsType, Ended, Outcomes
  <2> QED BY <1>0, <2>1, <2>2
<1> QED
  BY <1>1, <1>2, <1>3, <1>4, <1>5, <1>6, <1>7, <1>8 DEF Next, Coordinator, Returned

\* The total is set once, and reached when all is done.
LEMMA TotalStep ==
    ASSUME TypeOK, TypeOK', SlotsInv, NothingLost, CountsInv, TotalInv, [Next]_vars
    PROVE  TotalInv'
<1>0. counts \in Tallies /\ EndsType /\ FileType /\ HeldType
  BY DEF TypeOK, ReportType
<1>1. CASE \E p \in Paths : ListEntry(p) \/ ListDirectory(p)
  <2>1. pc = "discover" /\ pc' = "discover" /\ outcome' = outcome /\ outcome = None
    BY <1>0, <1>1 DEF ListEntry, ListDirectory, ends, EndsType, Ended
  <2>2. counts'.total = counts.total
    BY <1>0, <1>1 DEF ListEntry, ListDirectory, report, Record, Found, Tallies
  <2> QED BY <2>1, <2>2, NoneAssumption DEF TotalInv, Awaiting, AwaitPcs, Outcomes
<1>2. CASE DiscoveryEnds
  <2>1. /\ pc' = "top" /\ outcome' = outcome /\ outcome = None
        /\ counts'.total = counts.discovered /\ counts'.discovered = counts.discovered
        /\ counts.discovered \in Nat
    BY <1>0, <1>2 DEF DiscoveryEnds, ends, EndsType, Ended, Tallies
  <2> QED BY <2>1, NoneAssumption DEF TotalInv, Awaiting, AwaitPcs, Outcomes
<1>3. ASSUME AwaitWorkers, Active = {} PROVE counts.total = counts.processed /\ counts' = counts
  <2>1. pc = "final" /\ Running /\ counts' = counts
    BY <1>0, <1>3 DEF AwaitWorkers, report, EndsType, Ended, Running
  <2>2. files = <<>> /\ counts.total = counts.discovered
    BY <2>1 DEF TotalInv
  <2>3. ~InHand
    BY <1>0, <2>1 DEF FileType, InFile, FilePcs, Awaiting, AwaitPcs, InHand
  <2>4. {s \in Slots : pending[s] # None} = {}
    <3>1. held = None
      BY <1>0, <2>1 DEF HeldType
    <3> QED BY <1>3, <2>1, <3>1 DEF SlotsInv, Active
  <2>5. counts.discovered = Len(records)
    <3>1. Len(records) \in Nat
      BY DEF TypeOK, ReportType
    <3>2. One(InHand) = 0
      BY <2>3 DEF One
    <3>3. counts.discovered = Len(files) + One(InHand)
                              + Cardinality({s \in Slots : pending[s] # None}) + Len(records)
      BY <2>1 DEF NothingLost
    <3>4. Len(files) = 0 /\ Cardinality({s \in Slots : pending[s] # None}) = 0
      BY <2>2, <2>4, FS_EmptySet
    <3> QED BY <3>1, <3>2, <3>3, <3>4
  <2> QED BY <2>1, <2>2, <2>5 DEF CountsInv
<1> SUFFICES ASSUME /\ counts'.total = counts.total /\ counts'.discovered = counts.discovered
                    /\ pc' = "discover" => pc = "discover"
                    /\ Running' => Running /\ (pc = "discover" => pc' = "discover")
                    /\ AtEnd' => files' = files /\ (AtEnd \/ (pc = "top" /\ files = <<>>))
                    /\ outcome' = "ok" => \/ outcome = "ok" /\ counts' = counts
                                          \/ AwaitWorkers /\ Active = {}
             PROVE  TotalInv'
  BY <1>1, <1>2, TotalSteps
<1>4. AtEnd' => files' = <<>>
  BY DEF TotalInv, AtEnd
<1>5. outcome' = "ok" => counts'.total = counts'.processed
  BY <1>3 DEF TotalInv
<1> QED BY <1>4, <1>5 DEF TotalInv, AtEnd

\* What process leaves when it has not failed passes validate once sorted, but
\* for paths that came back to a listing.
LEMMA ReportValidates ==
    ASSUME TypeOK, KeptInv, PlacesInv, CountsInv, TotalInv, outcome \in {"ok", "cancelled"},
           NEW o \in Orders([i \in DOMAIN records |-> records[i].path])
    PROVE  LET sorted == [i \in DOMAIN records |-> records[o[i]]] IN
           /\ Consistent(sorted, counts, outcome # "cancelled" /\ listed, outcome = "cancelled")
           /\ Repeated(sorted) \subseteq again
<1> DEFINE complete == outcome # "cancelled" /\ listed
           ps == [i \in DOMAIN records |-> records[i].path]
           sorted == [i \in DOMAIN records |-> records[o[i]]]
<1>1. records \in Seq(FileRecords) /\ DOMAIN records = 1..Len(records) /\ Len(records) \in Nat
  BY DEF TypeOK, ReportType
<1>2. ps \in Seq(Paths) /\ DOMAIN ps = DOMAIN records
  <2>1. ps \in [1..Len(records) -> Paths]
    <3>1. \A i \in 1..Len(records) : records[i].path \in Paths
      <4>1. \A i \in 1..Len(records) : records[i] \in FileRecords
        BY <1>1
      <4> QED BY <4>1 DEF FileRecords
    <3> QED BY <1>1, <3>1
  <2>2. DOMAIN ps = DOMAIN records
    OBVIOUS
  <2> HIDE DEF ps
  <2> QED BY <1>1, <2>1, <2>2, IsASeq
<1>3. /\ o \in [DOMAIN records -> DOMAIN records]
      /\ \A i, j \in DOMAIN records : o[i] = o[j] => i = j
      /\ \A S \in SUBSET DOMAIN records :
            Cardinality({i \in DOMAIN records : o[i] \in S}) = Cardinality(S)
  <2> HIDE DEF ps
  <2> QED BY <1>2, OrdersType, OrdersCount DEF ps
<1>4. /\ DOMAIN sorted = DOMAIN records /\ Len(sorted) = Len(records)
      /\ \A i \in DOMAIN records : sorted[i] = records[o[i]] /\ o[i] \in DOMAIN records
  BY <1>1, <1>3, Reordered
<1> HIDE DEF sorted
<1>5. \A i \in DOMAIN sorted : RecordOK(sorted[i])
  BY <1>4 DEF KeptInv
<1>6. NoConflicts(sorted)
  <2>1. ASSUME NEW i \in DOMAIN records, NEW j \in DOMAIN records,
               records[i].state = "ready", records[j].state = "ready",
               Key(records[i]) = Key(records[j])
        PROVE  records[i].vector = records[j].vector
    <3>1. PICK g \in cache : Key(g) = Key(records[i]) /\ g.vector = records[i].vector
      BY <2>1 DEF KeptInv
    <3>2. PICK h \in cache : Key(h) = Key(records[j]) /\ h.vector = records[j].vector
      BY <2>1 DEF KeptInv
    <3>3. g = h
      BY <2>1, <3>1, <3>2 DEF KeptInv
    <3> QED BY <3>1, <3>2, <3>3
  <2> QED BY <1>4, <2>1 DEF NoConflicts
<1>7. /\ Cardinality({i \in DOMAIN sorted : sorted[i].state = "ready"}) = counts.ready
      /\ Cardinality({i \in DOMAIN sorted : sorted[i].state = "skipped"}) = counts.skipped
      /\ Cardinality({i \in DOMAIN sorted : sorted[i].reused}) = counts.hits
  <2> DEFINE ready   == {i \in DOMAIN records : records[i].state = "ready"}
             skipped == {i \in DOMAIN records : records[i].state = "skipped"}
             hits    == {i \in DOMAIN records : records[i].reused}
  <2>1. /\ {i \in DOMAIN sorted : sorted[i].state = "ready"} = {i \in DOMAIN records : o[i] \in ready}
        /\ {i \in DOMAIN sorted : sorted[i].state = "skipped"} =
               {i \in DOMAIN records : o[i] \in skipped}
        /\ {i \in DOMAIN sorted : sorted[i].reused} = {i \in DOMAIN records : o[i] \in hits}
    BY <1>4
  <2>2. ready \in SUBSET DOMAIN records /\ skipped \in SUBSET DOMAIN records
        /\ hits \in SUBSET DOMAIN records
    OBVIOUS
  <2>3. /\ Cardinality(ready) = counts.ready /\ Cardinality(skipped) = counts.skipped
        /\ Cardinality(hits) = counts.hits
    BY DEF CountsInv
  <2> HIDE DEF ready, skipped, hits
  <2> QED BY <1>3, <2>1, <2>2, <2>3
<1>8. CountsOK(sorted, counts, complete, outcome = "cancelled")
  <2>1. complete => counts.total = counts.processed
    BY DEF TotalInv
  <2> QED BY <1>4, <1>7, <2>1 DEF CountsOK, CountsInv, TotalInv
<1>9. Repeated(sorted) \subseteq again
  <2> SUFFICES ASSUME NEW p \in Paths \ again, NEW i \in DOMAIN records, NEW j \in DOMAIN records,
                      sorted[i].path = p, sorted[j].path = p
               PROVE  i = j
    BY <1>4 DEF Repeated
  <2>1. o[i] = o[j]
    BY <1>4 DEF PlacesInv, ReportedOnce
  <2> QED BY <1>3, <2>1
<1> QED BY <1>5, <1>6, <1>8, <1>9 DEF Consistent, sorted

\* The result is made once, of all that is recorded.
LEMMA ResultStep ==
    ASSUME TypeOK, TypeOK', KeptInv, PlacesInv, CountsInv, TotalInv, ResultValidates, [Next]_vars
    PROVE  ResultValidates'
<1>0. Failure.error # None /\ EndsType
  BY NoneAssumption DEF Failure, Errors, TypeOK
<1>1. CASE Assemble
  <2>1. CASE outcome = "fatal"
    BY <1>0, <1>1, <2>1 DEF Assemble, ResultValidates
  <2>2. CASE outcome # "fatal"
    <3> DEFINE sorted(o) == [i \in DOMAIN records |-> records[o[i]]]
    <3>1. outcome \in {"ok", "cancelled"} /\ again' = again
      BY <1>0, <1>1, <2>2 DEF Assemble, EndsType, Ended, Outcomes, walk
    <3>2. PICK o \in Orders([i \in DOMAIN records |-> records[i].path]) :
             result' = [error |-> None, cancelled |-> outcome = "cancelled",
                        complete |-> outcome # "cancelled" /\ listed,
                        files |-> sorted(o), counts |-> counts]
      BY <1>1, <2>2 DEF Assemble
    <3>3. /\ Consistent(sorted(o), counts, outcome # "cancelled" /\ listed, outcome = "cancelled")
          /\ Repeated(sorted(o)) \subseteq again
      BY <3>1, ReportValidates
    <3> HIDE DEF sorted
    <3> QED BY <3>1, <3>2, <3>3 DEF ResultValidates
  <2> QED BY <2>1, <2>2
<1>2. CASE Cleanup
  BY <1>0, <1>2 DEF Cleanup, ResultValidates, walk
<1>3. CASE UNCHANGED result
  BY <1>3, AgainGrows DEF ResultValidates
<1>4. CASE (\E p \in Paths : ListEntry(p) \/ ListDirectory(p)) \/ Interrupt \/ ListingFails \/ DiscoveryEnds
  BY <1>3, <1>4 DEF ListEntry, ListDirectory, Interrupt, ListingFails, DiscoveryEnds, ends
<1>5. CASE TakeFile \/ Drain \/ WaitOne \/ Finish \/ Settle \/ FilesEnd \/ AwaitWorkers
  BY <1>3, <1>5 DEF TakeFile, Drain, WaitOne, Finish, Settle, FilesEnd, AwaitWorkers, ends
<1>6. CASE FileFails \/ Open \/ Sniff \/ Admit \/ Stage \/ Hash \/ Verify \/ Dedup
  BY <1>3, <1>6 DEF FileFails, Open, Sniff, Admit, Stage, Hash, Verify, Dedup, ends
<1>7. CASE Lookup \/ Reuse \/ EncodeText \/ Judge \/ Submit
  BY <1>3, <1>7 DEF Lookup, Reuse, EncodeText, Judge, Submit, ends
<1>8. CASE Environment \/ UNCHANGED vars
  BY <1>3, <1>8 DEF Environment, WorkerAnswers, Overwrite, Rename, Edit, Cancel, vars, ends
<1> QED
  BY <1>1, <1>2, <1>4, <1>5, <1>6, <1>7, <1>8 DEF Next, Coordinator, Returned

\* At the start nothing has been found.
LEMMA ReportInit == Init => PlacesInv /\ CountsInv /\ TotalInv /\ ResultValidates
<1> SUFFICES ASSUME Init PROVE PlacesInv /\ CountsInv /\ TotalInv /\ ResultValidates
  OBVIOUS
<1>1. /\ records = <<>> /\ counts = NoCounts /\ pc = "discover" /\ outcome = None /\ result = None
      /\ dirs = {} /\ files = <<>> /\ cur = None /\ \A s \in Slots : pending[s] = None
  BY DEF Init
<1>2. PlacesInv
  <2>1. Filed = {} /\ Reported = {}
    BY <1>1 DEF Filed, Reported
  <2> QED BY <1>1, <2>1 DEF PlacesInv, ReportedOnce, InOnePlace, FiledOnce, InHand
<1>3. CountsInv
  <2>1. /\ {i \in DOMAIN records : records[i].state = "ready"} = {}
        /\ {i \in DOMAIN records : records[i].state = "skipped"} = {}
        /\ {i \in DOMAIN records : records[i].reused} = {} /\ Len(records) = 0
    BY <1>1
  <2> QED BY <1>1, <2>1, FS_EmptySet DEF CountsInv, NoCounts
<1>4. TotalInv /\ ResultValidates
  BY <1>1, NoneAssumption DEF TotalInv, Awaiting, AwaitPcs, Outcomes, NoCounts, ResultValidates, Running
<1> QED BY <1>2, <1>3, <1>4

\* Whatever encode returns without an error passes vector_file::validate, so it
\* can be saved and read back, if no listing returned a name twice: consistent
\* records and counts, no two vectors of one content and profile, complete only
\* when every file found has its record; and where one did, no path but those it
\* returned twice has two records.
THEOREM ResultIsValid == Spec => []ResultValidates
<1> DEFINE Inv == /\ ContentInv /\ KeptInv /\ TwinsInv /\ FreshInv /\ EncodedOnce
                  /\ NothingLost /\ PlacesInv /\ CountsInv /\ TotalInv
                  /\ ResultValidates
<1>1. Init => Inv
  <2> SUFFICES ASSUME Init PROVE Inv
    OBVIOUS
  <2>1. files = <<>> /\ {s \in Slots : pending[s] # None} = {} /\ cur = None
        /\ records = <<>> /\ counts.discovered = 0
    BY DEF Init, NoCounts
  <2>2. NothingLost
    BY <2>1, FS_EmptySet DEF NothingLost, One, InHand
  <2> QED BY <2>2, ContentInit, OnceInit, ReportInit
<1>2. Inv /\ [Next]_vars => Inv'
  <2> SUFFICES ASSUME Inv, [Next]_vars PROVE Inv'
    OBVIOUS
  <2> USE DEF ContentInv
  <2>0. counts \in Tallies /\ Found \in Tallies
    BY FoundType DEF TypeOK, ReportType
  <2>1. ContentInv' /\ TwinsInv' /\ FreshInv'
    BY <2>0, ContentStep, TwinsStep, FreshStep, NovelStep
  <2>2. KeptInv' /\ EncodedOnce'
    <3>1. CASE UNCHANGED <<cache, records>>
      BY <3>1 DEF KeptInv, EncodedOnce, Kept, KeptIn
    <3>2. CASE \E c \in Tallies, r \in FileRecords : Record(c, r) /\ Novel(r)
      BY <3>2, OnceRecord
    <3> QED BY <2>0, <3>1, <3>2, NovelStep
  <2>3. NothingLost' /\ PlacesInv'
    BY <2>1, NothingLostStep, PlacesStep
  <2>4. CountsInv' /\ TotalInv'
    BY <2>1, <2>3, NovelStep, CountsStep, TotalStep
  <2> QED BY <2>1, <2>2, <2>3, <2>4, ResultStep
<1> QED BY <1>1, <1>2, PTL DEF Spec
===============================================================================
