--------------------------- MODULE EngineProofs ---------------------------
(* Theorems about the coordinator, for every value of the constants: its   *)
(* types, slots and admission, its expectations and the staging allowance; *)
(* identifiers and vectors belong to the content they are recorded for.    *)
EXTENDS EngineProperties, TLAPS, FiniteSetTheorems, SequenceTheorems

-----------------------------------------------------------------------------
(* Types of the operators the actions are built from. *)

\* A record of a name that was not read is a well-formed record.
LEMMA RefusedType ==
    ASSUME NEW p \in Paths, NEW st \in States, NEW e \in Errors
    PROVE  Refused(p, st, e) \in FileRecords
BY DEF Refused, Blank, FileRecords

\* finish_record makes a well-formed record of a source context and a verdict.
LEMMA SettledType ==
    ASSUME NEW ctx \in Contexts, NEW v \in Verdicts
    PROVE  Settled(ctx, v) \in FileRecords
<1>1. CASE ~StillCurrent(ctx.path, ctx.rev)
  BY <1>1 DEF Settled, Contexts, FileRecords, Errors
<1>2. CASE StillCurrent(ctx.path, ctx.rev) /\ v.error = None
  BY <1>2 DEF Settled, Contexts, FileRecords, Verdicts, Vectors, States
<1>3. CASE StillCurrent(ctx.path, ctx.rev) /\ v.error # None
  BY <1>3 DEF Settled, Contexts, FileRecords, Verdicts, States
<1> QED BY <1>1, <1>2, <1>3

\* The verdicts that are built are verdicts.
LEMMA VerdictType ==
    /\ \A f \in Profiles, d \in Seq(Chunks) : Good(f, d) \in Verdicts
    /\ \A e \in Errors : Bad(e) \in Verdicts
BY NoneAssumption DEF Good, Bad, Verdicts

\* The source context of a sniffed file is a context.
LEMMA ContextType ==
    ASSUME cur \in FilesInHand, cur.fmt \in Formats
    PROVE  Context \in Contexts
<1>1. Family[cur.fmt] \in Profiles \cup {"unknown"}
  BY DEF Formats, Family, Profiles
<1>2. Blank(cur.path) \in FileRecords
  BY DEF Opened, FilesInHand, Blank, FileRecords, States, Errors
<1> QED BY <1>1, <1>2 DEF Context, Contexts, FileRecords, Opened, FilesInHand

\* Run::record keeps the report well-formed.
LEMMA RecordType ==
    ASSUME cache \subseteq FileRecords, records \in Seq(FileRecords),
           NEW c \in Tallies, NEW r \in FileRecords, Record(c, r)
    PROVE  cache' \subseteq FileRecords /\ records' \in Seq(FileRecords) /\ counts' \in Tallies
<1> DEFINE n0 == c.processed + 1
           n1 == c.ready + One(r.state = "ready")
           n2 == c.encoded + One(r.state = "ready" /\ ~r.reused)
           n3 == c.hits + One(r.state = "ready" /\ r.reused)
           n4 == c.skipped + One(r.state = "skipped")
           n5 == c.failed + One(r.state \in {"failed", "unsupported"})
<1>1. n0 \in Nat /\ n1 \in Nat /\ n2 \in Nat /\ n3 \in Nat /\ n4 \in Nat /\ n5 \in Nat
  BY DEF Tallies, One
<1>2. counts' = [c EXCEPT !.processed = n0, !.ready = n1, !.encoded = n2,
                          !.hits = n3, !.skipped = n4, !.failed = n5]
  BY DEF Record
<1>3. counts' \in Tallies
  <2> HIDE DEF n0, n1, n2, n3, n4, n5
  <2> QED BY <1>1, <1>2 DEF Tallies
<1> QED BY <1>3 DEF Record

\* Counting one more entry leaves a tally.
LEMMA FoundType == TypeOK => Found \in Tallies
BY DEF TypeOK, ReportType, Found, Tallies

\* The formats detected are formats.
LEMMA DetectType ==
    ASSUME NEW p \in Paths, NEW d \in Seq(Chunks)
    PROVE  DetectFormat(p, d) \in Formats
BY DataAssumption DEF DetectFormat

\* The families a worker may answer are profiles.
LEMMA CandidatesType ==
    ASSUME NEW fmt \in Formats, IsNative(fmt), NEW i \in DOMAIN Candidates(fmt)
    PROVE  Candidates(fmt)[i] \in Profiles
BY DEF Candidates, IsNative, Formats, Family, Media, Profiles

\* A sequence taken in another order is a sequence of the same things.
LEMMA Reordered ==
    ASSUME NEW S, NEW s \in Seq(S), NEW o \in [DOMAIN s -> DOMAIN s]
    PROVE  LET t == [i \in DOMAIN s |-> s[o[i]]] IN
           t \in Seq(S) /\ Len(t) = Len(s) /\ DOMAIN t = DOMAIN s
<1> DEFINE t == [i \in DOMAIN s |-> s[o[i]]]
<1>1. Len(s) \in Nat /\ DOMAIN s = 1..Len(s)
  OBVIOUS
<1>2. t \in [1..Len(s) -> S]
  BY <1>1
<1>3. t \in Seq(S)
  BY <1>1, <1>2, IsASeq
<1>4. DOMAIN t = DOMAIN s /\ DOMAIN t = 1..Len(t) /\ Len(t) \in Nat
  BY <1>3
<1>5. Len(t) = Len(s)
  <2> HIDE DEF t
  <2> QED BY <1>1, <1>4
<1> QED BY <1>3, <1>4, <1>5

\* What Orders returns are orders of the positions.
LEMMA OrdersType ==
    ASSUME NEW ps, NEW o \in Orders(ps)
    PROVE  o \in [DOMAIN ps -> DOMAIN ps]
BY DEF Orders

\* ... each of which is taken once, so that counting does not see the order.
LEMMA OrdersCount ==
    ASSUME NEW ps \in Seq(Paths), NEW o \in Orders(ps)
    PROVE  /\ \A i, j \in DOMAIN ps : o[i] = o[j] => i = j
           /\ \A S \in SUBSET DOMAIN ps :
                 Cardinality({i \in DOMAIN ps : o[i] \in S}) = Cardinality(S)
<1> DEFINE D == DOMAIN ps
<1>1. o \in [D -> D] /\ D = 1..Len(ps) /\ Len(ps) \in Nat /\ IsFiniteSet(D)
  BY OrdersType, FS_Interval
<1>2. ASSUME NEW i \in D, NEW j \in D, i < j PROVE o[i] # o[j]
  <2>1. ps[o[i]] < ps[o[j]] \/ (ps[o[i]] = ps[o[j]] /\ o[i] < o[j])
    BY <1>2 DEF Orders
  <2>2. ps[o[i]] \in Int /\ ps[o[j]] \in Int /\ o[i] \in Int /\ o[j] \in Int
    <3>1. /\ o[i] \in 1..Len(ps) /\ o[j] \in 1..Len(ps)
          /\ ps[o[i]] \in Paths /\ ps[o[j]] \in Paths
      BY <1>1
    <3> QED BY <3>1, SizesAssumption DEF Paths
  <2> QED BY <2>1, <2>2
<1>3. \A i, j \in D : o[i] = o[j] => i = j
  <2> SUFFICES ASSUME NEW i \in D, NEW j \in D, o[i] = o[j], i # j PROVE FALSE
    OBVIOUS
  <2>1. i < j \/ j < i
    BY <1>1
  <2> QED BY <1>2, <2>1
<1>4. o \in Injection(D, D)
  BY <1>1, <1>3 DEF Injection, IsInjective
<1>5. o \in Surjection(D, D)
  BY <1>1, <1>4, FS_Injection
<1>6. ASSUME NEW S \in SUBSET D
      PROVE  Cardinality({i \in D : o[i] \in S}) = Cardinality(S)
  <2> DEFINE T == {i \in D : o[i] \in S}
             f == [i \in T |-> o[i]]
  <2>1. f \in [T -> S] /\ \A i, j \in T : f[i] = f[j] => i = j
    BY <1>3
  <2>2. \A x \in S : \E i \in T : f[i] = x
    BY <1>5 DEF Surjection
  <2>3. f \in Bijection(T, S)
    BY <2>1, <2>2 DEF Bijection, Injection, IsInjective, Surjection
  <2>4. IsFiniteSet(T)
    BY <1>1, FS_Subset
  <2> HIDE DEF T, f
  <2>5. ExistsBijection(T, S)
    BY <2>3 DEF ExistsBijection
  <2>6. Cardinality(S) = Cardinality(T)
    BY <2>4, <2>5, FS_Bijection
  <2> QED BY <2>6 DEF T
<1> QED BY <1>3, <1>6

-----------------------------------------------------------------------------
(* Type correctness. *)

\* The initial states are well typed.
LEMMA TypeInit == Init => TypeOK
<1> SUFFICES ASSUME Init PROVE TypeOK
  OBVIOUS
<1> USE SizesAssumption, DataAssumption, NoneAssumption
<1>1. disk \in [Paths -> Entries]
  BY DEF Init
<1>2. \A k \in Previous :
         [path |-> 1, id |-> k[1], state |-> "ready", family |-> k[2], profile |-> k[2],
          vector |-> [of |-> k[1], made |-> 0], reused |-> FALSE, error |-> None] \in FileRecords
  BY DEF FileRecords, Vectors, States, Paths
<1>3. cache \subseteq FileRecords
  BY <1>2 DEF Init
<1>4. NoCounts \in Tallies
  BY DEF NoCounts, Tallies
<1>5. WorldType /\ PlaceType /\ WalkType
  BY <1>1 DEF Init, WorldType, PlaceType, WalkType
<1>6. FileType /\ SlotsType /\ HeldType
  BY DEF Init, FileType, InFile, Awaiting, FilePcs, AwaitPcs, SlotsType, HeldType
<1>7. ReportType /\ EndsType
  BY <1>3, <1>4 DEF Init, ReportType, EndsType, Ended
<1> QED BY <1>5, <1>6, <1>7 DEF TypeOK

\* What an action leaves alone keeps its type.
LEMMA TypeFrame ==
    ASSUME TypeOK
    PROVE  /\ UNCHANGED world => WorldType'
           /\ UNCHANGED walk => WalkType'
           /\ UNCHANGED <<pool, pending>> => SlotsType'
           /\ UNCHANGED report => ReportType'
<1> USE DEF TypeOK
<1>1. UNCHANGED world => WorldType'
  BY DEF world, WorldType
<1>2. UNCHANGED walk => WalkType'
  BY DEF walk, WalkType
<1>3. UNCHANGED <<pool, pending>> => SlotsType'
  BY DEF SlotsType
<1>4. UNCHANGED report => ReportType'
  BY DEF report, ReportType
<1> QED BY <1>1, <1>2, <1>3, <1>4

\* The chunks held by jobs are finitely many: no copy exceeds the allowance.
LEMMA StagedType ==
    ASSUME SlotsType
    PROVE  IsFiniteSet(UNION {Holding(s) : s \in Active}) /\ Staged \in Nat
<1> USE SizesAssumption
<1> DEFINE Room == Slots \X (1..(StagingBytes + Reserve))
<1>1. IsFiniteSet(Room)
  <2>1. IsFiniteSet(Slots) /\ IsFiniteSet(1..(StagingBytes + Reserve))
    BY FS_Interval DEF Slots
  <2> QED BY <2>1, FS_Product
<1>2. ASSUME NEW s \in Active PROVE Holding(s) \subseteq Room
  <2>1. pool[s] \in Jobs /\ s \in Slots
    BY <1>2, NoneAssumption DEF Active, SlotsType
  <2>2. Len(pool[s].copy) \in Nat /\ Len(pool[s].copy) <= StagingBytes
    BY <2>1 DEF Jobs, Copies
  <2> QED BY <2>1, <2>2 DEF Holding
<1>3. (UNION {Holding(s) : s \in Active}) \subseteq Room
  BY <1>2
<1>4. IsFiniteSet(UNION {Holding(s) : s \in Active})
  BY <1>1, <1>3, FS_Subset
<1> QED BY <1>4, FS_CardinalityType DEF Staged

\* A worker's answer is a verdict on its job.
LEMMA AnswerType ==
    ASSUME TypeOK, NEW s \in Slots, WorkerAnswers(s)
    PROVE  \E v \in Verdicts :
              /\ pool' = [pool EXCEPT ![s].answer = v]
              /\ [pool[s] EXCEPT !.answer = v] \in Jobs
<1>1. pool[s] \in Jobs
  BY DEF WorkerAnswers, TypeOK, SlotsType
<1>2. PICK v : /\ v \in {Bad("WorkerFailed"), Bad("UnsupportedFormat")} \cup
                        {Good(Candidates(pool[s].fmt)[i], pool[s].copy) :
                           i \in DOMAIN Candidates(pool[s].fmt)}
               /\ pool' = [pool EXCEPT ![s].answer = v]
  BY DEF WorkerAnswers
<1>3. v \in Verdicts
  <2>1. CASE v \in {Bad("WorkerFailed"), Bad("UnsupportedFormat")}
    BY <2>1, VerdictType DEF Errors
  <2>2. ASSUME NEW i \in DOMAIN Candidates(pool[s].fmt)
        PROVE  Good(Candidates(pool[s].fmt)[i], pool[s].copy) \in Verdicts
    <3>1. Candidates(pool[s].fmt)[i] \in Profiles
      BY <1>1, CandidatesType DEF Jobs
    <3>2. pool[s].copy \in Seq(Chunks)
      BY <1>1 DEF Jobs, Copies
    <3> QED BY <3>1, <3>2, VerdictType
  <2> QED BY <1>2, <2>1, <2>2
<1>4. [pool[s] EXCEPT !.answer = v] \in Jobs
  BY <1>1, <1>3 DEF Jobs
<1> QED BY <1>2, <1>3, <1>4

\* Every step keeps them well typed.
LEMMA TypeStep == TypeOK /\ [Next]_vars => TypeOK'
<1> SUFFICES ASSUME TypeOK, [Next]_vars PROVE TypeOK'
  OBVIOUS
<1> USE NoneAssumption
<1> USE DEF InFile, Sniffed, ForNative, Awaiting, FilePcs, AwaitPcs, Ended, native, ends
<1>a. /\ WorldType /\ PlaceType /\ WalkType /\ FileType /\ SlotsType /\ HeldType
      /\ ReportType /\ EndsType
  BY DEF TypeOK
<1>b. /\ UNCHANGED world => WorldType'
      /\ UNCHANGED walk => WalkType'
      /\ UNCHANGED <<pool, pending>> => SlotsType'
      /\ UNCHANGED report => ReportType'
  BY TypeFrame
<1>1. CASE Interrupt
  <2>1. PlaceType' /\ FileType' /\ HeldType' /\ EndsType'
    BY <1>a, <1>1 DEF Interrupt, PlaceType, FileType, HeldType, EndsType, Outcomes
  <2>2. WorldType' /\ WalkType' /\ SlotsType' /\ ReportType'
    BY <1>b, <1>1 DEF Interrupt
  <2> QED BY <2>1, <2>2 DEF TypeOK
<1>2. ASSUME NEW p \in Paths, ListEntry(p) PROVE TypeOK'
  <2>1. PlaceType' /\ FileType' /\ HeldType' /\ EndsType'
    BY <1>a, <1>2 DEF ListEntry, PlaceType, FileType, HeldType, EndsType
  <2>2. Found \in Tallies
    BY <1>a DEF Found, ReportType, Tallies
  <2>3. WalkType'
    BY <1>a, <1>2 DEF ListEntry, WalkType
  <2>4. ReportType'
    <3>1. CASE UNCHANGED report
      BY <3>1, <1>b
    <3>2. CASE counts' = Found /\ UNCHANGED <<cache, records>>
      BY <3>2, <2>2, <1>a DEF ReportType
    <3>3. CASE Record(Found, Refused(p, "skipped", "UnsupportedFormat"))
      BY <3>3, <2>2, <1>a, <1>2, RefusedType, RecordType DEF ReportType, States, Errors
    <3>4. CASE Record(Found, Refused(p, "failed", "IoError"))
      BY <3>4, <2>2, <1>a, <1>2, RefusedType, RecordType DEF ReportType, States, Errors
    <3> QED BY <3>1, <3>2, <3>3, <3>4, <1>2 DEF ListEntry
  <2>5. WorldType' /\ SlotsType'
    BY <1>b, <1>2 DEF ListEntry
  <2> QED BY <2>1, <2>2, <2>3, <2>4, <2>5 DEF TypeOK
<1>3. ASSUME NEW p \in Paths, ListDirectory(p) PROVE TypeOK'
  <2>1. PlaceType' /\ FileType' /\ HeldType' /\ EndsType'
    BY <1>a, <1>3 DEF ListDirectory, PlaceType, FileType, HeldType, EndsType
  <2>2. Found \in Tallies
    BY <1>a DEF Found, ReportType, Tallies
  <2>3. WalkType'
    BY <1>a, <1>3 DEF ListDirectory, WalkType
  <2>4. ReportType'
    <3>1. CASE UNCHANGED report
      BY <3>1, <1>b
    <3>2. CASE Record(Found, Refused(p, "failed", "IoError"))
      BY <3>2, <2>2, <1>a, <1>3, RefusedType, RecordType DEF ReportType, States, Errors
    <3> QED BY <3>1, <3>2, <1>3 DEF ListDirectory
  <2>5. WorldType' /\ SlotsType'
    BY <1>b, <1>3 DEF ListDirectory
  <2> QED BY <2>1, <2>2, <2>3, <2>4, <2>5 DEF TypeOK
<1>4. CASE ListingFails
  <2>1. PlaceType' /\ FileType' /\ HeldType' /\ EndsType'
    BY <1>a, <1>4 DEF ListingFails, PlaceType, FileType, HeldType, EndsType, Outcomes
  <2>2. WorldType' /\ WalkType' /\ SlotsType' /\ ReportType'
    BY <1>b, <1>4 DEF ListingFails
  <2> QED BY <2>1, <2>2 DEF TypeOK
<1>5. CASE DiscoveryEnds
  <2>1. PlaceType' /\ FileType' /\ HeldType' /\ EndsType'
    BY <1>a, <1>5 DEF DiscoveryEnds, PlaceType, FileType, HeldType, EndsType
  <2>2. WalkType'
    <3>1. PICK o \in [DOMAIN files -> DOMAIN files] :
             files' = [i \in DOMAIN files |-> files[o[i]]]
      BY <1>5, OrdersType DEF DiscoveryEnds
    <3>2. files' \in Seq(Paths)
      BY <3>1, <1>a, Reordered DEF WalkType
    <3> QED BY <3>2, <1>a, <1>5 DEF DiscoveryEnds, WalkType
  <2>3. ReportType'
    BY <1>a, <1>5 DEF DiscoveryEnds, ReportType, Tallies
  <2>4. WorldType' /\ SlotsType'
    BY <1>b, <1>5 DEF DiscoveryEnds
  <2> QED BY <2>1, <2>2, <2>3, <2>4 DEF TypeOK
<1>6. CASE TakeFile
  <2>1. \A p \in Paths : NotOpened(p) \in FilesInHand
    BY SizesAssumption DEF NotOpened, Opened, FilesInHand, Copies
  <2>2. PlaceType' /\ FileType' /\ HeldType' /\ EndsType'
    BY <1>a, <1>6, <2>1 DEF TakeFile, PlaceType, FileType, HeldType, EndsType, WalkType
  <2>3. WalkType'
    BY <1>a, <1>6 DEF TakeFile, WalkType
  <2>4. WorldType' /\ SlotsType' /\ ReportType'
    BY <1>b, <1>6 DEF TakeFile
  <2> QED BY <2>1, <2>2, <2>3, <2>4 DEF TypeOK
<1>7. CASE Drain
  <2>1. ASSUME Poll PROVE held' \in Slots \X Verdicts /\ SlotsType'
    BY <1>a, <2>1, <1>7 DEF Poll, Ready, SlotsType, Jobs, Drain
  <2>2. PlaceType' /\ FileType' /\ HeldType' /\ EndsType'
    BY <1>a, <1>7, <2>1 DEF Drain, PlaceType, FileType, HeldType, EndsType
  <2>3. SlotsType'
    BY <1>a, <1>b, <1>7, <2>1 DEF Drain
  <2>4. WorldType' /\ WalkType' /\ ReportType'
    BY <1>b, <1>7 DEF Drain
  <2> QED BY <2>1, <2>2, <2>3, <2>4 DEF TypeOK
<1>8. CASE WaitOne
  <2>1. ASSUME Poll PROVE held' \in Slots \X Verdicts /\ SlotsType'
    BY <1>a, <2>1, <1>8 DEF Poll, Ready, SlotsType, Jobs, WaitOne
  <2>2. PlaceType' /\ FileType' /\ HeldType' /\ EndsType'
    BY <1>a, <1>8, <2>1 DEF WaitOne, PlaceType, FileType, HeldType, EndsType
  <2>3. SlotsType'
    BY <1>8, <2>1 DEF WaitOne
  <2>4. WorldType' /\ WalkType' /\ ReportType'
    BY <1>b, <1>8 DEF WaitOne
  <2> QED BY <2>1, <2>2, <2>3, <2>4 DEF TypeOK
<1>9. CASE Finish
  <2>1. PlaceType' /\ FileType' /\ HeldType' /\ EndsType'
    BY <1>a, <1>9 DEF Finish, PlaceType, FileType, HeldType, EndsType
  <2>2. WorldType' /\ WalkType' /\ SlotsType' /\ ReportType'
    BY <1>b, <1>9 DEF Finish
  <2> QED BY <2>1, <2>2 DEF TypeOK
<1>10. CASE Settle
  <2>1. PlaceType' /\ FileType' /\ HeldType' /\ EndsType'
    BY <1>a, <1>10 DEF Settle, PlaceType, FileType, HeldType, EndsType
  <2>2. held[1] \in Slots /\ held[2] \in Verdicts /\ pending[held[1]] \in Contexts
    BY <1>a, <1>10 DEF Settle, HeldType, SlotsType
  <2>3. SlotsType'
    BY <1>a, <1>10, <2>2 DEF Settle, SlotsType
  <2>4. ReportType'
    <3>1. Settled(pending[held[1]], held[2]) \in FileRecords
      BY <2>2, SettledType
    <3>2. Record(counts, Settled(pending[held[1]], held[2]))
      BY <1>10 DEF Settle
    <3> QED BY <3>1, <3>2, <1>a, RecordType DEF ReportType
  <2>5. WorldType' /\ WalkType'
    BY <1>b, <1>10 DEF Settle
  <2> QED BY <2>1, <2>2, <2>3, <2>4, <2>5 DEF TypeOK
<1>11. CASE FilesEnd
  <2>1. PlaceType' /\ FileType' /\ HeldType' /\ EndsType'
    BY <1>a, <1>11 DEF FilesEnd, PlaceType, FileType, HeldType, EndsType
  <2>2. WorldType' /\ WalkType' /\ SlotsType' /\ ReportType'
    BY <1>b, <1>11 DEF FilesEnd
  <2> QED BY <2>1, <2>2 DEF TypeOK
<1>12. CASE AwaitWorkers
  <2>1. PlaceType' /\ FileType' /\ HeldType' /\ EndsType'
    BY <1>a, <1>12 DEF AwaitWorkers, PlaceType, FileType, HeldType, EndsType, Outcomes
  <2>2. WorldType' /\ WalkType' /\ SlotsType' /\ ReportType'
    BY <1>b, <1>12 DEF AwaitWorkers
  <2> QED BY <2>1, <2>2 DEF TypeOK
<1>13. CASE FileFails
  <2>1. PlaceType' /\ FileType' /\ HeldType' /\ EndsType'
    BY <1>a, <1>13 DEF FileFails, PlaceType, FileType, HeldType, EndsType, NextFile
  <2>2. ReportType'
    <3>1. cur.path \in Paths
      BY <1>a, <1>13 DEF FileFails, FileType, Opened, FilesInHand
    <3>2. Refused(cur.path, "failed", "IoError") \in FileRecords
      BY <3>1, RefusedType DEF States, Errors
    <3> QED BY <3>2, <1>a, <1>13, RecordType DEF FileFails, ReportType
  <2>3. WorldType' /\ WalkType' /\ SlotsType'
    BY <1>b, <1>13 DEF FileFails
  <2> QED BY <2>1, <2>2, <2>3 DEF TypeOK
<1>14. CASE Open
  <2>1. disk[cur.path] \in Entries /\ cur.path \in Paths /\ cur \in FilesInHand
    BY <1>a, <1>14 DEF Open, FileType, Opened, FilesInHand, WorldType
  <2>2. ASSUME cur' = [cur EXCEPT !.rev = disk[cur.path].rev, !.size = Len(disk[cur.path].data),
                               !.data = disk[cur.path].data, !.linked = TRUE]
       PROVE  cur' \in FilesInHand
    <3>1. /\ disk[cur.path].rev \in 0..MaxEdits /\ disk[cur.path].data \in Seq(Chunks)
          /\ Len(disk[cur.path].data) \in Nat
      BY <2>1 DEF Entries
    <3> QED BY <2>2, <3>1, <2>1 DEF Opened, FilesInHand
  <2>3. PlaceType' /\ FileType' /\ HeldType' /\ EndsType'
    BY <1>a, <1>14, <2>2 DEF Open, PlaceType, FileType, HeldType, EndsType, NextFile
  <2>4. ReportType'
    <3>1. CASE UNCHANGED report
      BY <3>1, <1>b
    <3>2. CASE Record(counts, Refused(cur.path, "failed", "SourceChanged"))
      BY <3>2, <2>1, <1>a, RefusedType, RecordType DEF ReportType, States, Errors
    <3> QED BY <3>1, <3>2, <1>14 DEF Open
  <2>5. WorldType' /\ WalkType' /\ SlotsType'
    BY <1>b, <1>14 DEF Open
  <2> QED BY <2>1, <2>2, <2>3, <2>4, <2>5 DEF TypeOK
<1>15. CASE Sniff
  <2>1. DetectFormat(cur.path, cur.data) \in Formats /\ cur \in FilesInHand
    BY <1>a, <1>15, DetectType DEF Sniff, FileType, Opened, FilesInHand
  <2>2. cur' \in FilesInHand /\ cur'.fmt = DetectFormat(cur.path, cur.data)
    BY <1>15, <2>1 DEF Sniff, Opened, FilesInHand
  <2>3. PlaceType' /\ FileType' /\ HeldType' /\ EndsType'
    BY <1>a, <1>15, <2>1, <2>2 DEF Sniff, PlaceType, FileType, HeldType, EndsType
  <2>4. WorldType' /\ WalkType' /\ SlotsType' /\ ReportType'
    BY <1>b, <1>15 DEF Sniff
  <2> QED BY <2>1, <2>2, <2>3, <2>4 DEF TypeOK
<1>16. CASE Admit
  <2>1. PlaceType' /\ FileType' /\ HeldType' /\ EndsType'
    BY <1>a, <1>16 DEF Admit, PlaceType, FileType, HeldType, EndsType
  <2>2. WorldType' /\ WalkType' /\ SlotsType' /\ ReportType'
    BY <1>b, <1>16 DEF Admit
  <2> QED BY <2>1, <2>2 DEF TypeOK
<1>17. CASE Stage
  <2>1. SourceLimit \in 0..StagingBytes
    BY StagedType, <1>a, SizesAssumption DEF SourceLimit
  <2>2. cur' \in FilesInHand /\ cur'.fmt = cur.fmt
    <3> DEFINE lim == SourceLimit
               big == cur.size > lim
               small == ~big
    <3>1. /\ cur' = [cur EXCEPT !.limit = lim, !.overflow = big, !.staged = small]
          /\ cur \in FilesInHand
      BY <1>a, <1>17 DEF Stage, FileType
    <3>2. big \in BOOLEAN /\ small \in BOOLEAN
      OBVIOUS
    <3> HIDE DEF lim, big, small
    <3>3. lim \in 0..StagingBytes
      BY <2>1 DEF lim
    <3> QED BY <3>1, <3>2, <3>3 DEF Opened, FilesInHand
  <2>3. PlaceType' /\ FileType' /\ HeldType' /\ EndsType'
    BY <1>a, <1>17, <2>2 DEF Stage, PlaceType, FileType, HeldType, EndsType
  <2>4. WorldType' /\ WalkType' /\ SlotsType' /\ ReportType'
    BY <1>b, <1>17 DEF Stage
  <2> QED BY <2>1, <2>2, <2>3, <2>4 DEF TypeOK
<1>18. CASE Hash
  <2>1. cur' \in FilesInHand /\ cur'.fmt = cur.fmt
    <3>1. cur \in FilesInHand
      BY <1>a, <1>18 DEF Hash, FileType
    <3>2. CASE UNCHANGED cur
      BY <3>1, <3>2
    <3>3. CASE ~UNCHANGED cur
      <4> DEFINE i == Len(cur.hashed) + 1
                 fits == cur.staged /\ i <= cur.limit
      <4>1. /\ i \in 1..Len(cur.data) /\ i = Len(cur.hashed) + 1
            /\ cur' = [cur EXCEPT
                         !.hashed = Append(@, cur.data[i]),
                         !.staged = fits,
                         !.overflow = @ \/ (cur.staged /\ ~fits),
                         !.copy = IF fits THEN Append(@, cur.data[i]) ELSE <<>>]
        BY <3>1, <3>3, <1>18 DEF Hash, Opened, FilesInHand
      <4>2. cur.data[i] \in Chunks
        BY <3>1, <4>1 DEF Opened, FilesInHand
      <4>3. /\ Append(cur.hashed, cur.data[i]) \in Seq(Chunks)
            /\ Append(cur.copy, cur.data[i]) \in Seq(Chunks)
            /\ Len(Append(cur.hashed, cur.data[i])) = i
            /\ Len(Append(cur.copy, cur.data[i])) <= i
        BY <3>1, <4>2 DEF Opened, FilesInHand, Copies
      <4>4. fits => Append(cur.copy, cur.data[i]) \in Copies
        BY <3>1, <4>3, SizesAssumption DEF Opened, FilesInHand, Copies
      <4>5. <<>> \in Copies /\ Len(<<>>) = 0
        BY SizesAssumption DEF Copies
      <4>6. cur' \in Opened
        <5> DEFINE hs == Append(cur.hashed, cur.data[i])
                   cp == IF fits THEN Append(cur.copy, cur.data[i]) ELSE <<>>
                   ov == cur.overflow \/ (cur.staged /\ ~fits)
        <5>1. cur' = [cur EXCEPT !.hashed = hs, !.staged = fits, !.overflow = ov, !.copy = cp]
          BY <3>1, <4>1 DEF Opened, FilesInHand
        <5>2. hs \in Seq(Chunks) /\ cp \in Copies
          BY <4>3, <4>4, <4>5
        <5>3. fits \in BOOLEAN /\ ov \in BOOLEAN
          OBVIOUS
        <5> HIDE DEF hs, fits, ov, cp
        <5> QED BY <3>1, <5>1, <5>2, <5>3 DEF Opened, FilesInHand
      <4>7. Len(cur'.copy) <= Len(cur'.hashed) /\ cur'.fmt = cur.fmt
        <5>1. cur'.hashed = Append(cur.hashed, cur.data[i]) /\ cur'.copy \in {<<>>, Append(cur.copy, cur.data[i])}
              /\ cur'.fmt = cur.fmt
          BY <3>1, <4>1 DEF Opened, FilesInHand
        <5> QED BY <5>1, <4>3, <4>5, <3>1 DEF Opened, FilesInHand
      <4> QED BY <4>6, <4>7 DEF FilesInHand
    <3> QED BY <3>2, <3>3
  <2>2. PlaceType' /\ FileType' /\ HeldType' /\ EndsType'
    BY <1>a, <1>18, <2>1 DEF Hash, PlaceType, FileType, HeldType, EndsType
  <2>3. WorldType' /\ WalkType' /\ SlotsType' /\ ReportType'
    BY <1>b, <1>18 DEF Hash
  <2> QED BY <2>1, <2>2, <2>3 DEF TypeOK
<1>19. CASE Verify
  <2>1. PlaceType' /\ FileType' /\ HeldType' /\ EndsType'
    BY <1>a, <1>19 DEF Verify, PlaceType, FileType, HeldType, EndsType, NextFile
  <2>2. ReportType'
    <3>1. CASE UNCHANGED report
      BY <3>1, <1>b
    <3>2. CASE Record(counts, Settled(Context, Bad("SourceChanged")))
      <4>1. Settled(Context, Bad("SourceChanged")) \in FileRecords
        <5>1. Context \in Contexts
          BY <1>a, <1>19, ContextType DEF FileType, Verify
        <5> QED BY <5>1, SettledType, VerdictType DEF Errors
      <4> QED BY <4>1, <3>2, <1>a, RecordType DEF ReportType
    <3> QED BY <3>1, <3>2, <1>19 DEF Verify
  <2>3. WorldType' /\ WalkType' /\ SlotsType'
    BY <1>b, <1>19 DEF Verify
  <2> QED BY <2>1, <2>2, <2>3 DEF TypeOK
<1>20. CASE Dedup
  <2>1. PlaceType' /\ FileType' /\ HeldType' /\ EndsType'
    BY <1>a, <1>20 DEF Dedup, PlaceType, FileType, HeldType, EndsType
  <2>2. WorldType' /\ WalkType' /\ SlotsType' /\ ReportType'
    BY <1>b, <1>20 DEF Dedup
  <2> QED BY <2>1, <2>2 DEF TypeOK
<1>21. CASE Lookup
  <2>1. cur' \in FilesInHand /\ cur'.fmt = cur.fmt /\ (pc' = "judge" => cur'.verdict \in Verdicts)
    <3>1. cur \in FilesInHand
      BY <1>a, <1>21 DEF Lookup, FileType
    <3>2. CASE UNCHANGED cur /\ pc' # "judge"
      BY <3>1, <3>2
    <3>3. CASE \E e \in Errors : cur' = [cur EXCEPT !.verdict = Bad(e)]
      BY <3>1, <3>3, VerdictType DEF Opened, FilesInHand
    <3> QED BY <3>2, <3>3, <1>21 DEF Lookup, Errors
  <2>2. PlaceType' /\ FileType' /\ HeldType' /\ EndsType'
    BY <1>a, <1>21, <2>1 DEF Lookup, PlaceType, FileType, HeldType, EndsType
  <2>3. WorldType' /\ WalkType' /\ SlotsType' /\ ReportType'
    BY <1>b, <1>21 DEF Lookup
  <2> QED BY <2>1, <2>2, <2>3 DEF TypeOK
<1>22. CASE Reuse
  <2>1. PlaceType' /\ FileType' /\ HeldType' /\ EndsType'
    BY <1>a, <1>22 DEF Reuse, PlaceType, FileType, HeldType, EndsType, NextFile
  <2>2. ReportType'
    <3>1. CASE Record(counts, Settled(Context, Bad("SourceChanged")))
      <4>1. Context \in Contexts
        BY <1>a, <1>22, ContextType DEF FileType, Reuse
      <4>2. Settled(Context, Bad("SourceChanged")) \in FileRecords
        BY <4>1, SettledType, VerdictType DEF Errors
      <4> QED BY <4>2, <3>1, <1>a, RecordType DEF ReportType
    <3>2. ASSUME NEW h \in Hits, Record(counts, [h EXCEPT !.path = cur.path, !.reused = TRUE])
          PROVE  ReportType'
      <4>1. h \in FileRecords /\ cur.path \in Paths
        BY <1>a, <1>22 DEF Reuse, Hits, CachedAs, ReportType, FileType, Opened, FilesInHand
      <4>2. [h EXCEPT !.path = cur.path, !.reused = TRUE] \in FileRecords
        BY <4>1 DEF FileRecords
      <4> QED BY <4>2, <3>2, <1>a, RecordType DEF ReportType
    <3> QED BY <3>1, <3>2, <1>22 DEF Reuse
  <2>3. WorldType' /\ WalkType' /\ SlotsType'
    BY <1>b, <1>22 DEF Reuse
  <2> QED BY <2>1, <2>2, <2>3 DEF TypeOK
<1>23. CASE EncodeText
  <2>1. cur' \in FilesInHand /\ cur'.fmt = cur.fmt /\ (pc' = "judge" => cur'.verdict \in Verdicts)
    <3>1. cur \in FilesInHand
      BY <1>a, <1>23 DEF EncodeText, FileType
    <3>2. ASSUME NEW v \in Verdicts, cur' = [cur EXCEPT !.verdict = v]
          PROVE  cur' \in FilesInHand /\ cur'.fmt = cur.fmt /\ cur'.verdict \in Verdicts
      BY <3>1, <3>2 DEF Opened, FilesInHand
    <3>3. ASSUME Len(cur.reread) + 1 <= Len(cur.data),
                 cur' = [cur EXCEPT !.reread = Append(@, cur.data[Len(cur.reread) + 1])]
          PROVE  cur' \in FilesInHand /\ cur'.fmt = cur.fmt
      <4>1. cur.data[Len(cur.reread) + 1] \in Chunks
        BY <3>1, <3>3 DEF Opened, FilesInHand
      <4>2. Append(cur.reread, cur.data[Len(cur.reread) + 1]) \in Seq(Chunks)
        BY <3>1, <4>1 DEF Opened, FilesInHand
      <4> QED BY <3>1, <3>3, <4>2 DEF Opened, FilesInHand
    <3>4. Good("text", cur.reread) \in Verdicts /\ \A e \in Errors : Bad(e) \in Verdicts
      BY <3>1, VerdictType DEF Opened, FilesInHand, Profiles
    <3> QED BY <3>2, <3>3, <3>4, <1>23 DEF EncodeText, Errors
  <2>2. PlaceType' /\ FileType' /\ HeldType' /\ EndsType'
    BY <1>a, <1>23, <2>1 DEF EncodeText, PlaceType, FileType, HeldType, EndsType
  <2>3. WorldType' /\ WalkType' /\ SlotsType' /\ ReportType'
    BY <1>b, <1>23 DEF EncodeText
  <2> QED BY <2>1, <2>2, <2>3 DEF TypeOK
<1>24. CASE Judge
  <2>1. PlaceType' /\ FileType' /\ HeldType' /\ EndsType'
    BY <1>a, <1>24 DEF Judge, PlaceType, FileType, HeldType, EndsType, NextFile
  <2>2. ReportType'
    <3>1. Context \in Contexts /\ cur.verdict \in Verdicts
      BY <1>a, <1>24, ContextType DEF FileType, Judge
    <3>2. Settled(Context, cur.verdict) \in FileRecords
      BY <3>1, SettledType
    <3> QED BY <3>2, <1>a, <1>24, RecordType DEF Judge, ReportType
  <2>3. WorldType' /\ WalkType' /\ SlotsType'
    BY <1>b, <1>24 DEF Judge
  <2> QED BY <2>1, <2>2, <2>3 DEF TypeOK
<1>25. CASE Submit
  <2>1. PlaceType' /\ FileType' /\ HeldType' /\ EndsType'
    BY <1>a, <1>25 DEF Submit, PlaceType, FileType, HeldType, EndsType, NextFile
  <2>2. SlotsType'
    <3>1. cur \in FilesInHand /\ cur.fmt \in Formats /\ IsNative(cur.fmt)
      BY <1>a, <1>25 DEF Submit, FileType
    <3>2. Context \in Contexts
      BY <3>1, ContextType
    <3>3. [copy |-> cur.copy, fmt |-> cur.fmt, answer |-> None] \in Jobs
      BY <3>1 DEF Jobs, Opened, FilesInHand
    <3> QED BY <3>2, <3>3, <1>a, <1>25 DEF Submit, SlotsType
  <2>3. WorldType' /\ WalkType' /\ ReportType'
    BY <1>b, <1>25 DEF Submit
  <2> QED BY <2>1, <2>2, <2>3 DEF TypeOK
<1>26. CASE Assemble
  <2>1. PlaceType' /\ FileType' /\ HeldType'
    BY <1>a, <1>26 DEF Assemble, PlaceType, FileType, HeldType
  <2>2. SlotsType'
    BY <1>a, <1>26 DEF Assemble, SlotsType
  <2>3. EndsType'
    <3>1. NoCounts \in Tallies
      BY DEF NoCounts, Tallies
    <3>2. Failure \in Results
      BY <3>1 DEF Failure, Results
    <3> DEFINE ps == [i \in DOMAIN records |-> records[i].path]
               sorted(o) == [i \in DOMAIN records |-> records[o[i]]]
    <3>3. ASSUME NEW o \in Orders(ps)
          PROVE  sorted(o) \in Seq(FileRecords)
      <4>1. o \in [DOMAIN records -> DOMAIN records]
        BY <3>3, OrdersType
      <4> QED BY <4>1, <1>a, Reordered DEF ReportType
    <3>4. ASSUME NEW o \in Orders(ps)
          PROVE  [error |-> None, cancelled |-> outcome = "cancelled",
                  complete |-> outcome # "cancelled" /\ listed,
                  files |-> sorted(o), counts |-> counts] \in Results
      <4> HIDE DEF sorted
      <4> QED BY <3>3, <1>a DEF Results, ReportType, WalkType
    <3> QED BY <3>2, <3>4, <1>a, <1>26 DEF Assemble, EndsType
  <2>4. WorldType' /\ WalkType' /\ ReportType'
    BY <1>b, <1>26 DEF Assemble
  <2> QED BY <2>1, <2>2, <2>3, <2>4 DEF TypeOK
<1>27. CASE Cleanup
  <2>1. PlaceType' /\ FileType' /\ HeldType'
    BY <1>a, <1>27 DEF Cleanup, PlaceType, FileType, HeldType
  <2>2. EndsType'
    <3>1. Failure \in Results
      BY DEF Failure, Results, NoCounts, Tallies
    <3> QED BY <3>1, <1>a, <1>27 DEF Cleanup, EndsType
  <2>3. WorldType' /\ WalkType' /\ SlotsType' /\ ReportType'
    BY <1>b, <1>27 DEF Cleanup
  <2> QED BY <2>1, <2>2, <2>3 DEF TypeOK
<1>28. ASSUME NEW s \in Slots, WorkerAnswers(s) PROVE TypeOK'
  <2>1. PlaceType' /\ FileType' /\ HeldType' /\ EndsType'
    BY <1>a, <1>28 DEF WorkerAnswers, PlaceType, FileType, HeldType, EndsType
  <2>2. SlotsType'
    <3>1. PICK v \in Verdicts : /\ pool' = [pool EXCEPT ![s].answer = v]
                              /\ [pool[s] EXCEPT !.answer = v] \in Jobs
      BY <1>28, AnswerType
    <3> QED BY <3>1, <1>a, <1>28 DEF WorkerAnswers, SlotsType
  <2>3. WorldType' /\ WalkType' /\ ReportType'
    BY <1>b, <1>28 DEF WorkerAnswers
  <2> QED BY <2>1, <2>2, <2>3 DEF TypeOK
<1>29. ASSUME NEW p \in Paths, NEW c \in Contents, Overwrite(p, c) PROVE TypeOK'
  <2>1. c \in Seq(Chunks)
    BY <1>29, DataAssumption
  <2>2. \/ cur' = cur
        \/ /\ InFile /\ cur' \in FilesInHand
           /\ cur'.fmt = cur.fmt /\ cur'.verdict = cur.verdict
    <3>1. CASE ~HoldsInode(p)
      BY <3>1, <1>29 DEF Overwrite
    <3>2. CASE HoldsInode(p)
      <4>1. InFile /\ cur \in FilesInHand
        BY <1>a, <3>2 DEF FileType, HoldsInode, InHand
      <4> QED BY <4>1, <3>2, <1>29, <2>1 DEF Overwrite, Opened, FilesInHand
    <3> QED BY <3>1, <3>2
  <2>3. PlaceType' /\ FileType' /\ HeldType' /\ EndsType'
    BY <1>a, <1>29, <2>2 DEF Overwrite, Edit, PlaceType, FileType, HeldType, EndsType
  <2>4. WorldType'
    <3>1. edits + 1 \in 0..MaxEdits
      BY <1>a, <1>29, SizesAssumption DEF Overwrite, Edit, Running, WorldType
    <3>2. [kind |-> "file", rev |-> edits + 1, data |-> c] \in Entries
      BY <2>1, <3>1 DEF Entries, Kinds
    <3> QED BY <3>1, <3>2, <1>a, <1>29 DEF Overwrite, Edit, WorldType, Entries
  <2>5. WalkType' /\ SlotsType' /\ ReportType'
    BY <1>b, <1>29 DEF Overwrite, Edit
  <2> QED BY <2>1, <2>2, <2>3, <2>4, <2>5 DEF TypeOK
<1>30. ASSUME NEW p \in Paths, NEW e \in Substitutes, Rename(p, e) PROVE TypeOK'
  <2>1. e \in [kind : Kinds, rev : {0}, data : Seq(Chunks)]
    <3>1. ASSUME NEW c \in Contents, e = [kind |-> "file", rev |-> 0, data |-> c]
          PROVE  e \in [kind : Kinds, rev : {0}, data : Seq(Chunks)]
      BY <3>1, DataAssumption DEF Kinds
    <3>2. ASSUME NEW k \in {"other", "gone"}, e = [kind |-> k, rev |-> 0, data |-> <<>>]
          PROVE  e \in [kind : Kinds, rev : {0}, data : Seq(Chunks)]
      BY <3>2 DEF Kinds
    <3> QED BY <3>1, <3>2 DEF Substitutes
  <2>2. \/ cur' = cur
        \/ /\ InFile /\ cur' \in FilesInHand
           /\ cur'.fmt = cur.fmt /\ cur'.verdict = cur.verdict
    <3>1. CASE ~HoldsInode(p)
      BY <3>1, <1>30 DEF Rename
    <3>2. CASE HoldsInode(p)
      <4>1. InFile /\ cur \in FilesInHand
        BY <1>a, <3>2 DEF FileType, HoldsInode, InHand
      <4> QED BY <4>1, <3>2, <1>30 DEF Rename, Opened, FilesInHand
    <3> QED BY <3>1, <3>2
  <2>3. PlaceType' /\ FileType' /\ HeldType' /\ EndsType'
    BY <1>a, <1>30, <2>2 DEF Rename, Edit, PlaceType, FileType, HeldType, EndsType
  <2>4. WorldType'
    <3>1. edits + 1 \in 0..MaxEdits
      BY <1>a, <1>30, SizesAssumption DEF Rename, Edit, Running, WorldType
    <3>2. [e EXCEPT !.rev = edits + 1] \in Entries
      BY <2>1, <3>1 DEF Entries
    <3> QED BY <3>1, <3>2, <1>a, <1>30 DEF Rename, Edit, WorldType, Entries
  <2>5. WalkType' /\ SlotsType' /\ ReportType'
    BY <1>a, <1>b, <1>30 DEF Rename, Edit, ComesBack, WalkType
  <2> QED BY <2>1, <2>2, <2>3, <2>4, <2>5 DEF TypeOK
<1>31. CASE Cancel
  <2>1. PlaceType' /\ FileType' /\ HeldType' /\ EndsType'
    BY <1>a, <1>31 DEF Cancel, PlaceType, FileType, HeldType, EndsType
  <2>2. WorldType'
    BY <1>a, <1>31 DEF Cancel, WorldType, ReportType
  <2>3. WalkType' /\ SlotsType' /\ ReportType'
    BY <1>b, <1>31 DEF Cancel
  <2> QED BY <2>1, <2>2, <2>3 DEF TypeOK
<1>32. CASE UNCHANGED vars
  <2>1. PlaceType' /\ FileType' /\ HeldType' /\ EndsType'
    BY <1>a, <1>32 DEF vars, PlaceType, FileType, HeldType, EndsType
  <2>2. WorldType' /\ WalkType' /\ SlotsType' /\ ReportType'
    BY <1>b, <1>32 DEF vars
  <2> QED BY <2>1, <2>2 DEF TypeOK
<1> QED
  BY <1>1, <1>2, <1>3, <1>4, <1>5, <1>6, <1>7, <1>8, <1>9, <1>10, <1>11, <1>12, <1>13, <1>14, <1>15, <1>16, <1>17, <1>18, <1>19, <1>20, <1>21, <1>22, <1>23, <1>24, <1>25, <1>26, <1>27, <1>28, <1>29, <1>30, <1>31, <1>32 DEF Next, Coordinator, Environment, Returned

\* The coordinator's state, the directory and the result stay well typed, and
\* encode_file's locals, a polled answer and process's outcome exist where they
\* are used.
THEOREM TypeCorrect == Spec => []TypeOK
<1>1. Init => TypeOK
  BY TypeInit
<1>2. TypeOK /\ [Next]_vars => TypeOK'
  BY TypeStep
<1> QED BY <1>1, <1>2, PTL DEF Spec

-----------------------------------------------------------------------------
(* Which steps touch the jobs. *)

\* Every other step leaves jobs, contexts and the polled verdict alone, and
\* process does not resume once it has returned.
LEMMA JobSteps ==
    ASSUME TypeOK, [Next]_vars
    PROVE  \/ UNCHANGED native /\ (Running' => Running)
           \/ Drain \/ WaitOne \/ Settle \/ Submit \/ Interrupt \/ Assemble
           \/ \E s \in Slots : WorkerAnswers(s)
<1> USE DEF native, Running
<1>1. CASE ListingFails \/ DiscoveryEnds \/ TakeFile \/ Finish \/ FilesEnd \/ AwaitWorkers
  BY <1>1 DEF ListingFails, DiscoveryEnds, TakeFile, Finish, FilesEnd, AwaitWorkers, ends,
                TypeOK, EndsType, Ended
<1>2. CASE (\E p \in Paths : ListEntry(p)) \/ (\E p \in Paths : ListDirectory(p))
  BY <1>2 DEF ListEntry, ListDirectory, ends
<1>3. CASE FileFails \/ Open \/ Sniff \/ Admit \/ Stage
  BY <1>3 DEF FileFails, Open, Sniff, Admit, Stage, ends
<1>4. CASE Hash \/ Verify \/ Dedup \/ Lookup
  BY <1>4 DEF Hash, Verify, Dedup, Lookup, ends
<1>5. CASE Reuse \/ EncodeText \/ Judge
  BY <1>5 DEF Reuse, EncodeText, Judge, ends
<1>6. CASE Cleanup \/ Cancel \/ UNCHANGED vars
  BY <1>6 DEF Cleanup, Cancel, vars, ends
<1>7. CASE \E p \in Paths : (\E c \in Contents : Overwrite(p, c)) \/ (\E e \in Substitutes : Rename(p, e))
  BY <1>7 DEF Overwrite, Rename, Edit, ends
<1> QED
  BY <1>1, <1>2, <1>3, <1>4, <1>5, <1>6, <1>7 DEF Next, Coordinator, Environment, Returned

-----------------------------------------------------------------------------
(* Jobs and source contexts go together. *)

\* At the start no slot has a job and none has a context.
LEMMA SlotsInit == Init => SlotsInv
BY DEF Init, SlotsInv

\* Polling moves a job's slot to the polled verdict.
LEMMA SlotsPoll ==
    ASSUME TypeOK, SlotsInv, Running, held = None, Poll, UNCHANGED pending
    PROVE  SlotsInv'
<1>1. PICK s \in Ready : held' = <<s, pool[s].answer>> /\ pool' = [pool EXCEPT ![s] = None]
  BY DEF Poll
<1>2. s \in Slots /\ pool[s] # None /\ pool \in [Slots -> Jobs \cup {None}]
  BY DEF Ready, TypeOK, SlotsType
<1>3. held' # None /\ held'[1] = s
  <2>1. pool[s].answer \in Verdicts
    BY <1>1, <1>2 DEF Ready, Jobs
  <2> QED BY <2>1, <1>1, <1>2, NoneAssumption
<1> QED BY <1>1, <1>2, <1>3 DEF SlotsInv

\* Every step keeps jobs and contexts paired: submit fills both, poll and
\* finish empty them one after the other, with the answer held in between.
LEMMA SlotsStep == TypeOK /\ SlotsInv /\ [Next]_vars => SlotsInv'
<1> SUFFICES ASSUME TypeOK, SlotsInv, [Next]_vars PROVE SlotsInv'
  OBVIOUS
<1> USE NoneAssumption
<1>0. HeldType /\ SlotsType /\ EndsType /\ FileType
  BY DEF TypeOK
<1>1. CASE UNCHANGED native /\ (Running' => Running)
  BY <1>1 DEF SlotsInv, native
<1>2. CASE Drain
  <2>1. held = None /\ Running /\ UNCHANGED pending
    BY <1>0, <1>2 DEF Drain, HeldType, EndsType, Ended, Running
  <2>2. CASE Poll
    BY <2>1, <2>2, SlotsPoll
  <2>3. CASE UNCHANGED <<pool, held>>
    BY <2>1, <2>3 DEF SlotsInv
  <2> QED BY <1>2, <2>2, <2>3 DEF Drain
<1>3. CASE WaitOne
  BY <1>0, <1>3, SlotsPoll DEF WaitOne, HeldType, EndsType, Ended, Running
<1>4. CASE Settle
  <2>1. held \in Slots \X Verdicts
    BY <1>0, <1>4 DEF Settle, HeldType
  <2>2. Running /\ pool' = pool /\ held' = None /\ pending' = [pending EXCEPT ![held[1]] = None]
    BY <1>0, <1>4 DEF Settle, EndsType, Ended, Running
  <2>3. pool[held[1]] = None
    BY <2>1, <2>2 DEF SlotsInv
  <2> QED BY <1>0, <2>1, <2>2, <2>3 DEF SlotsInv, SlotsType
<1>5. CASE Submit
  <2>1. held = None /\ held' = None /\ Running
    BY <1>0, <1>5 DEF Submit, HeldType, EndsType, Ended, Running
  <2>2. PICK s \in Slots \ Active :
           /\ pool' = [pool EXCEPT ![s] = [copy |-> cur.copy, fmt |-> cur.fmt, answer |-> None]]
           /\ pending' = [pending EXCEPT ![s] = Context]
    BY <1>5 DEF Submit
  <2>3. /\ [copy |-> cur.copy, fmt |-> cur.fmt, answer |-> None] # None
        /\ Context # None
    <3>1. cur \in FilesInHand /\ cur.fmt \in Formats /\ IsNative(cur.fmt)
      BY <1>0, <1>5 DEF Submit, FileType, InFile, Sniffed, ForNative, FilePcs
    <3>2. Context \in Contexts
      BY <3>1, ContextType
    <3>3. [copy |-> cur.copy, fmt |-> cur.fmt, answer |-> None] \in Jobs
      BY <3>1 DEF Jobs, Opened, FilesInHand
    <3> QED BY <3>2, <3>3
  <2> QED BY <1>0, <2>1, <2>2, <2>3 DEF SlotsInv, SlotsType
<1>6. CASE Interrupt
  BY <1>6 DEF Interrupt, SlotsInv, Running, Outcomes
<1>7. CASE Assemble
  BY <1>0, <1>7 DEF Assemble, SlotsInv, Running, EndsType, Ended, Outcomes
<1>8. ASSUME NEW s \in Slots, WorkerAnswers(s) PROVE SlotsInv'
  <2>1. PICK v \in Verdicts : /\ pool' = [pool EXCEPT ![s].answer = v]
                            /\ [pool[s] EXCEPT !.answer = v] \in Jobs
    BY <1>8, AnswerType
  <2>2. pool[s] # None
    BY <1>8 DEF WorkerAnswers
  <2>3. \A t \in Slots : pool'[t] # None <=> pool[t] # None
    BY <1>0, <2>1, <2>2 DEF SlotsType
  <2> QED BY <1>8, <2>3 DEF WorkerAnswers, SlotsInv, Running, ends
<1> QED BY <1>1, <1>2, <1>3, <1>4, <1>5, <1>6, <1>7, <1>8, JobSteps
-----------------------------------------------------------------------------
(* Admission. *)

\* There are as many slots as the capacity says.
LEMMA SlotsCount == IsFiniteSet(Slots) /\ Cardinality(Slots) = Capacity
BY FS_Interval, SizesAssumption DEF Slots

\* With no job running nothing is held.
LEMMA StagedNone == Active = {} => Staged = 0
<1> SUFFICES ASSUME Active = {} PROVE Staged = 0
  OBVIOUS
<1>1. (UNION {Holding(s) : s \in Active}) = {}
  OBVIOUS
<1> QED BY <1>1, FS_EmptySet DEF Staged

\* An answer leaves the jobs and what they hold alone.
LEMMA StagedAnswer ==
    ASSUME TypeOK, NEW s \in Slots, WorkerAnswers(s)
    PROVE  Active' = Active /\ Staged' = Staged
<1>1. PICK v \in Verdicts : /\ pool' = [pool EXCEPT ![s].answer = v]
                          /\ [pool[s] EXCEPT !.answer = v] \in Jobs
  BY AnswerType
<1>2. pool[s] \in Jobs /\ SlotsType
  BY DEF WorkerAnswers, TypeOK, SlotsType
<1>3. Active' = Active /\ \A t \in Active : Holding(t)' = Holding(t)
  BY <1>1, <1>2, NoneAssumption DEF Active, Holding, SlotsType, Jobs
<1> QED BY <1>3 DEF Staged

\* At the start no file is in hand.
LEMMA AdmissionInit == Init => AdmissionInv
BY DEF Init, AdmissionInv, Admitted, Sized, Awaiting, FilePcs, AwaitPcs

\* While a file waits for a verdict some job is running.
LEMMA AdmissionStep == TypeOK /\ SlotsInv /\ AdmissionInv /\ [Next]_vars => AdmissionInv'
<1> SUFFICES ASSUME TypeOK, SlotsInv, AdmissionInv, [Next]_vars PROVE AdmissionInv'
  OBVIOUS
<1> USE DEF AdmissionInv, Admitted, Sized, Awaiting, FilePcs, AwaitPcs, native
<1>a. PlaceType /\ FileType /\ HeldType /\ SlotsType /\ EndsType
  BY DEF TypeOK
<1>b. UNCHANGED pool => Active' = Active
  BY DEF Active
<1>1. CASE Interrupt
  BY <1>a, <1>b, <1>1 DEF Interrupt
<1>2. ASSUME NEW p \in Paths, ListEntry(p) PROVE AdmissionInv'
  BY <1>a, <1>b, <1>2 DEF ListEntry
<1>3. ASSUME NEW p \in Paths, ListDirectory(p) PROVE AdmissionInv'
  BY <1>a, <1>b, <1>3 DEF ListDirectory
<1>4. CASE ListingFails
  BY <1>a, <1>b, <1>4 DEF ListingFails
<1>5. CASE DiscoveryEnds
  BY <1>a, <1>b, <1>5 DEF DiscoveryEnds
<1>6. CASE TakeFile
  BY <1>a, <1>b, <1>6 DEF TakeFile
<1>7. CASE Drain
  <2>1. cur' = cur /\ pc' \in {"finish", "open"} /\ (pc' = "finish" => ret' = "drain")
    BY <1>7 DEF Drain
  <2> QED BY <2>1
<1>8. CASE WaitOne
  <2>1. Active' \subseteq Active
    BY <1>a, <1>8 DEF WaitOne, Poll, Active, SlotsType
  <2>2. Active \subseteq Slots
    BY DEF Active
  <2> QED BY <2>1, <2>2, <1>8 DEF WaitOne
<1>9. CASE Finish
  BY <1>a, <1>b, <1>9 DEF Finish
<1>10. CASE Settle
  <2>1. pc' = ret /\ ret \in {"drain", "admit", "dedup", "final"} /\ pc = "settle"
    BY <1>a, <1>10 DEF Settle, PlaceType
  <2> QED BY <2>1, <1>b, <1>10 DEF Settle
<1>11. CASE FilesEnd
  BY <1>a, <1>b, <1>11 DEF FilesEnd
<1>12. CASE AwaitWorkers
  BY <1>a, <1>b, <1>12 DEF AwaitWorkers
<1>13. CASE FileFails
  BY <1>a, <1>b, <1>13 DEF FileFails, NextFile
<1>14. CASE Open
  BY <1>a, <1>b, <1>14 DEF Open, NextFile, FileType, InFile, FilesInHand, Opened
<1>15. CASE Sniff
  BY <1>a, <1>b, <1>15 DEF Sniff, FileType, InFile, FilesInHand, Opened
<1>16. CASE Admit
  <2>1. CASE MustWait /\ pc' = "wait"
    <3>1. Active # {}
      BY <2>1, SlotsCount, SizesAssumption, FS_EmptySet DEF MustWait
    <3> QED BY <3>1, <2>1, <1>a, <1>b, <1>16 DEF Admit
  <2>2. CASE ~MustWait /\ pc' = "stage"
    <3>1. Active # Slots
      BY <2>2, SlotsCount DEF MustWait
    <3> QED BY <3>1, <2>2, <1>a, <1>b, <1>16 DEF Admit
  <2> QED BY <2>1, <2>2, <1>16 DEF Admit
<1>17. CASE Stage
  BY <1>a, <1>b, <1>17 DEF Stage, FileType, InFile, FilesInHand, Opened
<1>18. CASE Hash
  BY <1>a, <1>b, <1>18 DEF Hash, FileType, InFile, FilesInHand, Opened
<1>19. CASE Verify
  BY <1>a, <1>b, <1>19 DEF Verify, NextFile
<1>20. CASE Dedup
  <2>1. CASE Twin /\ pc' = "wait"
    <3>1. Active # {}
      BY <2>1, <1>a, <1>20 DEF Twin, Dedup, SlotsInv, HeldType, EndsType, Ended, Running, Active
    <3> QED BY <3>1, <2>1, <1>a, <1>b, <1>20 DEF Dedup
  <2>2. CASE ~Twin /\ pc' = "lookup"
    BY <2>2, <1>a, <1>b, <1>20 DEF Dedup
  <2> QED BY <2>1, <2>2, <1>20 DEF Dedup
<1>21. CASE Lookup
  BY <1>a, <1>b, <1>21 DEF Lookup, FileType, InFile, FilesInHand, Opened
<1>22. CASE Reuse
  BY <1>a, <1>b, <1>22 DEF Reuse, NextFile
<1>23. CASE EncodeText
  BY <1>a, <1>b, <1>23 DEF EncodeText, FileType, InFile, FilesInHand, Opened
<1>24. CASE Judge
  BY <1>a, <1>b, <1>24 DEF Judge, NextFile
<1>25. CASE Submit
  BY <1>a, <1>b, <1>25 DEF Submit, NextFile
<1>26. CASE Assemble
  BY <1>a, <1>b, <1>26 DEF Assemble
<1>27. CASE Cleanup
  BY <1>a, <1>b, <1>27 DEF Cleanup
<1>28. ASSUME NEW s \in Slots, WorkerAnswers(s) PROVE AdmissionInv'
  <2>1. Active' = Active
    BY <1>28, StagedAnswer
  <2> QED BY <2>1, <1>28 DEF WorkerAnswers
<1>29. ASSUME NEW p \in Paths, NEW c \in Contents, Overwrite(p, c) PROVE AdmissionInv'
  BY <1>a, <1>b, <1>29 DEF Overwrite, Edit, HoldsInode, InHand, FileType, FilesInHand, Opened
<1>30. ASSUME NEW p \in Paths, NEW e \in Substitutes, Rename(p, e) PROVE AdmissionInv'
  BY <1>a, <1>b, <1>30 DEF Rename, Edit, HoldsInode, InHand, FileType, FilesInHand, Opened
<1>31. CASE Cancel
  BY <1>a, <1>b, <1>31 DEF Cancel
<1>32. CASE UNCHANGED vars
  BY <1>b, <1>32 DEF vars
<1> QED
  BY <1>1, <1>2, <1>3, <1>4, <1>5, <1>6, <1>7, <1>8, <1>9, <1>10, <1>11, <1>12, <1>13, <1>14, <1>15, <1>16, <1>17, <1>18, <1>19, <1>20, <1>21, <1>22, <1>23, <1>24, <1>25, <1>26, <1>27, <1>28, <1>29, <1>30, <1>31, <1>32
     DEF Next, Coordinator, Environment, Returned

\* The inductive invariant: types, jobs paired with contexts, admission.
AdmissionSafe == TypeOK /\ SlotsInv /\ AdmissionInv

\* The strengthened invariant of admission, in every state of a run.
LEMMA AdmissionSafeAlways == Spec => []AdmissionSafe
<1>1. Init => AdmissionSafe
  BY TypeInit, SlotsInit, AdmissionInit DEF AdmissionSafe
<1>2. AdmissionSafe /\ [Next]_vars => AdmissionSafe'
  BY TypeStep, SlotsStep, AdmissionStep DEF AdmissionSafe
<1> QED BY <1>1, <1>2, PTL DEF Spec

\* The coordinator's expect()s and unwrap()s never fail: a polled slot has its
\* source context, a submission its copy and a free slot, and wait_one always
\* has a job to wait for.
THEOREM Expectations == Spec => []ExpectationsHold
<1>1. AdmissionSafe => ExpectationsHold
  <2> SUFFICES ASSUME AdmissionSafe, Running PROVE ExpectationsHold
    BY DEF ExpectationsHold
  <2> USE NoneAssumption DEF AdmissionSafe
  <2>1. PlaceType /\ FileType /\ HeldType
    BY DEF TypeOK
  <2>2. pc \in {"finish", "settle"} <=> held # None
    BY <2>1 DEF HeldType
  <2>3. held # None => pool[held[1]] = None
    BY <2>1 DEF HeldType, SlotsInv
  <2>4. pc = "submit" => cur.staged /\ Active # Slots
    BY <2>1 DEF FileType, InFile, ForNative, FilePcs, AdmissionInv, Admitted, Sized
  <2>5. pc = "wait" => Active # {}
    BY DEF AdmissionInv
  <2> QED BY <2>2, <2>3, <2>4, <2>5 DEF ExpectationsHold, SlotsInv
<1> QED BY <1>1, AdmissionSafeAlways, PTL

-----------------------------------------------------------------------------
(* What the jobs hold, step by step. *)

\* Polling never adds to what the jobs hold.
LEMMA StagedPoll ==
    ASSUME TypeOK, Poll
    PROVE  Staged' \in Nat /\ Staged' <= Staged
<1>1. PICK s \in Slots : pool' = [pool EXCEPT ![s] = None]
  BY DEF Poll, Ready
<1>2. \A t \in Active' : t \in Active /\ Holding(t)' = Holding(t)
  BY <1>1 DEF Active, Holding, TypeOK, SlotsType
<1>3. (UNION {Holding(t) : t \in Active})' \subseteq UNION {Holding(t) : t \in Active}
  BY <1>2
<1>4. IsFiniteSet(UNION {Holding(t) : t \in Active})
  BY StagedType DEF TypeOK
<1> QED BY <1>3, <1>4, FS_Subset, FS_CardinalityType DEF Staged

\* A submission adds its copy and its reserve.
LEMMA StagedSubmit ==
    ASSUME TypeOK, NEW s \in Slots \ Active, NEW j \in Jobs,
           pool' = [pool EXCEPT ![s] = j]
    PROVE  Staged' \in Nat /\ Staged' <= Staged + Len(j.copy) + Reserve
<1> USE SizesAssumption
<1>a. SlotsType
  BY DEF TypeOK
<1> DEFINE k == Len(j.copy) + Reserve
           old == UNION {Holding(t) : t \in Active}
           new == {s} \X (1..k)
<1>1. k \in Nat
  BY DEF Jobs, Copies
<1>2. (UNION {Holding(t) : t \in Active})' \subseteq old \cup new
  <2>1. \A t \in Active' \ {s} : t \in Active /\ Holding(t)' = Holding(t)
    BY <1>a DEF Active, Holding, SlotsType
  <2>2. Holding(s)' = new
    BY <1>a DEF Holding, SlotsType
  <2> QED BY <2>1, <2>2
<1>3. IsFiniteSet(old) /\ Cardinality(old) \in Nat
  BY <1>a, StagedType, FS_CardinalityType
<1>4. IsFiniteSet(new) /\ Cardinality(new) = k
  <2>1. IsFiniteSet({s}) /\ Cardinality({s}) = 1
    BY FS_Singleton
  <2>2. IsFiniteSet(1..k) /\ Cardinality(1..k) = k
    BY <1>1, FS_Interval
  <2> HIDE DEF k
  <2> QED BY <1>1, <2>1, <2>2, FS_Product
<1>5. IsFiniteSet(old \cup new) /\ Cardinality(old \cup new) <= Cardinality(old) + k
  <2>1. /\ IsFiniteSet(old \cup new)
        /\ Cardinality(old \cup new)
             = Cardinality(old) + Cardinality(new) - Cardinality(old \cap new)
    BY <1>3, <1>4, FS_Union
  <2>2. Cardinality(old \cap new) \in Nat
    BY <1>3, FS_Subset, FS_CardinalityType
  <2> HIDE DEF old, new, k
  <2> QED BY <2>1, <2>2, <1>1, <1>3, <1>4
<1>6. /\ Cardinality((UNION {Holding(t) : t \in Active})') \in Nat
      /\ Cardinality((UNION {Holding(t) : t \in Active})') <= Cardinality(old \cup new)
  BY <1>2, <1>5, FS_Subset, FS_CardinalityType
<1>7. Cardinality(old \cup new) \in Nat
  BY <1>5, FS_CardinalityType
<1> HIDE DEF old, new
<1> QED BY <1>1, <1>3, <1>5, <1>6, <1>7 DEF Staged, old

-----------------------------------------------------------------------------
(* The allowance. *)

\* At the start nothing is staged.
LEMMA StagingInit == Init => StagingInv
<1> SUFFICES ASSUME Init PROVE StagingInv
  OBVIOUS
<1>1. Active = {}
  BY DEF Init, Active
<1>2. Staged = 0
  BY <1>1, StagedNone
<1> QED BY <1>2, SizesAssumption DEF Init, StagingInv, Allowance, InFile, Awaiting, FilePcs, AwaitPcs

\* Every step keeps the copies within the allowance: admission leaves the room
\* that source_limit hands to the copy, and only an answer takes a job away.
LEMMA StagingStep ==
    ASSUME TypeOK, StagingInv, [Next]_vars
    PROVE  StagingInv'
<1> USE SizesAssumption DEF Allowance
<1> USE DEF StagingInv, InFile, Sized, Awaiting, FilePcs, AwaitPcs, native
<1>a. PlaceType /\ FileType /\ HeldType /\ SlotsType /\ EndsType
  BY DEF TypeOK
<1>b. UNCHANGED pool => Staged' = Staged /\ Active' = Active
  BY DEF Staged, Active, Holding
<1>c. Staged \in Nat
  BY <1>a, StagedType
<1>1. CASE Interrupt
  BY <1>a, <1>b, <1>1 DEF Interrupt
<1>2. ASSUME NEW p \in Paths, ListEntry(p) PROVE StagingInv'
  BY <1>a, <1>b, <1>2 DEF ListEntry
<1>3. ASSUME NEW p \in Paths, ListDirectory(p) PROVE StagingInv'
  BY <1>a, <1>b, <1>3 DEF ListDirectory
<1>4. CASE ListingFails
  BY <1>a, <1>b, <1>4 DEF ListingFails
<1>5. CASE DiscoveryEnds
  BY <1>a, <1>b, <1>5 DEF DiscoveryEnds
<1>6. CASE TakeFile
  BY <1>a, <1>b, <1>6 DEF TakeFile, NotOpened
<1>7. CASE Drain
  <2>1. Staged' \in Nat /\ Staged' <= Staged
    BY <1>b, <1>c, <1>7, StagedPoll DEF Drain
  <2>2. cur' = cur /\ pc = "drain" /\ pc' \in {"finish", "open"} /\ (pc' = "finish" => ret' = "drain")
    BY <1>7 DEF Drain
  <2> QED BY <2>1, <2>2, <1>a, <1>c DEF FileType, FilesInHand, Opened
<1>8. CASE WaitOne
  <2>1. Staged' \in Nat /\ Staged' <= Staged
    BY <1>8, StagedPoll DEF WaitOne
  <2>2. cur' = cur /\ pc = "wait" /\ pc' = "finish" /\ ret' = ret
    BY <1>8 DEF WaitOne
  <2> QED BY <2>1, <2>2, <1>a, <1>c DEF FileType, FilesInHand, Opened
<1>9. CASE Finish
  BY <1>a, <1>b, <1>9 DEF Finish
<1>10. CASE Settle
  <2>1. pc' = ret /\ ret \in {"drain", "admit", "dedup", "final"} /\ pc = "settle"
    BY <1>a, <1>10 DEF Settle, PlaceType
  <2> QED BY <2>1, <1>b, <1>10 DEF Settle
<1>11. CASE FilesEnd
  BY <1>a, <1>b, <1>11 DEF FilesEnd
<1>12. CASE AwaitWorkers
  BY <1>a, <1>b, <1>12 DEF AwaitWorkers
<1>13. CASE FileFails
  BY <1>a, <1>b, <1>13 DEF FileFails, NextFile
<1>14. CASE Open
  BY <1>a, <1>b, <1>14 DEF Open, NextFile, FileType, FilesInHand, Opened
<1>15. CASE Sniff
  BY <1>a, <1>b, <1>15 DEF Sniff, FileType, FilesInHand, Opened
<1>16. CASE Admit
  <2>1. cur' = cur /\ pool' = pool /\ pc = "admit"
    BY <1>16 DEF Admit
  <2>2. CASE MustWait /\ pc' = "wait" /\ ret' = "admit"
    BY <2>1, <2>2, <1>b
  <2>3. CASE ~MustWait /\ pc' = "stage"
    BY <2>1, <2>3, <1>b DEF MustWait
  <2> QED BY <2>2, <2>3, <1>16 DEF Admit
<1>17. CASE Stage
  <2>1. /\ pc = "stage" /\ pc' = "hash" /\ cur \in FilesInHand
        /\ cur.copy = <<>> /\ ~MustWait
    BY <1>a, <1>17 DEF Stage, FileType
  <2>2. /\ cur'.limit = SourceLimit /\ cur'.copy = cur.copy
        /\ cur'.staged => cur.size <= SourceLimit
    BY <2>1, <1>17, <1>c DEF Stage, FilesInHand, Opened, SourceLimit
  <2>3. cur'.staged => Staged + SourceLimit + Reserve <= Allowance
    <3>1. CASE StagingBytes > Staged + Reserve
      BY <3>1, <1>c DEF SourceLimit
    <3>2. CASE ~(StagingBytes > Staged + Reserve) /\ Active # {}
      BY <3>2, <2>1, <2>2, <1>c DEF SourceLimit, MustWait, FilesInHand, Opened
    <3>3. CASE ~(StagingBytes > Staged + Reserve) /\ Active = {}
      BY <3>3, <1>c, StagedNone DEF SourceLimit
    <3> QED BY <3>1, <3>2, <3>3
  <2>4. SourceLimit \in Nat /\ Len(<<>>) = 0
    BY <1>c DEF SourceLimit
  <2> QED BY <2>1, <2>2, <2>3, <2>4, <1>b, <1>17 DEF Stage
<1>18. CASE Hash
  <2>1. cur \in FilesInHand /\ pool' = pool /\ pc = "hash" /\ pc' \in {"hash", "verify"}
    BY <1>a, <1>18 DEF Hash, FileType
  <2>2. CASE UNCHANGED cur
    BY <2>1, <2>2, <1>b
  <2>3. CASE ~UNCHANGED cur
    <3> DEFINE i == Len(cur.hashed) + 1
    <3>1. /\ i <= Len(cur.data) /\ cur'.limit = cur.limit
          /\ cur'.staged <=> cur.staged /\ i <= cur.limit
          /\ cur'.staged => cur'.copy = Append(cur.copy, cur.data[i])
      BY <2>1, <2>3, <1>18 DEF Hash, FilesInHand, Opened
    <3>2. Len(Append(cur.copy, cur.data[i])) = Len(cur.copy) + 1
      BY <2>1 DEF FilesInHand, Opened, Copies
    <3>3. Len(cur.copy) + 1 <= i
      BY <2>1 DEF FilesInHand, Opened, Copies
    <3>4. cur'.staged => Len(cur'.copy) <= cur'.limit
      BY <3>1, <3>2, <3>3, <2>1 DEF FilesInHand, Opened, Copies
    <3> QED BY <2>1, <3>1, <3>4, <1>b
  <2> QED BY <2>2, <2>3
<1>19. CASE Verify
  BY <1>a, <1>b, <1>19 DEF Verify, NextFile
<1>20. CASE Dedup
  BY <1>a, <1>b, <1>20 DEF Dedup
<1>21. CASE Lookup
  BY <1>a, <1>b, <1>21 DEF Lookup, FileType, FilesInHand, Opened
<1>22. CASE Reuse
  BY <1>a, <1>b, <1>22 DEF Reuse, NextFile
<1>23. CASE EncodeText
  BY <1>a, <1>b, <1>23 DEF EncodeText, FileType, FilesInHand, Opened
<1>24. CASE Judge
  BY <1>a, <1>b, <1>24 DEF Judge, NextFile
<1>25. CASE Submit
  <2>1. /\ cur \in FilesInHand /\ cur.fmt \in Formats /\ IsNative(cur.fmt) /\ cur.staged
        /\ pc' = "top" /\ pc = "submit"
    BY <1>a, <1>25 DEF Submit, FileType, Sniffed, ForNative, NextFile
  <2> DEFINE j == [copy |-> cur.copy, fmt |-> cur.fmt, answer |-> None]
  <2>2. j \in Jobs
    BY <2>1 DEF Jobs, FilesInHand, Opened
  <2>3. PICK s \in Slots \ Active : pool' = [pool EXCEPT ![s] = j]
    BY <1>25 DEF Submit
  <2>4. Staged' \in Nat /\ Staged' <= Staged + Len(j.copy) + Reserve
    <3> HIDE DEF j
    <3> QED BY <2>2, <2>3, StagedSubmit
  <2>5. Len(j.copy) = Len(cur.copy) /\ Len(cur.copy) \in Nat /\ cur.limit \in Nat
    BY <2>1 DEF FilesInHand, Opened, Copies
  <2> QED BY <2>1, <2>4, <2>5, <1>c
<1>26. CASE Assemble
  <2>1. Active' = {} /\ pc' = "cleanup"
    BY <1>26 DEF Assemble, Active
  <2>2. TypeOK'
    BY TypeStep
  <2>3. Staged' = 0
    <3>1. (UNION {Holding(s) : s \in Active})' = {}
      BY <2>1
    <3> QED BY <3>1, FS_EmptySet DEF Staged
  <2> QED BY <2>1, <2>3
<1>27. CASE Cleanup
  BY <1>a, <1>b, <1>27 DEF Cleanup
<1>28. ASSUME NEW s \in Slots, WorkerAnswers(s) PROVE StagingInv'
  <2>1. Active' = Active /\ Staged' = Staged
    BY <1>28, StagedAnswer
  <2>2. UNCHANGED <<pc, ret, cur>>
    BY <1>28 DEF WorkerAnswers
  <2> QED BY <2>1, <2>2 DEF MustWait
<1>29. ASSUME NEW p \in Paths, NEW c \in Contents, Overwrite(p, c) PROVE StagingInv'
  BY <1>a, <1>b, <1>29 DEF Overwrite, Edit, HoldsInode, InHand, FileType, FilesInHand, Opened, MustWait
<1>30. ASSUME NEW p \in Paths, NEW e \in Substitutes, Rename(p, e) PROVE StagingInv'
  BY <1>a, <1>b, <1>30 DEF Rename, Edit, HoldsInode, InHand, FileType, FilesInHand, Opened, MustWait
<1>31. CASE Cancel
  BY <1>a, <1>b, <1>31 DEF Cancel, MustWait
<1>32. CASE UNCHANGED vars
  BY <1>b, <1>32 DEF vars, MustWait
<1> QED
  BY <1>1, <1>2, <1>3, <1>4, <1>5, <1>6, <1>7, <1>8, <1>9, <1>10, <1>11, <1>12, <1>13, <1>14, <1>15, <1>16, <1>17, <1>18, <1>19, <1>20, <1>21, <1>22, <1>23, <1>24, <1>25, <1>26, <1>27, <1>28, <1>29, <1>30, <1>31, <1>32
     DEF Next, Coordinator, Environment, Returned

\* The allowance, or one reserve when it is smaller than that, is never exceeded
\* by the private copies and their reserves, however the sources grow while they
\* are copied.
THEOREM StagingAllowance == Spec => []StagingWithinAllowance
<1>1. Init => TypeOK /\ StagingInv
  BY TypeInit, StagingInit
<1>2. TypeOK /\ StagingInv /\ [Next]_vars => TypeOK' /\ StagingInv'
  BY TypeStep, StagingStep
<1>3. TypeOK /\ StagingInv => StagingWithinAllowance
  <2> SUFFICES ASSUME TypeOK, StagingInv PROVE StagingWithinAllowance
    OBVIOUS
  <2>1. Staged \in Nat
    BY StagedType DEF TypeOK
  <2>2. CASE InHand /\ cur.staged
    <3>1. InFile /\ cur \in FilesInHand
      BY <2>2 DEF TypeOK, FileType, InHand
    <3>2. Len(cur.copy) \in Nat /\ cur.limit \in Nat
      BY <3>1 DEF FilesInHand, Opened, Copies
    <3> QED BY <2>1, <2>2, <3>1, <3>2, SizesAssumption DEF StagingInv, StagingWithinAllowance, Allowance
  <2>3. CASE ~(InHand /\ cur.staged)
    BY <2>1, <2>3 DEF StagingInv, StagingWithinAllowance
  <2> QED BY <2>2, <2>3
<1> QED BY <1>1, <1>2, <1>3, PTL DEF Spec

-----------------------------------------------------------------------------
(* Edits. *)

\* Only Overwrite and Rename touch the directory.
LEMMA DiskSteps ==
    ASSUME [Next]_vars
    PROVE  \/ UNCHANGED <<disk, edits>>
           \/ \E p \in Paths, c \in Contents : Overwrite(p, c)
           \/ \E p \in Paths, e \in Substitutes : Rename(p, e)
<1> USE DEF world
<1>1. CASE Interrupt \/ ListingFails \/ DiscoveryEnds \/ TakeFile \/ Drain \/ WaitOne \/ Finish \/ Settle
  BY <1>1 DEF Interrupt, ListingFails, DiscoveryEnds, TakeFile, Drain, WaitOne, Finish, Settle
<1>2. CASE \/ \E p \in Paths : ListEntry(p)
           \/ \E p \in Paths : ListDirectory(p)
           \/ \E s \in Slots : WorkerAnswers(s)
  BY <1>2 DEF ListEntry, ListDirectory, WorkerAnswers
<1>3. CASE FilesEnd \/ AwaitWorkers \/ FileFails \/ Open \/ Sniff \/ Admit \/ Stage
  BY <1>3 DEF FilesEnd, AwaitWorkers, FileFails, Open, Sniff, Admit, Stage
<1>4. CASE Hash \/ Verify \/ Dedup \/ Lookup \/ Reuse \/ EncodeText \/ Judge \/ Submit
  BY <1>4 DEF Hash, Verify, Dedup, Lookup, Reuse, EncodeText, Judge, Submit
<1>5. CASE Assemble \/ Cleanup \/ Cancel \/ UNCHANGED vars
  BY <1>5 DEF Assemble, Cleanup, Cancel, vars
<1> QED
  BY <1>1, <1>2, <1>3, <1>4, <1>5 DEF Next, Coordinator, Environment, Returned

\* After an edit, a revision seen before is current only if the edit was made
\* elsewhere.
LEMMA EditOutdates ==
    ASSUME TypeOK, NEW p \in Paths,
           \/ \E c \in Contents : Overwrite(p, c)
           \/ \E e \in Substitutes : Rename(p, e),
           NEW q \in Paths, NEW r \in Int, r <= edits,
           disk'[q].kind = "file", disk'[q].rev = r
    PROVE  StillCurrent(q, r) /\ disk'[q] = disk[q] /\ q # p
<1>1. edits \in Nat /\ disk \in [Paths -> Entries]
  BY SizesAssumption DEF TypeOK, WorldType
<1>2. disk'[p].rev = edits + 1 /\ \A x \in Paths \ {p} : disk'[x] = disk[x]
  <2>1. CASE \E c \in Contents : Overwrite(p, c)
    BY <2>1, <1>1 DEF Overwrite, Edit
  <2>2. CASE \E e \in Substitutes : Rename(p, e)
    BY <2>2, <1>1 DEF Rename, Edit, Substitutes
  <2> QED BY <2>1, <2>2
<1> QED BY <1>1, <1>2 DEF StillCurrent

\* No revision is ahead of the edits at the start.
LEMMA RevisionsInit == Init => RevisionsInv
BY DataAssumption, SizesAssumption DEF Init, RevisionsInv, InFile, Awaiting, FilePcs, AwaitPcs

\* No step makes a revision that was seen ahead of the edits.
LEMMA RevisionsStep == TypeOK /\ RevisionsInv /\ [Next]_vars => RevisionsInv'
<1> SUFFICES ASSUME TypeOK, RevisionsInv, [Next]_vars PROVE RevisionsInv'
  OBVIOUS
<1> USE SizesAssumption, NoneAssumption
<1>a. WorldType /\ PlaceType /\ FileType /\ SlotsType
  BY DEF TypeOK
<1>b. TypeOK'
  BY TypeStep
<1>1. edits' \in Nat /\ edits <= edits' /\ \A p \in Paths : disk'[p].rev <= edits'
  <2>1. CASE UNCHANGED <<disk, edits>>
    BY <2>1, <1>a DEF RevisionsInv, WorldType
  <2>2. ASSUME NEW p \in Paths, NEW c \in Contents, Overwrite(p, c)
        PROVE  edits' \in Nat /\ edits <= edits' /\ \A q \in Paths : disk'[q].rev <= edits'
    BY <2>2, <1>a DEF Overwrite, Edit, RevisionsInv, WorldType, Entries
  <2>3. ASSUME NEW p \in Paths, NEW e \in Substitutes, Rename(p, e)
        PROVE  edits' \in Nat /\ edits <= edits' /\ \A q \in Paths : disk'[q].rev <= edits'
    BY <2>3, <1>a DEF Rename, Edit, RevisionsInv, WorldType, Entries, Substitutes
  <2> QED BY <2>1, <2>2, <2>3, DiskSteps
<1>2. InFile' => cur'.rev <= edits'
  <2> SUFFICES ASSUME InFile' PROVE cur'.rev <= edits'
    OBVIOUS
  <2>1. cur' \in FilesInHand
    BY <1>b DEF TypeOK, FileType
  <2>2. \/ InFile /\ cur \in FilesInHand /\ cur'.rev = cur.rev
        \/ cur'.rev = 0
        \/ cur.path \in Paths /\ cur'.rev = disk[cur.path].rev
    <3> USE DEF InFile, Awaiting, FilePcs, AwaitPcs
    <3>1. CASE Open
      BY <3>1, <1>a DEF Open, FileType, FilesInHand, Opened, NextFile
    <3>2. CASE TakeFile
      BY <3>2 DEF TakeFile, NotOpened
    <3>3. CASE Drain \/ WaitOne \/ Finish \/ Settle \/ AwaitWorkers \/ FilesEnd
      BY <3>3, <1>a DEF Drain, WaitOne, Finish, Settle, AwaitWorkers, FilesEnd, FileType, PlaceType
    <3>4. CASE FileFails \/ Verify \/ Reuse \/ Judge \/ Submit \/ Dedup \/ Admit
      BY <3>4, <1>a DEF FileFails, Verify, Reuse, Judge, Submit, Dedup, Admit, NextFile, FileType
    <3>5. CASE Sniff \/ Stage
      BY <3>5, <1>a DEF Sniff, Stage, FileType, FilesInHand, Opened
    <3>6. CASE Hash \/ Lookup \/ EncodeText
      BY <3>6, <1>a DEF Hash, Lookup, EncodeText, FileType, FilesInHand, Opened
    <3>7. CASE Interrupt \/ ListingFails \/ DiscoveryEnds \/ Assemble \/ Cleanup
      BY <3>7 DEF Interrupt, ListingFails, DiscoveryEnds, Assemble, Cleanup
    <3>8. CASE \/ \E p \in Paths : ListEntry(p)
               \/ \E p \in Paths : ListDirectory(p)
               \/ \E s \in Slots : WorkerAnswers(s)
               \/ Cancel \/ UNCHANGED vars
      BY <3>8, <1>a DEF ListEntry, ListDirectory, WorkerAnswers, Cancel, vars, FileType
    <3>9. ASSUME NEW p \in Paths, NEW c \in Contents, Overwrite(p, c)
          PROVE  InFile /\ cur \in FilesInHand /\ cur'.rev = cur.rev
      BY <3>9, <1>a DEF Overwrite, Edit, FileType, FilesInHand, Opened
    <3>10. ASSUME NEW p \in Paths, NEW e \in Substitutes, Rename(p, e)
           PROVE  InFile /\ cur \in FilesInHand /\ cur'.rev = cur.rev
      BY <3>10, <1>a DEF Rename, Edit, FileType, FilesInHand, Opened
    <3> QED
      BY <3>1, <3>2, <3>3, <3>4, <3>5, <3>6, <3>7, <3>8, <3>9, <3>10
         DEF Next, Coordinator, Environment, Returned
  <2>3. disk \in [Paths -> Entries] /\ edits \in Nat
    BY <1>a DEF WorldType
  <2>4. \A p \in Paths : disk[p].rev \in Nat
    BY <2>3 DEF Entries
  <2> QED BY <1>1, <2>1, <2>2, <2>3, <2>4 DEF RevisionsInv, FilesInHand, Opened
<1>3. \A s \in Slots : pending'[s] # None => pending'[s].rev <= edits'
  <2>1. ASSUME NEW s \in Slots, pending'[s] # None, pending'[s] # pending[s]
        PROVE  InFile /\ pending'[s].rev = cur.rev
    <3>1. CASE Submit
      BY <2>1, <3>1, <1>a DEF Submit, SlotsType, Context, InFile, FilePcs
    <3>2. CASE Settle \/ Assemble
      BY <2>1, <3>2, <1>a DEF Settle, Assemble, SlotsType
    <3>3. CASE UNCHANGED pending
      BY <2>1, <3>3
    <3> QED BY <3>1, <3>2, <3>3, JobSteps DEF Drain, WaitOne, Interrupt, WorkerAnswers, native
  <2>2. InFile => cur.rev \in Nat
    BY <1>a DEF FileType, FilesInHand, Opened
  <2>3. \A s \in Slots : pending[s] # None => pending[s].rev \in Nat
    BY <1>a DEF SlotsType, Contexts
  <2> QED BY <1>1, <2>1, <2>2, <2>3, <1>a DEF RevisionsInv, WorldType
<1> QED BY <1>1, <1>2, <1>3 DEF RevisionsInv

-----------------------------------------------------------------------------
(* Reading. *)

\* A prefix grown by the next element is a prefix.
LEMMA PrefixGrows ==
    ASSUME NEW s \in Seq(Chunks), NEW u \in Seq(Chunks), PrefixOf(s, u),
           Len(s) + 1 <= Len(u)
    PROVE  PrefixOf(Append(s, u[Len(s) + 1]), u)
<1> DEFINE w == Append(s, u[Len(s) + 1])
<1>1. Len(w) = Len(s) + 1 /\ \A i \in 1..Len(s) : w[i] = s[i]
  OBVIOUS
<1>2. w[Len(s) + 1] = u[Len(s) + 1]
  OBVIOUS
<1> HIDE DEF w
<1> QED BY <1>1, <1>2 DEF PrefixOf

\* A prefix as long as its sequence is that sequence.
LEMMA PrefixWhole ==
    ASSUME NEW s \in Seq(Chunks), NEW u \in Seq(Chunks), PrefixOf(s, u),
           ~(Len(s) + 1 <= Len(u))
    PROVE  s = u
BY DEF PrefixOf

\* The empty sequence is a prefix.
LEMMA PrefixEmpty == \A u \in Seq(Chunks) : PrefixOf(<<>>, u)
BY DEF PrefixOf

\* No file is in hand at the start.
LEMMA ReadingInit == Init => ReadingInv
BY DEF Init, ReadingInv, InFile, Awaiting, FilePcs, AwaitPcs

\* What has been read of the file in hand stays what the invariant says of it.
LEMMA ReadingStep ==
    ASSUME TypeOK, RevisionsInv, ReadingInv, [Next]_vars
    PROVE  ReadingInv'
<1> USE DEF ReadingInv, InFile, IsOpen, Sized, Sniffed, HashDone, Awaiting, FilePcs, AwaitPcs
<1>a. PlaceType /\ FileType /\ WorldType
  BY DEF TypeOK
<1>b. UNCHANGED <<disk, cur>> => (StillCurrent(cur.path, cur.rev)' <=> StillCurrent(cur.path, cur.rev))
  BY DEF StillCurrent
<1>1. CASE Interrupt
  BY <1>a, <1>b, <1>1 DEF Interrupt, world
<1>2. ASSUME NEW p \in Paths, ListEntry(p) PROVE ReadingInv'
  BY <1>a, <1>b, <1>2 DEF ListEntry, world
<1>3. ASSUME NEW p \in Paths, ListDirectory(p) PROVE ReadingInv'
  BY <1>a, <1>b, <1>3 DEF ListDirectory, world
<1>4. CASE ListingFails
  BY <1>a, <1>b, <1>4 DEF ListingFails, world
<1>5. CASE DiscoveryEnds
  BY <1>a, <1>b, <1>5 DEF DiscoveryEnds, world
<1>6. CASE TakeFile
  BY <1>6, <1>a DEF TakeFile, NotOpened
<1>7. CASE Drain
  <2>1. /\ UNCHANGED <<disk, cur>> /\ pc = "drain"
        /\ pc' \in {"finish", "open"} /\ (pc' = "finish" => ret' = "drain")
    BY <1>7 DEF Drain, world
  <2> QED BY <2>1
<1>8. CASE WaitOne
  BY <1>a, <1>b, <1>8 DEF WaitOne, world
<1>9. CASE Finish
  BY <1>a, <1>b, <1>9 DEF Finish, world
<1>10. CASE Settle
  <2>1. /\ UNCHANGED <<disk, cur>> /\ pc' = ret /\ ret' = ret /\ pc = "settle"
        /\ ret \in {"drain", "admit", "dedup", "final"}
    BY <1>a, <1>10 DEF Settle, PlaceType, world
  <2> QED BY <2>1, <1>b
<1>11. CASE FilesEnd
  BY <1>a, <1>b, <1>11 DEF FilesEnd, world
<1>12. CASE AwaitWorkers
  BY <1>a, <1>b, <1>12 DEF AwaitWorkers, world
<1>13. CASE FileFails
  BY <1>a, <1>b, <1>13 DEF FileFails, NextFile, world
<1>14. CASE Open
  <2>1. CASE pc' = "sniff"
    <3>1. /\ cur \in FilesInHand /\ disk' = disk
          /\ cur' = [cur EXCEPT !.rev = disk[cur.path].rev, !.size = Len(disk[cur.path].data),
                                !.data = disk[cur.path].data, !.linked = TRUE]
          /\ cur.hashed = <<>> /\ ~cur.staged /\ cur.reread = <<>>
      BY <2>1, <1>a, <1>14 DEF Open, NextFile, FileType, world
    <3>2. disk[cur.path].data \in Seq(Chunks) /\ PrefixOf(<<>>, disk[cur.path].data)
      BY <3>1, <1>a, PrefixEmpty DEF WorldType, Entries, FilesInHand, Opened
    <3>3. /\ cur'.data = disk[cur.path].data /\ cur'.path = cur.path /\ cur'.hashed = <<>>
          /\ ~cur'.staged /\ cur'.reread = <<>>
      BY <3>1 DEF FilesInHand, Opened
    <3> QED BY <2>1, <3>1, <3>2, <3>3
  <2>2. CASE pc' = "top"
    BY <2>2
  <2> QED BY <2>1, <2>2, <1>14 DEF Open, NextFile
<1>15. CASE Sniff
  <2>1. /\ cur \in FilesInHand /\ disk' = disk /\ pc = "sniff" /\ pc' \in {"admit", "hash"}
        /\ cur' = [cur EXCEPT !.fmt = DetectFormat(cur.path, cur.data)]
    BY <1>a, <1>15 DEF Sniff, FileType, world
  <2>2. /\ cur'.data = cur.data /\ cur'.path = cur.path /\ cur'.rev = cur.rev
        /\ cur'.hashed = cur.hashed /\ cur'.staged = cur.staged /\ cur'.reread = cur.reread
        /\ cur'.copy = cur.copy /\ cur'.fmt = DetectFormat(cur.path, cur.data)
    BY <2>1 DEF FilesInHand, Opened
  <2> QED BY <2>1, <2>2 DEF StillCurrent
<1>16. CASE Admit
  BY <1>a, <1>b, <1>16 DEF Admit, world
<1>17. CASE Stage
  <2>1. /\ cur \in FilesInHand /\ disk' = disk /\ pc = "stage" /\ pc' = "hash"
        /\ cur.copy = <<>> /\ cur.hashed = <<>>
    <3>1. cur \in FilesInHand /\ cur.hashed = <<>> /\ Len(cur.copy) <= Len(cur.hashed)
      BY <1>a, <1>17 DEF Stage, FileType, FilesInHand
    <3>2. cur.copy = <<>>
      BY <3>1 DEF FilesInHand, Opened, Copies
    <3> QED BY <3>1, <3>2, <1>17 DEF Stage, world
  <2>2. /\ cur'.data = cur.data /\ cur'.path = cur.path /\ cur'.rev = cur.rev
        /\ cur'.hashed = cur.hashed /\ cur'.reread = cur.reread
        /\ cur'.copy = cur.copy /\ cur'.fmt = cur.fmt
    BY <2>1, <1>17 DEF Stage, FilesInHand, Opened
  <2> QED BY <2>1, <2>2 DEF StillCurrent
<1>18. CASE Hash
  <2>1. cur \in FilesInHand /\ disk' = disk /\ pc = "hash"
    BY <1>a, <1>18 DEF Hash, FileType, world
  <2>2. CASE UNCHANGED cur
    <3>1. pc' = "verify" /\ ~(Len(cur.hashed) + 1 <= Len(cur.data))
      <4>1. CASE Len(cur.hashed) + 1 <= Len(cur.data)
        <5>1. cur'.hashed = Append(cur.hashed, cur.data[Len(cur.hashed) + 1])
          <6> DEFINE i == Len(cur.hashed) + 1
                     fits == cur.staged /\ i <= cur.limit
                     ov == cur.overflow \/ (cur.staged /\ ~fits)
                     cp == IF fits THEN Append(cur.copy, cur.data[i]) ELSE <<>>
          <6>1. i <= Len(cur.data) /\ ~(i > Len(cur.data))
            BY <4>1, <2>1 DEF FilesInHand, Opened
          <6>2. cur' = [cur EXCEPT !.hashed = Append(cur.hashed, cur.data[i]), !.staged = fits,
                                   !.overflow = ov, !.copy = cp]
            BY <6>1, <2>1, <1>18 DEF Hash, FilesInHand, Opened
          <6> HIDE DEF fits, ov, cp
          <6> QED BY <6>2, <2>1 DEF FilesInHand, Opened
        <5> QED BY <5>1, <2>1, <2>2 DEF FilesInHand, Opened
      <4>2. CASE ~(Len(cur.hashed) + 1 <= Len(cur.data))
        BY <4>2, <2>1, <1>18 DEF Hash, FilesInHand, Opened
      <4> QED BY <4>1, <4>2
    <3>2. PrefixOf(cur.hashed, cur.data) => cur.hashed = cur.data
      BY <2>1, <3>1, PrefixWhole DEF FilesInHand, Opened
    <3> QED BY <2>1, <2>2, <3>1, <3>2, <1>b
  <2>3. CASE ~UNCHANGED cur
    <3> DEFINE next == cur.data[Len(cur.hashed) + 1]
    <3>1. /\ pc' = "hash" /\ Len(cur.hashed) + 1 <= Len(cur.data)
          /\ cur'.hashed = Append(cur.hashed, next)
          /\ cur'.staged => cur.staged /\ cur'.copy = Append(cur.copy, next)
          /\ cur'.data = cur.data /\ cur'.path = cur.path /\ cur'.rev = cur.rev
          /\ cur'.reread = cur.reread /\ cur'.fmt = cur.fmt
      BY <2>1, <2>3, <1>18 DEF Hash, FilesInHand, Opened
    <3>2. PrefixOf(cur.hashed, cur.data) => PrefixOf(Append(cur.hashed, next), cur.data)
      BY <2>1, <3>1, PrefixGrows DEF FilesInHand, Opened
    <3> HIDE DEF next
    <3> QED BY <2>1, <3>1, <3>2 DEF StillCurrent
  <2> QED BY <2>2, <2>3
<1>19. CASE Verify
  BY <1>a, <1>b, <1>19 DEF Verify, NextFile, world
<1>20. CASE Dedup
  BY <1>a, <1>b, <1>20 DEF Dedup, world
<1>21. CASE Lookup
  <2>1. /\ cur \in FilesInHand /\ disk' = disk /\ pc = "lookup"
        /\ pc' \in {"reuse", "text", "judge", "submit"}
        /\ cur' = cur \/ \E e \in Errors : pc' = "judge" /\ cur' = [cur EXCEPT !.verdict = Bad(e)]
        /\ pc' = "judge" => \E e \in Errors : cur' = [cur EXCEPT !.verdict = Bad(e)]
        /\ pc' = "text" => cur' = cur /\ cur.fmt = "utf8"
    BY <1>a, <1>21 DEF Lookup, FileType, world, Errors
  <2>2. CASE pc' # "judge"
    <3>1. cur' = cur
      BY <2>1, <2>2
    <3> QED BY <2>1, <2>2, <3>1, <1>b
  <2>3. ASSUME NEW e \in Errors, pc' = "judge", cur' = [cur EXCEPT !.verdict = Bad(e)]
        PROVE  ReadingInv'
    <3>1. /\ cur'.hashed = cur.hashed /\ cur'.staged = cur.staged /\ cur'.copy = cur.copy
          /\ cur'.reread = cur.reread /\ cur'.fmt = cur.fmt /\ cur'.data = cur.data
          /\ cur'.path = cur.path /\ cur'.rev = cur.rev /\ cur'.verdict = Bad(e)
      BY <2>1, <2>3 DEF FilesInHand, Opened
    <3>2. Bad(e).error # None
      BY NoneAssumption DEF Bad
    <3> QED BY <2>1, <2>3, <3>1, <3>2 DEF StillCurrent, Sound
  <2> QED BY <2>1, <2>2, <2>3
<1>22. CASE Reuse
  BY <1>a, <1>b, <1>22 DEF Reuse, NextFile, world
<1>23. CASE EncodeText
  <2>1. cur \in FilesInHand /\ disk' = disk /\ pc = "text" /\ cur.fmt = "utf8"
    BY <1>a, <1>23 DEF EncodeText, FileType, world
  <2> DEFINE next == cur.data[Len(cur.reread) + 1]
  <2>2. CASE /\ pc' = "text" /\ Len(cur.reread) + 1 <= Len(cur.data)
             /\ cur' = [cur EXCEPT !.reread = Append(@, next)]
    <3>1. /\ cur'.hashed = cur.hashed /\ cur'.staged = cur.staged /\ cur'.copy = cur.copy
          /\ cur'.reread = Append(cur.reread, next) /\ cur'.fmt = cur.fmt /\ cur'.data = cur.data
          /\ cur'.path = cur.path /\ cur'.rev = cur.rev
      BY <2>1, <2>2 DEF FilesInHand, Opened
    <3>2. PrefixOf(cur.reread, cur.data) => PrefixOf(Append(cur.reread, next), cur.data)
      BY <2>1, <2>2, PrefixGrows DEF FilesInHand, Opened
    <3> HIDE DEF next
    <3> QED BY <2>1, <2>2, <3>1, <3>2 DEF StillCurrent
  <2>3. ASSUME NEW v, pc' = "judge", cur' = [cur EXCEPT !.verdict = v],
               PrefixOf(cur.reread, cur.data) /\ cur.hashed = cur.data
                 /\ cur.fmt = DetectFormat(cur.path, cur.data)
               => Sound(v, cur.path, cur.hashed)
        PROVE  ReadingInv'
    <3>1. /\ cur'.hashed = cur.hashed /\ cur'.staged = cur.staged /\ cur'.copy = cur.copy
          /\ cur'.reread = cur.reread /\ cur'.fmt = cur.fmt /\ cur'.data = cur.data
          /\ cur'.path = cur.path /\ cur'.rev = cur.rev /\ cur'.verdict = v
      BY <2>1, <2>3 DEF FilesInHand, Opened
    <3> QED BY <2>1, <2>3, <3>1 DEF StillCurrent
  <2>4. ASSUME NEW e \in Errors
        PROVE  Sound(Bad(e), cur.path, cur.hashed)
    BY NoneAssumption DEF Bad, Sound
  <2>5. ASSUME ~(Len(cur.reread) + 1 <= Len(cur.data)), PrefixOf(cur.reread, cur.data),
               cur.hashed = cur.data, cur.fmt = DetectFormat(cur.path, cur.data)
        PROVE  Sound(Good("text", cur.reread), cur.path, cur.hashed)
    <3>1. cur.reread = cur.hashed
      BY <2>1, <2>5, PrefixWhole DEF FilesInHand, Opened
    <3>2. "text" \in Families("utf8")
      <4>1. Candidates("utf8") = <<"text">>
        BY DEF Candidates, Media, Family
      <4> QED BY <4>1 DEF Families
    <3> QED BY <2>1, <2>5, <3>1, <3>2 DEF Sound, Good
  <2>6. "InsufficientContent" \in Errors /\ "IoError" \in Errors /\ "InvalidText" \in Errors
    BY DEF Errors
  <2>7. \/ /\ pc' = "text" /\ Len(cur.reread) + 1 <= Len(cur.data)
           /\ cur' = [cur EXCEPT !.reread = Append(@, next)]
        \/ /\ ~(Len(cur.reread) + 1 <= Len(cur.data)) /\ pc' = "judge"
           /\ cur' = [cur EXCEPT !.verdict = Good("text", cur.reread)]
        \/ \E e \in Errors : pc' = "judge" /\ cur' = [cur EXCEPT !.verdict = Bad(e)]
    <3>1. Len(cur.reread) \in Nat /\ Len(cur.data) \in Nat
      BY <2>1 DEF FilesInHand, Opened
    <3> QED BY <2>1, <2>6, <3>1, <1>23 DEF EncodeText
  <2> HIDE DEF next
  <2>8. CASE ~(Len(cur.reread) + 1 <= Len(cur.data)) /\ pc' = "judge"
             /\ cur' = [cur EXCEPT !.verdict = Good("text", cur.reread)]
    BY <2>3, <2>5, <2>8
  <2>9. CASE \E e \in Errors : pc' = "judge" /\ cur' = [cur EXCEPT !.verdict = Bad(e)]
    BY <2>3, <2>4, <2>9
  <2> QED BY <2>2, <2>7, <2>8, <2>9
<1>24. CASE Judge
  BY <1>a, <1>b, <1>24 DEF Judge, NextFile, world
<1>25. CASE Submit
  BY <1>a, <1>b, <1>25 DEF Submit, NextFile, world
<1>26. CASE Assemble
  BY <1>a, <1>b, <1>26 DEF Assemble, world
<1>27. CASE Cleanup
  BY <1>a, <1>b, <1>27 DEF Cleanup, world
<1>28. ASSUME NEW s \in Slots, WorkerAnswers(s) PROVE ReadingInv'
  BY <1>a, <1>b, <1>28 DEF WorkerAnswers, world
<1>29. ASSUME NEW p \in Paths, NEW c \in Contents, Overwrite(p, c) PROVE ReadingInv'
  <2>1. CASE ~InFile
    BY <2>1, <1>a, <1>29 DEF Overwrite, Edit, HoldsInode, InHand, FileType
  <2>2. CASE InFile
    <3>1. /\ cur \in FilesInHand /\ cur'.path = cur.path /\ cur'.rev = cur.rev
          /\ cur'.hashed = cur.hashed /\ cur'.staged = cur.staged /\ cur'.copy = cur.copy
          /\ cur'.reread = cur.reread /\ cur'.fmt = cur.fmt /\ cur'.verdict = cur.verdict
          /\ (cur.path # p => cur' = cur) /\ UNCHANGED <<pc, ret>>
      BY <2>2, <1>a, <1>29 DEF Overwrite, Edit, HoldsInode, InHand, FileType, FilesInHand, Opened
    <3>2. cur.path \in Paths /\ cur.rev \in Int /\ cur.rev <= edits
      BY <2>2, <3>1 DEF FilesInHand, Opened, RevisionsInv
    <3>3. StillCurrent(cur.path, cur.rev)' =>
             StillCurrent(cur.path, cur.rev) /\ disk'[cur.path] = disk[cur.path] /\ cur' = cur
      <4>1. StillCurrent(cur.path, cur.rev)' =>
              StillCurrent(cur.path, cur.rev) /\ disk'[cur.path] = disk[cur.path] /\ cur.path # p
        <5> DEFINE q == cur.path
                   r == cur.rev
        <5>1. disk'[q].kind = "file" /\ disk'[q].rev = r =>
                StillCurrent(q, r) /\ disk'[q] = disk[q] /\ q # p
          BY <3>2, <1>29, EditOutdates
        <5> QED BY <5>1, <3>1 DEF StillCurrent
      <4> QED BY <4>1, <3>1
    <3> QED BY <2>2, <3>1, <3>3
  <2> QED BY <2>1, <2>2
<1>30. ASSUME NEW p \in Paths, NEW e \in Substitutes, Rename(p, e) PROVE ReadingInv'
  <2>1. CASE ~InFile
    BY <2>1, <1>a, <1>30 DEF Rename, Edit, HoldsInode, InHand, FileType
  <2>2. CASE InFile
    <3>1. /\ cur \in FilesInHand /\ cur'.path = cur.path /\ cur'.rev = cur.rev
          /\ cur'.hashed = cur.hashed /\ cur'.staged = cur.staged /\ cur'.copy = cur.copy
          /\ cur'.reread = cur.reread /\ cur'.fmt = cur.fmt /\ cur'.verdict = cur.verdict
          /\ (cur.path # p => cur' = cur) /\ UNCHANGED <<pc, ret>>
      BY <2>2, <1>a, <1>30 DEF Rename, Edit, HoldsInode, InHand, FileType, FilesInHand, Opened
    <3>2. cur.path \in Paths /\ cur.rev \in Int /\ cur.rev <= edits
      BY <2>2, <3>1 DEF FilesInHand, Opened, RevisionsInv
    <3>3. StillCurrent(cur.path, cur.rev)' =>
             StillCurrent(cur.path, cur.rev) /\ disk'[cur.path] = disk[cur.path] /\ cur' = cur
      <4>1. StillCurrent(cur.path, cur.rev)' =>
              StillCurrent(cur.path, cur.rev) /\ disk'[cur.path] = disk[cur.path] /\ cur.path # p
        <5> DEFINE q == cur.path
                   r == cur.rev
        <5>1. disk'[q].kind = "file" /\ disk'[q].rev = r =>
                StillCurrent(q, r) /\ disk'[q] = disk[q] /\ q # p
          BY <3>2, <1>30, EditOutdates
        <5> QED BY <5>1, <3>1 DEF StillCurrent
      <4> QED BY <4>1, <3>1
    <3> QED BY <2>2, <3>1, <3>3
  <2> QED BY <2>1, <2>2
<1>31. CASE Cancel
  BY <1>a, <1>b, <1>31 DEF Cancel, world
<1>32. CASE UNCHANGED vars
  BY <1>b, <1>32 DEF vars, world
<1> QED
  BY <1>1, <1>2, <1>3, <1>4, <1>5, <1>6, <1>7, <1>8, <1>9, <1>10, <1>11, <1>12, <1>13, <1>14, <1>15, <1>16, <1>17, <1>18, <1>19, <1>20, <1>21, <1>22, <1>23, <1>24, <1>25, <1>26, <1>27, <1>28, <1>29, <1>30, <1>31, <1>32
     DEF Next, Coordinator, Environment, Returned
-----------------------------------------------------------------------------
(* Jobs. *)

\* A job's claims survive a step that leaves the job, its context and its
\* verdict alone, and its source alone while that is current.
LEMMA JobKeeps ==
    ASSUME NEW s \in Slots, JobOK(s), pending'[s] = pending[s], pool'[s] = pool[s],
           held' # None /\ held'[1] = s => held' = held,
           disk'[pending[s].path].kind = "file" /\ disk'[pending[s].path].rev = pending[s].rev =>
              /\ StillCurrent(pending[s].path, pending[s].rev)
              /\ disk'[pending[s].path] = disk[pending[s].path]
    PROVE  JobOK(s)'
BY DEF JobOK, StillCurrent

\* No job has been submitted at the start.
LEMMA JobsInit == Init => JobsInv
BY DEF Init, JobsInv

\* Polling turns a sound answer into a sound verdict.
LEMMA JobsPoll ==
    ASSUME TypeOK, SlotsInv, JobsInv, Running, held = None, Poll, UNCHANGED <<pending, disk>>,
           NEW s \in Slots, pending[s] # None
    PROVE  JobOK(s)'
<1>1. PICK t \in Ready : held' = <<t, pool[t].answer>> /\ pool' = [pool EXCEPT ![t] = None]
  BY DEF Poll
<1>2. /\ t \in Slots /\ pool[t] # None /\ pool[t].answer # None
      /\ pool \in [Slots -> Jobs \cup {None}]
  BY <1>1 DEF Ready, TypeOK, SlotsType
<1>3. JobOK(s)
  BY DEF JobsInv
<1>4. held'[1] = t /\ held'[2] = pool[t].answer
  BY <1>1
<1>5. CASE s # t
  BY <1>1, <1>2, <1>3, <1>4, <1>5, JobKeeps DEF StillCurrent
<1>6. CASE s = t
  <2>1. pool'[s] = None
    BY <1>1, <1>2, <1>6
  <2>2. StillCurrent(pending[s].path, pending[s].rev) =>
            Sound(pool[s].answer, pending[s].path, pending[s].record.id)
    BY <1>2, <1>3, <1>6 DEF JobOK, Sound
  <2> QED BY <1>3, <1>4, <1>6, <2>1, <2>2 DEF JobOK, StillCurrent
<1> QED BY <1>5, <1>6

\* What is submitted is the whole content, under its identifier.
LEMMA JobsSubmit ==
    ASSUME TypeOK, AdmissionInv, ReadingInv, JobsInv, Submit, NEW s \in Slots, pending'[s] # None
    PROVE  JobOK(s)'
<1>0. FileType /\ SlotsType /\ HeldType
  BY DEF TypeOK
<1>1. /\ cur \in FilesInHand /\ cur.fmt \in Formats /\ IsNative(cur.fmt) /\ cur.staged
      /\ held = None /\ UNCHANGED <<held, disk>> /\ pc = "submit"
  BY <1>0 DEF Submit, FileType, HeldType, InFile, Sniffed, ForNative, FilePcs, world
<1>2. PICK t \in Slots \ Active :
         /\ pool' = [pool EXCEPT ![t] = [copy |-> cur.copy, fmt |-> cur.fmt, answer |-> None]]
         /\ pending' = [pending EXCEPT ![t] = Context]
  BY DEF Submit
<1>3. CASE s # t
  <2>1. pending'[s] = pending[s] /\ pool'[s] = pool[s]
    BY <1>2, <1>3
  <2>2. JobOK(s)
    BY <2>1 DEF JobsInv
  <2> QED BY <1>1, <2>1, <2>2, JobKeeps DEF StillCurrent
<1>4. CASE s = t
  <2>1. /\ pending'[s] = Context
        /\ pool'[s] = [copy |-> cur.copy, fmt |-> cur.fmt, answer |-> None]
    BY <1>0, <1>2, <1>4 DEF SlotsType
  <2>2. /\ cur.copy = cur.hashed
        /\ StillCurrent(cur.path, cur.rev) =>
             cur.hashed = disk[cur.path].data /\ cur.fmt = DetectFormat(cur.path, cur.hashed)
    BY <1>1 DEF ReadingInv, InFile, IsOpen, HashDone, Sniffed, FilePcs
  <2>3. cur.hashed # None
    BY <1>1, NoneAssumption DEF FilesInHand, Opened
  <2> DEFINE f == IF Family[cur.fmt] = "unknown" THEN None ELSE Family[cur.fmt]
  <2>4. /\ Context.path = cur.path /\ Context.rev = cur.rev
        /\ Context.record = [Blank(cur.path) EXCEPT !.id = cur.hashed, !.family = f]
    BY DEF Context
  <2> HIDE DEF f
  <2>5. /\ Context.record.id = cur.hashed /\ Context.record.family = f
        /\ Context.record.path = cur.path
    BY <2>4 DEF Blank
  <2> QED BY <1>1, <2>1, <2>2, <2>3, <2>4, <2>5 DEF JobOK, StillCurrent
<1> QED BY <1>3, <1>4

\* A worker answers on its own copy, as a family of its format.
LEMMA JobsAnswer ==
    ASSUME TypeOK, JobsInv, NEW t \in Slots, WorkerAnswers(t), NEW s \in Slots, pending[s] # None
    PROVE  JobOK(s)'
<1>0. SlotsType /\ UNCHANGED <<pending, held, disk>> /\ pool[t] # None /\ JobOK(s)
  BY DEF TypeOK, WorkerAnswers, world, JobsInv
<1>1. PICK v : /\ v \in {Bad("WorkerFailed"), Bad("UnsupportedFormat")} \cup
                        {Good(Candidates(pool[t].fmt)[i], pool[t].copy) :
                           i \in DOMAIN Candidates(pool[t].fmt)}
               /\ pool' = [pool EXCEPT ![t].answer = v]
  BY DEF WorkerAnswers
<1>2. v.error = None => v.source = pool[t].copy /\ v.family \in Families(pool[t].fmt)
  BY <1>1, NoneAssumption DEF Bad, Good, Families, Errors
<1>3. CASE s # t
  BY <1>0, <1>1, <1>3, JobKeeps DEF StillCurrent, SlotsType
<1>4. CASE s = t
  <2>1. /\ pool'[s].copy = pool[s].copy /\ pool'[s].fmt = pool[s].fmt /\ pool'[s].answer = v
    BY <1>0, <1>1, <1>4 DEF SlotsType, Jobs
  <2> QED BY <1>0, <1>2, <1>4, <2>1 DEF JobOK, StillCurrent
<1> QED BY <1>3, <1>4

\* Jobs and verdicts stay what the invariant says of them, edits included.
LEMMA JobsStep ==
    ASSUME TypeOK, SlotsInv, AdmissionInv, RevisionsInv, ReadingInv, JobsInv, [Next]_vars
    PROVE  JobsInv'
<1> SUFFICES ASSUME NEW s \in Slots, pending'[s] # None PROVE JobOK(s)'
  BY DEF JobsInv
<1>0. /\ HeldType /\ SlotsType /\ EndsType
      /\ pending[s] # None => JobOK(s)
  BY DEF TypeOK, JobsInv
<1>1. CASE UNCHANGED native
  <2>1. pending[s] # None /\ JobOK(s) /\ UNCHANGED <<pool, pending, held>>
    BY <1>0, <1>1 DEF native
  <2>2. CASE UNCHANGED disk
    BY <2>1, <2>2, JobKeeps DEF StillCurrent
  <2>3. ASSUME NEW p \in Paths,
               (\E c \in Contents : Overwrite(p, c)) \/ (\E e \in Substitutes : Rename(p, e))
        PROVE  JobOK(s)'
    <3>1. pending[s].path \in Paths /\ pending[s].rev \in Int /\ pending[s].rev <= edits
      BY <1>0, <2>1 DEF SlotsType, Contexts, RevisionsInv
    <3>2. disk'[pending[s].path].kind = "file" /\ disk'[pending[s].path].rev = pending[s].rev =>
              /\ StillCurrent(pending[s].path, pending[s].rev)
              /\ disk'[pending[s].path] = disk[pending[s].path]
      BY <2>3, <3>1, EditOutdates
    <3> QED BY <2>1, <3>2, JobKeeps
  <2> QED BY <2>2, <2>3, DiskSteps
<1>2. CASE Drain
  <2>1. held = None /\ Running /\ UNCHANGED <<pending, disk>>
    BY <1>0, <1>2 DEF Drain, HeldType, EndsType, Ended, Running, world
  <2>2. CASE Poll
    BY <2>1, <2>2, JobsPoll
  <2>3. CASE UNCHANGED <<pool, held>>
    BY <2>1, <2>3, <1>1 DEF native
  <2> QED BY <1>2, <2>2, <2>3 DEF Drain
<1>3. CASE WaitOne
  BY <1>0, <1>3, JobsPoll DEF WaitOne, HeldType, EndsType, Ended, Running, world
<1>4. CASE Settle
  <2>1. UNCHANGED <<pool, disk>> /\ held' = None /\ pending' = [pending EXCEPT ![held[1]] = None]
    BY <1>4 DEF Settle, world
  <2>2. pending[s] # None /\ pending'[s] = pending[s]
    BY <1>0, <2>1 DEF SlotsType
  <2> QED BY <1>0, <2>1, <2>2, JobKeeps DEF StillCurrent
<1>5. CASE Submit
  BY <1>5, JobsSubmit
<1>6. CASE Interrupt
  <2>1. UNCHANGED <<pool, pending, disk>> /\ held' = None
    BY <1>6 DEF Interrupt, world
  <2> QED BY <1>0, <2>1, JobKeeps DEF StillCurrent
<1>7. CASE Assemble
  BY <1>7 DEF Assemble
<1>8. ASSUME NEW t \in Slots, WorkerAnswers(t) PROVE JobOK(s)'
  BY <1>8, JobsAnswer DEF WorkerAnswers
<1> QED BY <1>1, <1>2, <1>3, <1>4, <1>5, <1>6, <1>7, <1>8, JobSteps
-----------------------------------------------------------------------------
(* Records. *)

\* What a record must be when it is made.
Faithful(r) ==
    /\ r.id # None => disk[r.path].kind = "file" /\ disk[r.path].data = r.id
    /\ r.state = "ready" => /\ r.vector.of = r.id
                            /\ r.profile \in Families(DetectFormat(r.path, r.id))

\* A record refused before its file was read claims nothing.
LEMMA RefusedFaithful ==
    ASSUME NEW p, NEW st \in States \ {"ready"}, NEW e PROVE Faithful(Refused(p, st, e))
BY DEF Refused, Blank, Faithful

\* finish_record makes a faithful record of a sound verdict, whatever has become
\* of the source.
LEMMA SettledFaithful ==
    ASSUME NEW ctx \in Contexts, NEW v \in Verdicts,
           ctx.record = [Blank(ctx.path) EXCEPT !.id = ctx.record.id, !.family = ctx.record.family],
           StillCurrent(ctx.path, ctx.rev) =>
               ctx.record.id = disk[ctx.path].data /\ Sound(v, ctx.path, ctx.record.id)
    PROVE  Faithful(Settled(ctx, v))
<1> DEFINE r == Settled(ctx, v)
<1>0. ctx.record \in FileRecords /\ ctx.record.path = ctx.path /\ ctx.record.state = "failed"
  BY DEF Blank, Contexts
<1>1. CASE ~StillCurrent(ctx.path, ctx.rev)
  <2>1. r.id = None /\ r.state = "failed"
    BY <1>0, <1>1 DEF Settled, FileRecords
  <2> QED BY <2>1 DEF Faithful
<1>2. CASE StillCurrent(ctx.path, ctx.rev) /\ v.error = None
  <2>1. /\ r.path = ctx.path /\ r.id = ctx.record.id /\ r.profile = v.family
        /\ r.vector.of = v.source
    BY <1>0, <1>2 DEF Settled, FileRecords
  <2> QED BY <1>2, <2>1 DEF Faithful, Sound, StillCurrent
<1>3. CASE StillCurrent(ctx.path, ctx.rev) /\ v.error # None
  <2>1. r.path = ctx.path /\ r.id = ctx.record.id /\ r.state # "ready"
    BY <1>0, <1>3 DEF Settled, FileRecords
  <2> QED BY <1>3, <2>1 DEF Faithful, StillCurrent
<1> QED BY <1>1, <1>2, <1>3

\* The source context of the file in hand starts from a blank record.
LEMMA ContextBlank ==
    ASSUME cur \in FilesInHand, cur.fmt \in Formats
    PROVE  /\ Context.path = cur.path /\ Context.rev = cur.rev /\ Context.record.id = cur.hashed
           /\ Context.record = [Blank(Context.path) EXCEPT !.id = Context.record.id,
                                                          !.family = Context.record.family]
<1> DEFINE f == IF Family[cur.fmt] = "unknown" THEN None ELSE Family[cur.fmt]
<1>1. /\ Context.path = cur.path /\ Context.rev = cur.rev
      /\ Context.record = [Blank(cur.path) EXCEPT !.id = cur.hashed, !.family = f]
  BY DEF Context
<1> HIDE DEF f
<1> QED BY <1>1 DEF Blank

\* So it makes a faithful record of a verdict sound on what was hashed.
LEMMA ContextFaithful ==
    ASSUME TypeOK, ReadingInv, HashDone, InFile, Sniffed, NEW v \in Verdicts,
           StillCurrent(cur.path, cur.rev) => Sound(v, cur.path, cur.hashed)
    PROVE  Faithful(Settled(Context, v))
<1>1. cur \in FilesInHand /\ cur.fmt \in Formats
  BY DEF TypeOK, FileType
<1>2. Context \in Contexts
  BY <1>1, ContextType
<1>3. IsOpen
  BY DEF HashDone, IsOpen, FilePcs, AwaitPcs, Awaiting
<1>4. StillCurrent(cur.path, cur.rev) => cur.hashed = disk[cur.path].data
  BY <1>3 DEF ReadingInv
<1> QED BY <1>1, <1>2, <1>4, ContextBlank, SettledFaithful

\* An error is sound on any content.
LEMMA BadSound ==
    ASSUME NEW e \in Errors, NEW p, NEW id PROVE Sound(Bad(e), p, id)
BY NoneAssumption DEF Bad, Sound

\* Every record made is faithful.
LEMMA RecordsStep ==
    ASSUME TypeOK, SlotsInv, ReadingInv, JobsInv, CacheInv, [Next]_vars
    PROVE  \/ UNCHANGED <<cache, records>>
           \/ UNCHANGED disk /\ \E c \in Tallies, r \in FileRecords : Record(c, r) /\ Faithful(r)
<1> DEFINE Made == UNCHANGED disk /\ \E c \in Tallies, r \in FileRecords : Record(c, r) /\ Faithful(r)
<1> USE DEF report, world
<1>0. /\ FileType /\ SlotsType /\ HeldType /\ counts \in Tallies /\ Found \in Tallies
      /\ cache \subseteq FileRecords
  BY DEF TypeOK, ReportType, Found, Tallies
<1>1. CASE Interrupt \/ ListingFails \/ DiscoveryEnds \/ TakeFile \/ Drain \/ WaitOne \/ Finish
  BY <1>1 DEF Interrupt, ListingFails, DiscoveryEnds, TakeFile, Drain, WaitOne, Finish
<1>2. CASE FilesEnd \/ AwaitWorkers \/ Sniff \/ Admit \/ Stage \/ Hash
  BY <1>2 DEF FilesEnd, AwaitWorkers, Sniff, Admit, Stage, Hash
<1>3. CASE Dedup \/ Lookup \/ EncodeText \/ Submit \/ Assemble \/ Cleanup
  BY <1>3 DEF Dedup, Lookup, EncodeText, Submit, Assemble, Cleanup
<1>4. CASE Cancel \/ UNCHANGED vars \/ \E s \in Slots : WorkerAnswers(s)
  BY <1>4 DEF Cancel, vars, WorkerAnswers
<1>5. CASE \E p \in Paths : (\E c \in Contents : Overwrite(p, c)) \/ (\E e \in Substitutes : Rename(p, e))
  BY <1>5 DEF Overwrite, Rename, Edit
<1>6. ASSUME NEW p \in Paths, NEW st \in States \ {"ready"}, NEW e \in Errors, NEW c \in Tallies,
             Record(c, Refused(p, st, e)), UNCHANGED disk
      PROVE  Made
  BY <1>6, RefusedFaithful, RefusedType
<1>7. /\ {"failed", "skipped"} \subseteq States \ {"ready"}
      /\ {"IoError", "UnsupportedFormat", "SourceChanged"} \subseteq Errors
  BY DEF States, Errors
<1>8. ASSUME NEW p \in Paths, ListEntry(p) PROVE UNCHANGED <<cache, records>> \/ Made
  BY <1>0, <1>6, <1>7, <1>8 DEF ListEntry
<1>9. ASSUME NEW p \in Paths, ListDirectory(p) PROVE UNCHANGED <<cache, records>> \/ Made
  BY <1>0, <1>6, <1>7, <1>9 DEF ListDirectory
<1>10. CASE FileFails \/ Open
  <2>1. cur.path \in Paths /\ UNCHANGED disk
    BY <1>0, <1>10 DEF FileFails, Open, FileType, InFile, FilePcs, FilesInHand, Opened
  <2> QED BY <2>1, <1>0, <1>6, <1>7, <1>10 DEF FileFails, Open
<1>11. CASE Settle
  <2> DEFINE s == held[1]
             v == held[2]
  <2>1. s \in Slots /\ v \in Verdicts /\ held # None /\ UNCHANGED disk
    BY <1>0, <1>11, NoneAssumption DEF Settle, HeldType
  <2>2. pending[s] \in Contexts /\ pending[s] # None /\ Record(counts, Settled(pending[s], v))
    BY <1>0, <1>11, <2>1 DEF Settle, SlotsType
  <2>3. JobOK(s)
    BY <2>1, <2>2 DEF JobsInv
  <2>4. Faithful(Settled(pending[s], v))
    BY <2>1, <2>2, <2>3, SettledFaithful DEF JobOK
  <2>5. Settled(pending[s], v) \in FileRecords
    BY <2>1, <2>2, SettledType
  <2> QED BY <1>0, <2>1, <2>2, <2>4, <2>5
<1>12. ASSUME HashDone, InFile, Sniffed, UNCHANGED disk, NEW v \in Verdicts,
              StillCurrent(cur.path, cur.rev) => Sound(v, cur.path, cur.hashed),
              Record(counts, Settled(Context, v))
       PROVE  Made
  <2>1. Faithful(Settled(Context, v))
    BY <1>12, ContextFaithful
  <2>2. Settled(Context, v) \in FileRecords
    BY <1>0, <1>12, ContextType, SettledType DEF FileType
  <2> QED BY <1>0, <1>12, <2>1, <2>2
<1>13. Bad("SourceChanged") \in Verdicts /\ \A p, id : Sound(Bad("SourceChanged"), p, id)
  BY <1>7, VerdictType, BadSound
<1>14. CASE Verify
  <2>1. HashDone /\ InFile /\ Sniffed /\ UNCHANGED disk
    BY <1>14 DEF Verify, HashDone, InFile, Sniffed, FilePcs
  <2> QED BY <1>12, <1>13, <1>14, <2>1 DEF Verify
<1>15. CASE Judge
  <2>1. HashDone /\ InFile /\ Sniffed /\ IsOpen /\ UNCHANGED disk /\ cur.verdict \in Verdicts
    BY <1>0, <1>15 DEF Judge, HashDone, InFile, Sniffed, IsOpen, FilePcs, FileType
  <2>2. StillCurrent(cur.path, cur.rev) => Sound(cur.verdict, cur.path, cur.hashed)
    BY <1>15, <2>1 DEF Judge, ReadingInv
  <2> QED BY <1>12, <1>15, <2>1, <2>2 DEF Judge
<1>16. CASE Reuse
  <2>1. /\ HashDone /\ InFile /\ Sniffed /\ IsOpen /\ UNCHANGED disk
        /\ cur \in FilesInHand
    BY <1>0, <1>16 DEF Reuse, HashDone, InFile, Sniffed, IsOpen, FilePcs, FileType
  <2>2. ASSUME NEW h \in Hits, StillCurrent(cur.path, cur.rev),
               Record(counts, [h EXCEPT !.path = cur.path, !.reused = TRUE])
        PROVE  Made
    <3> DEFINE r == [h EXCEPT !.path = cur.path, !.reused = TRUE]
    <3>1. cur.hashed = disk[cur.path].data /\ cur.fmt = DetectFormat(cur.path, cur.hashed)
      BY <2>1, <2>2 DEF ReadingInv
    <3>2. h \in cache /\ h.id = cur.hashed /\ h.profile \in Families(cur.fmt)
      <4>1. Candidates(cur.fmt)[1] \in Families(cur.fmt)
        BY DEF Candidates, Families
      <4>2. Len(Candidates(cur.fmt)) = 2 => Candidates(cur.fmt)[2] \in Families(cur.fmt)
        BY DEF Candidates, Families
      <4>3. \E f \in Families(cur.fmt) : h \in CachedAs(f)
        BY <2>2, <4>1, <4>2 DEF Hits
      <4> QED BY <4>3 DEF CachedAs, Key
    <3>3. h \in FileRecords /\ h.vector.of = h.id
      BY <1>0, <3>2 DEF CacheInv
    <3>4. /\ r.path = cur.path /\ r.id = h.id /\ r.profile = h.profile /\ r.vector = h.vector
          /\ r \in FileRecords
      BY <2>1, <3>3 DEF FileRecords, FilesInHand, Opened
    <3>5. disk[cur.path].kind = "file"
      BY <2>2 DEF StillCurrent
    <3>6. Faithful(r)
      BY <3>1, <3>2, <3>3, <3>4, <3>5 DEF Faithful
    <3> QED BY <1>0, <2>1, <2>2, <3>4, <3>6
  <2> QED BY <1>12, <1>13, <1>16, <2>1, <2>2 DEF Reuse
<1> QED
  BY <1>1, <1>2, <1>3, <1>4, <1>5, <1>8, <1>9, <1>10, <1>11, <1>14, <1>15, <1>16
     DEF Next, Coordinator, Environment, Returned

\* A faithful record keeps the cache and the records faithful, and is the one
\* new record.
LEMMA RecordFaithful ==
    ASSUME TypeOK, CacheInv, VectorsMatchContent,
           NEW c \in Tallies, NEW r \in FileRecords, Record(c, r), Faithful(r)
    PROVE  CacheInv' /\ VectorsMatchContent' /\ NewRecords = {r}
<1>1. records \in Seq(FileRecords) /\ records' = Append(records, r)
  BY DEF TypeOK, ReportType, Record
<1>2. CacheInv'
  BY DEF CacheInv, Record, Faithful
<1>3. /\ DOMAIN records = 1..Len(records) /\ DOMAIN records' = 1..(Len(records) + 1)
      /\ Len(records) \in Nat /\ records'[Len(records) + 1] = r
      /\ \A i \in 1..Len(records) : records'[i] = records[i]
  BY <1>1
<1>4. VectorsMatchContent'
  BY <1>3 DEF VectorsMatchContent, Faithful
<1>5. NewRecords = {r}
  BY <1>3 DEF NewRecords
<1> QED BY <1>2, <1>4, <1>5

-----------------------------------------------------------------------------
(* The inductive invariant, and what follows from it. *)

ContentInv ==
    /\ TypeOK /\ SlotsInv /\ AdmissionInv /\ RevisionsInv /\ ReadingInv /\ JobsInv
    /\ CacheInv /\ VectorsMatchContent

\* It holds at the start: what may be reused was validated under its own key.
LEMMA ContentInit == Init => ContentInv
<1> SUFFICES ASSUME Init PROVE ContentInv
  OBVIOUS
<1>1. CacheInv
  BY DEF Init, CacheInv
<1>2. VectorsMatchContent
  BY DEF Init, VectorsMatchContent
<1> QED
  BY <1>1, <1>2, TypeInit, SlotsInit, AdmissionInit, RevisionsInit, ReadingInit, JobsInit
     DEF ContentInv

\* Every step preserves it.
LEMMA ContentStep == ContentInv /\ [Next]_vars => ContentInv'
<1> SUFFICES ASSUME ContentInv, [Next]_vars PROVE ContentInv'
  OBVIOUS
<1> USE DEF ContentInv
<1>1. TypeOK' /\ SlotsInv' /\ AdmissionInv' /\ RevisionsInv'
  BY TypeStep, SlotsStep, AdmissionStep, RevisionsStep
<1>2. ReadingInv' /\ JobsInv'
  BY ReadingStep, JobsStep
<1>3. CacheInv' /\ VectorsMatchContent'
  <2>1. CASE UNCHANGED <<cache, records>>
    BY <2>1 DEF CacheInv, VectorsMatchContent
  <2>2. ASSUME NEW c \in Tallies, NEW r \in FileRecords, Record(c, r), Faithful(r)
        PROVE  CacheInv' /\ VectorsMatchContent'
    BY <2>2, RecordFaithful
  <2> QED BY <2>1, <2>2, RecordsStep
<1> QED BY <1>1, <1>2, <1>3

\* The vector of every ready record was computed from the content its file_id
\* names, under a family that content's format allows at that path: however the
\* directory is edited while files are hashed, staged, queued and encoded, and
\* for any previous vector file.
THEOREM VectorsAreOfTheirContent == Spec => []VectorsMatchContent
<1>1. Init => ContentInv
  BY ContentInit
<1>2. ContentInv /\ [Next]_vars => ContentInv'
  BY ContentStep
<1>3. ContentInv => VectorsMatchContent
  BY DEF ContentInv
<1> QED BY <1>1, <1>2, <1>3, PTL DEF Spec

\* Whenever a record with a file_id is made, the file at its path has that
\* content at that moment.
THEOREM IdentifiersAreCurrent == Spec => RecordsAreCurrent
<1>1. Init => ContentInv
  BY ContentInit
<1>2. ContentInv /\ [Next]_vars => ContentInv'
  BY ContentStep
<1> DEFINE Current == \A r \in NewRecords :
              r.id # None => disk[r.path].kind = "file" /\ disk[r.path].data = r.id
<1>3. ContentInv /\ [Next]_vars => [Current]_vars
  <2> SUFFICES ASSUME ContentInv, [Next]_vars PROVE Current
    OBVIOUS
  <2> USE DEF ContentInv
  <2>1. CASE UNCHANGED <<cache, records>>
    BY <2>1 DEF NewRecords
  <2>2. ASSUME NEW c \in Tallies, NEW r \in FileRecords, Record(c, r), Faithful(r)
        PROVE  Current
    BY <2>2, RecordFaithful DEF Faithful
  <2> QED BY <2>1, <2>2, RecordsStep
<1> QED BY <1>1, <1>2, <1>3, PTL DEF Spec, RecordsAreCurrent
===============================================================================
