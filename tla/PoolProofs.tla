------------------------------- MODULE PoolProofs -------------------------------
(* Theorems about the pool of native workers, for every value of the        *)
(* constants: what the pieces in the pipes of a slot are, that the pool      *)
(* keeps PoolContract, and why a job fails.                                 *)
EXTENDS PoolProperties, TLAPS, SequenceTheorems

-----------------------------------------------------------------------------
(* What is known of a slot's process p and worker c.                       *)

\* r is of job j alone, and its newline is its end.
LineOf(r, j) == \A k \in 1..Len(r) : r[k].of = j /\ (r[k].end <=> k = Len(r))
AllOf(r, j) == \A k \in 1..Len(r) : r[k].of = j
\* r is a part of an answer to j, with stray output in it.
AnswerTo(r, j) == \A k \in 1..Len(r) : r[k].of # 0 => r[k].of = j /\ r[k].says \in Sayings
NoneOf(r, j) == \A k \in 1..Len(r) : r[k].of # j
Unfinished(r, j) == \A k \in 1..Len(r) : r[k].of = j => ~r[k].end

\* The request has been written, read and answered to the last piece.
Served(p, c) == p.out = <<>> /\ c.stdin = <<>> /\ c.line = <<>> /\ c.reply = <<>>

\* The worker waits for a request, and nothing of an earlier one is left of it.
Idle(p, c) ==
    /\ Served(p, c) /\ c.state \in {"read", "gone"}
    /\ AllOf(c.stdout, 0)

\* The worker reads, or has read, the request of j.
Holds(c, j) ==
    /\ AllOf(c.line, j) /\ AllOf(c.stdin, j)
    /\ c.state = "encode" => c.line # <<>>
    /\ c.state = "write" => c.reply # <<>>

\* The request on its way to the worker.
Sends(p, c, j) ==
    /\ LineOf(p.out, j)
    /\ \A k \in 1..Len(c.stdin) : c.stdin[k].end => k = Len(c.stdin) /\ p.out = <<>>
    /\ c.state # "gone" => Len(c.line) + Len(c.stdin) + Len(p.out) <= RequestLimit + 1
    /\ c.state = "read" => \A k \in 1..Len(c.line) : ~c.line[k].end
    /\ c.state \in {"encode", "write"} => c.line # <<>> /\ c.stdin = <<>> /\ p.out = <<>>

\* The answer on its way back; after its newline nothing of j follows.
Answers(p, c, j) ==
    /\ LineOf(c.reply, j) /\ AnswerTo(c.reply, j)
    /\ c.state \in {"read", "encode"} => c.reply = <<>>
    /\ AnswerTo(c.stdout, j) /\ AnswerTo(p.response, j)
    /\ Served(p, c) \/ (Unfinished(c.stdout, j) /\ Unfinished(p.response, j))
    /\ Unfinished(p.response, j) \/ NoneOf(c.stdout, j)
    /\ \A a, b \in 1..Len(c.stdout) : a < b /\ c.stdout[a].of = j /\ c.stdout[a].end => c.stdout[b].of # j

SlotKnown(j, e, p, c) ==
    /\ p = None <=> c = None
    /\ j = None /\ p # None => Idle(p, c)
    /\ j # None /\ p # None => Holds(c, j)
    /\ j # None /\ p # None /\ e = None => Sends(p, c, j) /\ Answers(p, c, j)

\* Where the coordinator is in a slot.
PlaceKnown ==
    /\ \A s \in Slots : At(s, "check") => prepared[s] # None
    /\ \A s \in Slots : at.step \in {"write", "errors", "output", "frame"} /\ at.slot = s =>
                            prepared[s] # None /\ error[s] = None /\ process[s] # None
    /\ \A s \in Slots : At(s, "kill") \/ At(s, "delete") => prepared[s] # None /\ error[s] # None
    /\ \A s \in Slots : At(s, "delete") \/ At(s, "purge") => process[s] = None /\ child[s] = None

\* No job is in two slots, and what a slot or a worker has is staged.
JobsKnown ==
    /\ \A s \in Slots : prepared[s] # None => prepared[s] < next /\ prepared[s] \in staged
    /\ \A s, t \in Slots : s # t /\ prepared[s] # None => prepared[s] # prepared[t]
    /\ \A s \in Slots : child[s] # None =>
          /\ \A k \in 1..Len(child[s].line) : child[s].line[k].of \in staged
          /\ \A k \in 1..Len(child[s].stdin) : child[s].stdin[k].of \in staged
          /\ child[s].state = "encode" => child[s].line # <<>>

PoolInv ==
    /\ TypeOK /\ PlaceKnown /\ JobsKnown
    /\ ~Dead => \A s \in Slots : SlotKnown(prepared[s], error[s], process[s], child[s])

-----------------------------------------------------------------------------
LEMMA PoolStarts == Init => PoolInv
BY PoolAssumption DEF Init, PoolInv, TypeOK, PlaceKnown, JobsKnown, SlotKnown, Slots, Jobs, At, Outside, Dead, Active, Steps

\* What is in a worker or a process.
LEMMA Fields ==
    /\ \A c \in Workers : /\ c # None /\ c.state \in Children
                         /\ c.line \in Seq(Pieces) /\ c.reply \in Seq(Pieces)
                         /\ c.stdin \in Seq(Pieces) /\ c.stdout \in Seq(Pieces)
    /\ \A p \in Processes : /\ p # None /\ p.out \in Seq(Pieces) /\ p.response \in Seq(Pieces)
                           /\ p.diagnostics \in Nat /\ p.elapsed \in Nat
BY NoneAssumption DEF Workers, Processes

\* What must be staged for a worker to go on.
Staged(c) ==
    /\ \A k \in 1..Len(c.line) : c.line[k].of \in staged
    /\ \A k \in 1..Len(c.stdin) : c.stdin[k].of \in staged
    /\ c.state = "encode" => c.line # <<>>

-----------------------------------------------------------------------------
(* The worker's steps.                                                     *)

\* A step of a worker alone, if what must be known of it is.
LEMMA WorkerMoves ==
    ASSUME PoolInv, NEW s \in Slots, child[s] # None, NEW c \in Workers,
           child' = [child EXCEPT ![s] = c], ChildOnly, faults' \in 0..MaxFaults,
           ~Dead => SlotKnown(prepared[s], error[s], process[s], c), Staged(c)
    PROVE  PoolInv'
<1> USE DEF PoolInv, ChildOnly
<1>1. c # None
  BY Fields
<1>2. TypeOK'
  BY <1>1 DEF TypeOK, Dead, At, Active
<1>3. PlaceKnown'
  BY <1>1 DEF TypeOK, PlaceKnown, At
<1>4. JobsKnown'
  BY <1>1 DEF TypeOK, JobsKnown, Staged
<1>5. ASSUME ~Dead', NEW t \in Slots PROVE SlotKnown(prepared[t], error[t], process[t], child[t])'
  <2>1. ~Dead
    BY <1>5 DEF Dead, At
  <2>2. SlotKnown(prepared[t], error[t], process[t], child'[t])
    BY <2>1 DEF TypeOK
  <2> QED BY <2>2
<1> QED BY <1>2, <1>3, <1>4, <1>5

\* What is known of a live worker.
LEMMA AliveKnown ==
    ASSUME PoolInv, NEW s \in Slots, Alive(s)
    PROVE  /\ child[s] \in Workers /\ child[s] # None /\ Staged(child[s])
           /\ ~Dead => /\ SlotKnown(prepared[s], error[s], process[s], child[s])
                       /\ process[s] \in Processes
           /\ faults \in 0..MaxFaults
BY DEF PoolInv, TypeOK, Alive, JobsKnown, Staged

\* A worker that ends leaves its pipes as they are.
LEMMA GoneKeeps ==
    ASSUME NEW j, NEW e, NEW p, NEW c \in Workers, NEW d \in Workers, SlotKnown(j, e, p, c),
           d.state = "gone" \/ d.state = c.state, d.line = c.line, d.reply = c.reply, d.stdin = c.stdin, d.stdout = c.stdout
    PROVE  SlotKnown(j, e, p, d)
<1>1. c # None /\ d # None
  BY Fields
<1>2. Idle(p, c) => Idle(p, d)
  BY DEF Idle, Served
<1>3. Holds(c, j) => Holds(d, j)
  BY DEF Holds
<1>4. Sends(p, c, j) => Sends(p, d, j)
  BY DEF Sends
<1>5. Answers(p, c, j) => Answers(p, d, j)
  BY DEF Answers, Served
<1> QED BY <1>1, <1>2, <1>3, <1>4, <1>5 DEF SlotKnown

LEMMA EndedWorker ==
    ASSUME NEW c \in Workers, NEW d, d = [c EXCEPT !.state = "gone"] \/ d = [c EXCEPT !.state = "gone", !.spoiled = TRUE]
    PROVE  /\ d \in Workers /\ d.state = "gone"
           /\ d.line = c.line /\ d.reply = c.reply /\ d.stdin = c.stdin /\ d.stdout = c.stdout
<1>1. CASE d = [c EXCEPT !.state = "gone"]
  BY <1>1 DEF Workers, Children
<1>2. CASE d = [c EXCEPT !.state = "gone", !.spoiled = TRUE]
  BY <1>2 DEF Workers, Children
<1> QED BY <1>1, <1>2

LEMMA EndsStep ==
    ASSUME PoolInv, NEW s \in Slots, Crashes(s) \/ Leaves(s) \/ Watches(s) \/ Logging(s)
    PROVE  PoolInv'
<1> DEFINE c == child[s]
<1>1. Alive(s)
  BY DEF Crashes, Leaves, Watches, Logging
<1>2. PICK d : /\ child' = [child EXCEPT ![s] = d] /\ d \in Workers
               /\ d.state = "gone" \/ d.state = c.state
               /\ d.line = c.line /\ d.reply = c.reply /\ d.stdin = c.stdin /\ d.stdout = c.stdout
  <2>1. c \in Workers /\ DOMAIN child = Slots
    BY <1>1, AliveKnown DEF PoolInv, TypeOK
  <2>2. CASE Crashes(s)
    <3>1. child' = [child EXCEPT ![s] = [c EXCEPT !.state = "gone", !.spoiled = TRUE]]
      BY <2>1, <2>2 DEF Crashes
    <3> QED BY <2>1, <3>1, EndedWorker
  <2>3. CASE Leaves(s) \/ Watches(s)
    <3>1. child' = [child EXCEPT ![s] = [c EXCEPT !.state = "gone"]]
      BY <2>1, <2>3 DEF Leaves, Watches
    <3> QED BY <2>1, <3>1, EndedWorker
  <2>4. CASE Logging(s)
    BY <2>1, <2>4 DEF Logging, Workers, PoolInv, TypeOK
  <2> QED BY <2>2, <2>3, <2>4
<1>3. ChildOnly /\ faults' \in 0..MaxFaults
  BY PoolAssumption DEF Crashes, Leaves, Watches, Logging, PoolInv, TypeOK, ChildOnly
<1>4. Staged(d)
  BY <1>1, <1>2, AliveKnown DEF Staged
<1>5. ~Dead => SlotKnown(prepared[s], error[s], process[s], d)
  BY <1>1, <1>2, AliveKnown, GoneKeeps
<1> QED BY <1>1, <1>2, <1>3, <1>4, <1>5, WorkerMoves, AliveKnown

\* What appending a piece does.
LEMMA Appended ==
    ASSUME NEW r \in Seq(Pieces), NEW x \in Pieces
    PROVE  /\ Append(r, x) \in Seq(Pieces) /\ Len(Append(r, x)) = Len(r) + 1 /\ Len(r) \in Nat
           /\ Append(r, x)[Len(r) + 1] = x /\ Append(r, x) # <<>>
           /\ \A k \in 1..Len(r) : Append(r, x)[k] = r[k]
           /\ \A k \in 1..Len(r) + 1 : k \in 1..Len(r) \/ k = Len(r) + 1
OBVIOUS

\* What reading a piece leaves.
LEMMA Behead ==
    ASSUME NEW r \in Seq(Pieces), r # <<>>
    PROVE  /\ Head(r) \in Pieces /\ Head(r) = r[1] /\ Tail(r) \in Seq(Pieces)
           /\ Len(r) \in Nat \ {0} /\ Len(Tail(r)) = Len(r) - 1
           /\ \A k \in 1..Len(Tail(r)) : k + 1 \in 1..Len(r) /\ Tail(r)[k] = r[k + 1]
           /\ Tail(r) = <<>> => Len(r) = 1
           /\ Len(r) = 1 => Tail(r) = <<>>
<1>1. /\ Head(r) \in Pieces /\ Head(r) = r[1] /\ Tail(r) \in Seq(Pieces)
      /\ Len(r) \in Nat \ {0} /\ Len(Tail(r)) = Len(r) - 1
      /\ \A k \in 1..Len(Tail(r)) : k + 1 \in 1..Len(r) /\ Tail(r)[k] = r[k + 1]
  OBVIOUS
<1>2. \A t : t = <<>> => Len(t) = 0
  OBVIOUS
<1>3. \A t \in Seq(Pieces) : Len(t) = 0 => t = <<>>
  OBVIOUS
<1>4. Len(Tail(r)) = 0 <=> Len(r) = 1
  BY <1>1
<1> QED BY <1>1, <1>2, <1>3, <1>4, Zenon

\* What a new line is.
LEMMA NewLine ==
    ASSUME NEW j \in 0..MaxJobs, NEW n \in Nat, NEW v \in Sayings \cup {None}
    PROVE  /\ Line(j, n, v) \in Seq(Pieces) /\ Len(Line(j, n, v)) = n + 1 /\ Line(j, n, v) # <<>>
           /\ LineOf(Line(j, n, v), j) /\ \A k \in 1..n + 1 : Line(j, n, v)[k].says = v
<1> DEFINE r == Line(j, n, v)
<1>1. r \in Seq(Pieces) /\ Len(r) = n + 1
  BY PoolAssumption DEF Line, Pieces
<1>2. \A k \in 1..n + 1 : r[k].of = j /\ r[k].says = v /\ (r[k].end <=> k = n + 1)
  BY DEF Line
<1> HIDE DEF r
<1> QED BY <1>1, <1>2 DEF LineOf, r

\* Stray output is no part of an answer.
LEMMA StrayKeeps ==
    ASSUME NEW j \in Jobs \cup {None}, NEW e, NEW p, NEW c \in Workers, NEW d \in Workers, NEW x \in Pieces,
           SlotKnown(j, e, p, c), x.of = 0, d.stdout = Append(c.stdout, x),
           d.state = c.state, d.line = c.line, d.reply = c.reply, d.stdin = c.stdin
    PROVE  SlotKnown(j, e, p, d)
<1>1. c # None /\ d # None /\ c.stdout \in Seq(Pieces)
  BY Fields
<1>2. Idle(p, c) => Idle(p, d)
  BY <1>1, Appended DEF Idle, Served, AllOf
<1>3. Holds(c, j) => Holds(d, j)
  BY DEF Holds
<1>4. Sends(p, c, j) => Sends(p, d, j)
  BY DEF Sends
<1>5. ASSUME j \in Jobs, Answers(p, c, j) PROVE Answers(p, d, j)
  <2>1. j # 0
    BY <1>5, PoolAssumption DEF Jobs
  <2>2. AnswerTo(d.stdout, j)
    BY <1>1, <1>5, Appended DEF Answers, AnswerTo
  <2>3. Unfinished(c.stdout, j) => Unfinished(d.stdout, j)
    BY <1>1, <2>1, Appended DEF Unfinished
  <2>4. NoneOf(c.stdout, j) => NoneOf(d.stdout, j)
    BY <1>1, <2>1, Appended DEF NoneOf
  <2>5. ASSUME NEW a \in 1..Len(d.stdout), NEW b \in 1..Len(d.stdout),
               a < b, d.stdout[a].of = j, d.stdout[a].end
        PROVE  d.stdout[b].of # j
    BY <1>1, <1>5, <2>1, <2>5, Appended DEF Answers
  <2> QED BY <1>5, <2>2, <2>3, <2>4, <2>5 DEF Answers, Served
<1> QED BY <1>1, <1>2, <1>3, <1>4, <1>5 DEF SlotKnown

LEMMA StraysStep == ASSUME PoolInv, NEW s \in Slots, Strays(s) PROVE PoolInv'
<1> DEFINE c == child[s]
<1>1. Alive(s) /\ c \in Workers /\ DOMAIN child = Slots /\ prepared[s] \in Jobs \cup {None}
  BY AliveKnown DEF Strays, PoolInv, TypeOK
<1>2. PICK b \in BOOLEAN : child' = [child EXCEPT ![s].stdout = Append(@, Stray(b)), ![s].spoiled = TRUE]
  BY DEF Strays
<1> DEFINE d == [c EXCEPT !.stdout = Append(c.stdout, Stray(b)), !.spoiled = TRUE]
<1>3. child' = [child EXCEPT ![s] = d]
  BY <1>1, <1>2
<1>4. Stray(b) \in Pieces /\ Stray(b).of = 0
  BY PoolAssumption DEF Stray, Pieces
<1>5. Append(c.stdout, Stray(b)) \in Seq(Pieces)
  BY <1>1, <1>4, Fields, Appended
<1>6. /\ d \in Workers /\ d.stdout = Append(c.stdout, Stray(b))
      /\ d.state = c.state /\ d.line = c.line /\ d.reply = c.reply /\ d.stdin = c.stdin
  BY <1>1, <1>5 DEF Workers
<1> HIDE DEF d
<1>7. ChildOnly /\ faults' \in 0..MaxFaults
  BY PoolAssumption DEF Strays, PoolInv, TypeOK, ChildOnly
<1>8. Staged(d)
  BY <1>1, <1>6, AliveKnown DEF Staged
<1>9. ~Dead => SlotKnown(prepared[s], error[s], process[s], d)
  BY <1>1, <1>4, <1>6, AliveKnown, StrayKeeps
<1> QED BY <1>1, <1>3, <1>6, <1>7, <1>8, <1>9, WorkerMoves, AliveKnown

\* A piece of the request is read.
LEMMA ReadKeeps ==
    ASSUME NEW j \in Jobs \cup {None}, NEW e, NEW p \in Processes, NEW c \in Workers, NEW d \in Workers,
           SlotKnown(j, e, p, c), c.state = "read", c.stdin # <<>>,
           d.stdin = Tail(c.stdin), d.line = Append(c.line, Head(c.stdin)), d.stdout = c.stdout,
           \/ d.state = "read" /\ d.reply = c.reply /\ ~Head(c.stdin).end
           \/ d.state = "encode" /\ d.reply = c.reply /\ Head(c.stdin).end
           \/ d.state = "write" /\ d.reply # <<>> /\ (Head(c.stdin).end \/ Len(d.line) = RequestLimit + 2)
                 /\ ~(Len(d.line) <= RequestLimit + 1 /\ Head(c.stdin).end)
    PROVE  SlotKnown(j, e, p, d)
<1>1. /\ c # None /\ d # None /\ p # None /\ c.stdin \in Seq(Pieces) /\ c.line \in Seq(Pieces)
      /\ p.out \in Seq(Pieces) /\ Len(p.out) \in Nat
  BY Fields
<1>2. /\ Head(c.stdin) \in Pieces /\ Head(c.stdin) = c.stdin[1] /\ 1 \in 1..Len(c.stdin)
      /\ Len(c.stdin) \in Nat \ {0} /\ Len(d.stdin) = Len(c.stdin) - 1 /\ d.stdin \in Seq(Pieces)
      /\ \A k \in 1..Len(d.stdin) : k + 1 \in 1..Len(c.stdin) /\ d.stdin[k] = c.stdin[k + 1]
  BY <1>1, Behead
<1>3. /\ Len(d.line) = Len(c.line) + 1 /\ Len(c.line) \in Nat /\ d.line # <<>>
      /\ d.line[Len(c.line) + 1] = Head(c.stdin)
      /\ \A k \in 1..Len(c.line) : d.line[k] = c.line[k]
  BY <1>1, <1>2, Appended
<1>4. j # None
  BY <1>1 DEF SlotKnown, Idle, Served
<1>5. Holds(d, j)
  <2>1. Holds(c, j)
    BY <1>1, <1>4 DEF SlotKnown
  <2> QED BY <1>2, <1>3, <2>1 DEF Holds, AllOf
<1>6. ASSUME e = None PROVE Sends(p, d, j) /\ Answers(p, d, j)
  <2>1. Sends(p, c, j) /\ Answers(p, c, j)
    BY <1>1, <1>4, <1>6 DEF SlotKnown
  <2>2. Len(d.line) + Len(d.stdin) + Len(p.out) <= RequestLimit + 1 /\ Len(d.line) <= RequestLimit + 1
    <3>1. Len(c.line) + Len(c.stdin) + Len(p.out) <= RequestLimit + 1
      BY <2>1 DEF Sends
    <3>2. Len(d.stdin) \in Nat /\ Len(c.stdin) = Len(d.stdin) + 1 /\ Len(d.line) = Len(c.line) + 1
      BY <1>2, <1>3
    <3>3. PICK a, b, m, r \in Nat :
              a = Len(c.line) /\ b = Len(d.stdin) /\ m = Len(p.out) /\ r = RequestLimit
      BY <1>1, <1>3, <3>2, PoolAssumption
    <3>4. a + (b + 1) + m <= r + 1
      BY <3>1, <3>2, <3>3
    <3>5. (a + 1) + b + m <= r + 1 /\ a + 1 <= r + 1
      BY <3>4
    <3> QED BY <3>2, <3>3, <3>5
  <2>3. d.state # "write"
    BY <1>2, <1>3, <2>2, PoolAssumption
  <2>4. Head(c.stdin).end => d.stdin = <<>> /\ p.out = <<>>
    BY <1>2, <2>1 DEF Sends
  <2>5. d.state = "read" => \A k \in 1..Len(d.line) : ~d.line[k].end
    BY <1>2, <1>3, <2>1 DEF Sends
  <2>6. \A k \in 1..Len(d.stdin) : d.stdin[k].end => k = Len(d.stdin) /\ p.out = <<>>
    BY <1>2, <2>1 DEF Sends
  <2>7. Sends(p, d, j)
    BY <1>3, <2>1, <2>2, <2>3, <2>4, <2>5, <2>6 DEF Sends
  <2>8. Answers(p, d, j)
    BY <1>2, <1>3, <2>1, <2>3 DEF Answers, Served
  <2> QED BY <2>7, <2>8
<1> QED BY <1>1, <1>4, <1>5, <1>6 DEF SlotKnown

LEMMA ReadsStep == ASSUME PoolInv, NEW s \in Slots, Reads(s) PROVE PoolInv'
<1> DEFINE c == child[s]
           x == Head(c.stdin)
           line == Append(c.line, x)
           w == [c EXCEPT !.stdin = Tail(c.stdin), !.line = line]
           reply == Line(line[1].of, 1, "misfit")
<1>1. Alive(s) /\ c \in Workers /\ DOMAIN child = Slots /\ prepared[s] \in Jobs \cup {None}
  BY AliveKnown DEF Reads, PoolInv, TypeOK
<1>2. c.state = "read" /\ c.stdin # <<>> /\ c.stdin \in Seq(Pieces) /\ c.line \in Seq(Pieces)
  BY <1>1, Fields DEF Reads
<1>3. x \in Pieces /\ Tail(c.stdin) \in Seq(Pieces)
  BY <1>2, Behead
<1>4. line \in Seq(Pieces) /\ Len(line) = Len(c.line) + 1 /\ Len(c.line) \in Nat /\ line[Len(line)] = x /\ line # <<>>
  BY <1>2, <1>3, Appended
<1>5. reply \in Seq(Pieces) /\ reply # <<>>
  <2>1. line[1].of \in 0..MaxJobs
    <3>1. line[1] \in Pieces
      BY <1>4
    <3> QED BY <3>1 DEF Pieces
  <2>2. 1 \in Nat /\ "misfit" \in Sayings \cup {None}
    BY DEF Sayings
  <2>3. PICK o \in 0..MaxJobs : o = line[1].of
    BY <2>1
  <2>4. Line(o, 1, "misfit") \in Seq(Pieces) /\ Line(o, 1, "misfit") # <<>>
    BY <2>2, NewLine
  <2> QED BY <2>3, <2>4
<1>6. PICK d \in Workers :
          /\ child' = [child EXCEPT ![s] = d]
          /\ d.stdin = Tail(c.stdin) /\ d.line = line /\ d.stdout = c.stdout
          /\ \/ d.state = "read" /\ d.reply = c.reply /\ ~x.end
             \/ d.state = "encode" /\ d.reply = c.reply /\ x.end
             \/ d.state = "write" /\ d.reply # <<>> /\ (x.end \/ Len(line) = RequestLimit + 2)
                   /\ ~(Len(line) <= RequestLimit + 1 /\ x.end)
  <2>1. /\ w \in Workers /\ w.stdin = Tail(c.stdin) /\ w.line = line /\ w.stdout = c.stdout
        /\ w.state = "read" /\ w.reply = c.reply
    BY <1>1, <1>2, <1>3, <1>4 DEF Workers
  <2>2. child' = [child EXCEPT ![s] =
                    IF ~(line[Len(line)].end \/ Len(line) = RequestLimit + 2) THEN w
                    ELSE IF Len(line) <= RequestLimit + 1 /\ line[Len(line)].end
                    THEN [w EXCEPT !.state = "encode", !.watched = TRUE]
                    ELSE [w EXCEPT !.state = "write", !.reply = reply]]
    BY <1>1 DEF Reads
  <2> HIDE DEF w, reply, line, x
  <2>3. CASE ~(line[Len(line)].end \/ Len(line) = RequestLimit + 2)
    BY <1>4, <2>1, <2>2, <2>3
  <2>4. CASE Len(line) <= RequestLimit + 1 /\ line[Len(line)].end
    <3> DEFINE d == [w EXCEPT !.state = "encode", !.watched = TRUE]
    <3>1. child' = [child EXCEPT ![s] = d]
      BY <2>2, <2>4
    <3>2. /\ d \in Workers /\ d.stdin = w.stdin /\ d.line = w.line /\ d.stdout = w.stdout
          /\ d.state = "encode" /\ d.reply = w.reply
      BY <2>1 DEF Workers, Children
    <3> QED BY <1>4, <2>1, <2>4, <3>1, <3>2
  <2>5. CASE /\ line[Len(line)].end \/ Len(line) = RequestLimit + 2
             /\ ~(Len(line) <= RequestLimit + 1 /\ line[Len(line)].end)
    <3> DEFINE d == [w EXCEPT !.state = "write", !.reply = reply]
    <3>1. child' = [child EXCEPT ![s] = d]
      BY <2>2, <2>5
    <3>2. /\ d \in Workers /\ d.stdin = w.stdin /\ d.line = w.line /\ d.stdout = w.stdout
          /\ d.state = "write" /\ d.reply = reply
      BY <1>5, <2>1 DEF Workers, Children
    <3> QED BY <1>4, <1>5, <2>1, <2>5, <3>1, <3>2
  <2> QED BY <2>3, <2>4, <2>5
<1>7. ChildOnly /\ faults' \in 0..MaxFaults
  BY DEF Reads, PoolInv, TypeOK
<1>8. Staged(d)
  <2>1. Staged(c)
    BY <1>1, AliveKnown
  <2> QED BY <1>2, <1>3, <1>4, <1>6, <2>1, Behead, Appended DEF Staged
<1>9. ~Dead => SlotKnown(prepared[s], error[s], process[s], d)
  <2> HIDE DEF c, line, x
  <2> SUFFICES ASSUME ~Dead PROVE SlotKnown(prepared[s], error[s], process[s], d)
    OBVIOUS
  <2>1. SlotKnown(prepared[s], error[s], process[s], c) /\ process[s] \in Processes
    BY <1>1, AliveKnown DEF c
  <2>2. d.line = Append(c.line, Head(c.stdin)) /\ Len(d.line) = Len(line) /\ x = Head(c.stdin)
    BY <1>6 DEF line, x
  <2> QED BY <1>1, <1>2, <1>6, <2>1, <2>2, ReadKeeps
<1> QED BY <1>1, <1>6, <1>7, <1>8, <1>9, WorkerMoves, AliveKnown

\* The copy is encoded or refused.
LEMMA EncodeKeeps ==
    ASSUME NEW j \in Jobs \cup {None}, NEW e, NEW p \in Processes, NEW c \in Workers, NEW d \in Workers,
           SlotKnown(j, e, p, c), c.state = "encode", d.state = "write",
           NEW n \in Nat, NEW v \in Sayings, d.reply = Line(c.line[1].of, n, v),
           d.line = c.line, d.stdin = c.stdin, d.stdout = c.stdout
    PROVE  SlotKnown(j, e, p, d)
<1>1. /\ c # None /\ d # None /\ p # None /\ c.line \in Seq(Pieces)
  BY Fields
<1>2. j # None
  BY <1>1 DEF SlotKnown, Idle
<1>3. Holds(c, j) /\ j \in 0..MaxJobs
  BY <1>1, <1>2, PoolAssumption DEF SlotKnown, Jobs
<1>4. c.line[1].of = j
  <2>1. 1 \in 1..Len(c.line)
    BY <1>1, <1>3 DEF Holds
  <2> QED BY <1>3, <2>1 DEF Holds, AllOf
<1>5. /\ d.reply \in Seq(Pieces) /\ Len(d.reply) = n + 1 /\ d.reply # <<>> /\ LineOf(d.reply, j)
      /\ \A k \in 1..n + 1 : d.reply[k].says = v
  BY <1>3, <1>4, NewLine
<1>6. Holds(d, j)
  BY <1>3, <1>5 DEF Holds
<1>7. ASSUME e = None PROVE Sends(p, d, j) /\ Answers(p, d, j)
  <2>1. Sends(p, c, j) /\ Answers(p, c, j)
    BY <1>1, <1>2, <1>7 DEF SlotKnown
  <2>2. Sends(p, d, j)
    BY <2>1 DEF Sends
  <2>3. AnswerTo(d.reply, j)
    BY <1>5 DEF AnswerTo, LineOf
  <2>4. Unfinished(c.stdout, j) /\ Unfinished(p.response, j)
    BY <1>3, <2>1 DEF Answers, Served, Holds
  <2>5. Answers(p, d, j)
    BY <1>5, <2>1, <2>3, <2>4 DEF Answers, Served
  <2> QED BY <2>2, <2>5
<1> QED BY <1>1, <1>2, <1>6, <1>7 DEF SlotKnown

LEMMA EncodesStep == ASSUME PoolInv, NEW s \in Slots, Encodes(s) PROVE PoolInv'
<1> DEFINE c == child[s]
<1>1. Alive(s) /\ c \in Workers /\ DOMAIN child = Slots /\ prepared[s] \in Jobs \cup {None}
  BY AliveKnown DEF Encodes, PoolInv, TypeOK
<1>2. c.state = "encode" /\ Staged(c)
  BY <1>1, AliveKnown DEF Encodes
<1>3. PICK n \in Bodies, l \in Logs, v \in Sayings :
          child' = [child EXCEPT ![s] =
                IF n > ResponseLimit THEN [@ EXCEPT !.state = "gone", !.spoiled = TRUE]
                ELSE [@ EXCEPT !.state = "write", !.logs = l, !.reply = Line(child[s].line[1].of, n, v)]]
  BY DEF Encodes
<1>4. ChildOnly /\ faults' \in 0..MaxFaults
  BY DEF Encodes, PoolInv, TypeOK
<1>5. CASE n > ResponseLimit
  <2> DEFINE d == [c EXCEPT !.state = "gone", !.spoiled = TRUE]
  <2>1. child' = [child EXCEPT ![s] = d]
    BY <1>1, <1>3, <1>5
  <2>2. /\ d \in Workers /\ d.state = "gone"
        /\ d.line = c.line /\ d.reply = c.reply /\ d.stdin = c.stdin /\ d.stdout = c.stdout
    BY <1>1, EndedWorker
  <2> HIDE DEF d
  <2>3. Staged(d)
    BY <1>2, <2>2 DEF Staged
  <2>4. ~Dead => SlotKnown(prepared[s], error[s], process[s], d)
    BY <1>1, <2>2, AliveKnown, GoneKeeps
  <2> QED BY <1>1, <1>4, <2>1, <2>2, <2>3, <2>4, WorkerMoves, AliveKnown
<1>6. CASE ~(n > ResponseLimit)
  <2> DEFINE reply == Line(c.line[1].of, n, v)
             d == [c EXCEPT !.state = "write", !.logs = l, !.reply = reply]
  <2>1. child' = [child EXCEPT ![s] = d]
    BY <1>1, <1>3, <1>6
  <2>2. reply \in Seq(Pieces)
    <3>1. c.line \in Seq(Pieces) /\ c.line # <<>>
      BY <1>1, <1>2, Fields DEF Staged
    <3>2. c.line[1].of \in 0..MaxJobs
      <4>1. c.line[1] \in Pieces
        BY <3>1
      <4> QED BY <4>1 DEF Pieces
    <3> QED BY <3>2, NewLine, PoolAssumption
  <2>3. l \in Nat
    BY PoolAssumption
  <2> HIDE DEF reply
  <2>4. /\ d \in Workers /\ d.state = "write" /\ d.reply = reply
        /\ d.line = c.line /\ d.stdin = c.stdin /\ d.stdout = c.stdout
    BY <1>1, <2>2, <2>3 DEF Workers, Children
  <2> HIDE DEF d
  <2>5. Staged(d)
    BY <1>2, <2>4 DEF Staged
  <2>6. ~Dead => SlotKnown(prepared[s], error[s], process[s], d)
    BY <1>1, <1>2, <2>4, AliveKnown, EncodeKeeps, PoolAssumption DEF reply
  <2> QED BY <1>1, <1>4, <2>1, <2>4, <2>5, <2>6, WorkerMoves, AliveKnown
<1> QED BY <1>5, <1>6

\* A piece of the answer is written.
LEMMA ReplyKeeps ==
    ASSUME NEW j \in Jobs \cup {None}, NEW e, NEW p \in Processes, NEW c \in Workers, NEW d \in Workers,
           SlotKnown(j, e, p, c), c.state = "write", c.reply # <<>>,
           d.stdout = Append(c.stdout, Head(c.reply)), d.reply = Tail(c.reply), d.stdin = c.stdin,
           IF Len(c.reply) = 1 THEN d.state = "read" /\ d.line = <<>> ELSE d.state = "write" /\ d.line = c.line
    PROVE  SlotKnown(j, e, p, d)
<1>1. /\ c # None /\ d # None /\ p # None
      /\ c.stdout \in Seq(Pieces) /\ c.reply \in Seq(Pieces) /\ d.reply \in Seq(Pieces)
  BY Fields
<1>2. j # None /\ Holds(c, j) /\ j # 0
  BY <1>1, PoolAssumption DEF SlotKnown, Idle, Jobs
<1>3. /\ Head(c.reply) \in Pieces /\ Head(c.reply) = c.reply[1] /\ 1 \in 1..Len(c.reply)
      /\ Len(c.reply) \in Nat \ {0} /\ Len(d.reply) = Len(c.reply) - 1
      /\ \A k \in 1..Len(d.reply) : k + 1 \in 1..Len(c.reply) /\ d.reply[k] = c.reply[k + 1]
  BY <1>1, Behead
<1>4. /\ Len(d.stdout) = Len(c.stdout) + 1 /\ Len(c.stdout) \in Nat
      /\ d.stdout[Len(c.stdout) + 1] = Head(c.reply)
      /\ \A k \in 1..Len(c.stdout) : d.stdout[k] = c.stdout[k]
      /\ \A k \in 1..Len(d.stdout) : k \in 1..Len(c.stdout) \/ k = Len(c.stdout) + 1
  BY <1>1, <1>3, Appended
<1>5. Len(c.reply) # 1 => d.reply # <<>>
  BY <1>1, Behead
<1>6. Holds(d, j)
  BY <1>2, <1>5 DEF Holds, AllOf
<1>7. ASSUME e = None PROVE Sends(p, d, j) /\ Answers(p, d, j)
  <2>1. Sends(p, c, j) /\ Answers(p, c, j)
    BY <1>1, <1>2, <1>7 DEF SlotKnown
  <2>2. Sends(p, d, j)
    <3>1. CASE Len(c.reply) = 1
      <4>1. p.out = <<>> /\ d.stdin = <<>> /\ d.line = <<>> /\ d.state = "read"
        BY <2>1, <3>1 DEF Sends
      <4> QED BY <4>1, PoolAssumption DEF Sends, LineOf
    <3>2. CASE Len(c.reply) # 1
      BY <2>1, <3>2 DEF Sends
    <3> QED BY <3>1, <3>2
  <2>3. LineOf(d.reply, j) /\ AnswerTo(d.reply, j)
    BY <1>3, <2>1 DEF Answers, LineOf, AnswerTo
  <2>4. Head(c.reply).of = j /\ Head(c.reply).says \in Sayings /\ (Head(c.reply).end <=> Len(c.reply) = 1)
    <3>1. Head(c.reply).of = j /\ (Head(c.reply).end <=> 1 = Len(c.reply))
      BY <1>3, <2>1 DEF Answers, LineOf
    <3>2. Head(c.reply).says \in Sayings
      BY <1>2, <1>3, <2>1, <3>1 DEF Answers, AnswerTo
    <3> QED BY <3>1, <3>2
  <2>5. Unfinished(c.stdout, j) /\ Unfinished(p.response, j)
    BY <2>1 DEF Answers, Served
  <2>6. AnswerTo(d.stdout, j)
    BY <1>4, <2>1, <2>4 DEF Answers, AnswerTo
  <2>7. Served(p, d) \/ Unfinished(d.stdout, j)
    <3>1. CASE Len(c.reply) = 1
      <4>1. d.reply = <<>>
        BY <1>1, <3>1, Behead
      <4>2. p.out = <<>> /\ d.stdin = <<>> /\ d.line = <<>>
        BY <2>1, <3>1 DEF Sends
      <4> QED BY <4>1, <4>2 DEF Served
    <3>2. CASE Len(c.reply) # 1
      BY <1>4, <2>4, <2>5, <3>2 DEF Unfinished
    <3> QED BY <3>1, <3>2
  <2>8. ASSUME NEW a \in 1..Len(d.stdout), NEW b \in 1..Len(d.stdout),
               a < b, d.stdout[a].of = j, d.stdout[a].end
        PROVE  d.stdout[b].of # j
    BY <1>4, <2>5, <2>8 DEF Unfinished
  <2>9. d.state = "read" => d.reply = <<>>
    BY <1>1, Behead
  <2> QED BY <2>1, <2>2, <2>3, <2>5, <2>6, <2>7, <2>8, <2>9 DEF Answers
<1> QED BY <1>1, <1>2, <1>6, <1>7 DEF SlotKnown

LEMMA RepliesStep == ASSUME PoolInv, NEW s \in Slots, Replies(s) PROVE PoolInv'
<1> DEFINE c == child[s]
           out == Append(c.stdout, Head(c.reply))
           d == [c EXCEPT !.stdout = out, !.reply = Tail(c.reply),
                          !.state = IF Len(c.reply) = 1 THEN "read" ELSE c.state,
                          !.line = IF Len(c.reply) = 1 THEN <<>> ELSE c.line]
<1>1. /\ Alive(s) /\ c \in Workers /\ DOMAIN child = Slots /\ prepared[s] \in Jobs \cup {None}
      /\ ~Dead /\ c.state = "write"
  BY AliveKnown DEF Replies, PoolInv, TypeOK
<1>2. SlotKnown(prepared[s], error[s], process[s], c) /\ process[s] \in Processes /\ Staged(c)
  BY <1>1, AliveKnown
<1>3. c.reply # <<>> /\ c.reply \in Seq(Pieces) /\ c.stdout \in Seq(Pieces) /\ c.line \in Seq(Pieces)
  BY <1>1, <1>2, Fields DEF SlotKnown, Holds, Idle
<1>4. child' = [child EXCEPT ![s] = d] /\ ChildOnly /\ faults' \in 0..MaxFaults
  BY <1>1 DEF Replies, PoolInv, TypeOK
<1>5. out \in Seq(Pieces) /\ Tail(c.reply) \in Seq(Pieces) /\ <<>> \in Seq(Pieces)
  BY <1>3, Behead, Appended
<1> HIDE DEF out
<1>6. /\ d \in Workers /\ d.stdout = out /\ d.reply = Tail(c.reply) /\ d.stdin = c.stdin
      /\ d.state = (IF Len(c.reply) = 1 THEN "read" ELSE "write")
      /\ d.line = (IF Len(c.reply) = 1 THEN <<>> ELSE c.line)
  BY <1>1, <1>3, <1>5 DEF Workers, Children
<1> HIDE DEF d
<1>7. Staged(d)
  BY <1>2, <1>6 DEF Staged
<1>8. SlotKnown(prepared[s], error[s], process[s], d)
  <2>1. IF Len(c.reply) = 1 THEN d.state = "read" /\ d.line = <<>> ELSE d.state = "write" /\ d.line = c.line
    BY <1>6
  <2>2. d.stdout = Append(c.stdout, Head(c.reply))
    BY <1>6 DEF out
  <2> HIDE DEF c
  <2> QED BY <1>1, <1>2, <1>3, <1>6, <2>1, <2>2, ReplyKeeps
<1> QED BY <1>1, <1>4, <1>6, <1>7, <1>8, WorkerMoves, AliveKnown

-----------------------------------------------------------------------------
(* The coordinator's steps.                                                *)

Places == [slot : Slots, step : Steps] \cup {[slot |-> 0, step |-> "outside"]}

\* A step of the coordinator in slot s, if what must be known of it is.
LEMMA CoordinatorMoves ==
    ASSUME PoolInv, ~Dead, at.step # "purge", NEW s \in Slots, NEW e \in Failures \cup {None},
           NEW p \in Processes \cup {None}, NEW c \in Workers \cup {None},
           process' = [process EXCEPT ![s] = p], child' = [child EXCEPT ![s] = c],
           error' = [error EXCEPT ![s] = e], UNCHANGED <<next, prepared, staged, outcome, faults>>,
           SlotKnown(prepared[s], e, p, c), c # None => Staged(c),
           prepared[s] # None => p # None \/ e # None,
           at' \in Places, PlaceKnown'
    PROVE  PoolInv'
<1> USE DEF PoolInv
<1>1. ASSUME NEW t \in Slots PROVE SlotKnown(prepared[t], error'[t], process'[t], child'[t])
  BY DEF TypeOK
<1>2. at' \in [slot : Slots, step : Steps] \cup [slot : {0}, step : {"outside", "closed", "dead"}]
  BY DEF Places
<1>3. \A t \in Slots : prepared[t] # None => process'[t] # None \/ error'[t] # None
  BY DEF TypeOK, Active, At
<1>4. \A t \in Slots : process'[t] # None <=> child'[t] # None
  BY <1>1 DEF SlotKnown
<1>5. TypeOK'
  BY <1>2, <1>3, <1>4 DEF TypeOK, Active
<1>6. JobsKnown'
  BY DEF TypeOK, JobsKnown, Staged
<1>7. ASSUME NEW t \in Slots PROVE SlotKnown(prepared[t], error[t], process[t], child[t])'
  BY <1>1
<1> QED BY <1>5, <1>6, <1>7

\* Where a step leads.
LEMMA Arrives ==
    ASSUME NEW s \in Slots, NEW step \in Steps, Go(s, step),
           step \in {"check", "kill", "delete"} => prepared'[s] # None,
           step \in {"kill", "delete"} => error'[s] # None,
           step \in {"write", "errors", "output", "frame"} =>
               prepared'[s] # None /\ error'[s] = None /\ process'[s] # None,
           step \in {"delete", "purge"} => process'[s] = None /\ child'[s] = None
    PROVE  at' \in Places /\ PlaceKnown'
<1>1. at' = [slot |-> s, step |-> step] /\ at'.slot = s /\ at'.step = step
  BY DEF Go
<1>2. at' \in Places
  BY <1>1 DEF Places
<1>3. \A t \in Slots, x \in Steps : at' = [slot |-> t, step |-> x] => t = s /\ x = step
  BY <1>1
<1>4. PlaceKnown'
  BY <1>1, <1>3 DEF PlaceKnown, At, Steps
<1> QED BY <1>2, <1>4

LEMMA GoesOut == ASSUME Go(0, "outside") PROVE at' \in Places /\ PlaceKnown'
<1>1. at' = [slot |-> 0, step |-> "outside"]
  BY DEF Go
<1>2. \A s \in Slots : s # 0
  BY PoolAssumption DEF Slots
<1> QED BY <1>1, <1>2 DEF Places, PlaceKnown, At

LEMMA GoesOn ==
    ASSUME NEW s, PollAfter(s), UNCHANGED prepared
    PROVE  at' \in Places /\ PlaceKnown'
<1>1. CASE Go(0, "outside")
  BY <1>1, GoesOut
<1>2. CASE \E t \in Active : Go(t, "check")
  <2>1. PICK t \in Active : Go(t, "check")
    BY <1>2
  <2> QED BY <2>1, Arrives DEF Active, Steps
<1> QED BY <1>1, <1>2 DEF PollAfter

\* What is known of a slot the coordinator is in.
LEMMA SlotInPoll ==
    ASSUME PoolInv, NEW s \in Slots, at.slot = s, at.step \in {"check", "write", "errors", "output", "frame"}
    PROVE  /\ ~Dead /\ at.step # "purge" /\ prepared[s] \in Jobs /\ prepared[s] # None
           /\ error[s] \in Failures \cup {None}
           /\ process[s] \in Processes \cup {None} /\ child[s] \in Workers \cup {None}
           /\ SlotKnown(prepared[s], error[s], process[s], child[s])
           /\ child[s] # None => Staged(child[s])
           /\ process[s] # None \/ error[s] # None
           /\ at.step # "check" => error[s] = None /\ process[s] \in Processes /\ child[s] \in Workers
           /\ process = [process EXCEPT ![s] = process[s]] /\ child = [child EXCEPT ![s] = child[s]]
           /\ error = [error EXCEPT ![s] = error[s]]
<1> USE DEF PoolInv
<1>1. ~Dead /\ at.step # "purge" /\ ~At(s, "purge")
  BY DEF Dead, At
<1>2. prepared[s] \in Jobs /\ prepared[s] # None
  <2>1. at = [slot |-> s, step |-> at.step]
    BY DEF TypeOK
  <2> QED BY <2>1, NoneAssumption DEF PlaceKnown, At, TypeOK
<1>3. SlotKnown(prepared[s], error[s], process[s], child[s])
  BY <1>1
<1>4. at.step # "check" => error[s] = None /\ process[s] \in Processes /\ child[s] \in Workers
  BY <1>3 DEF PlaceKnown, TypeOK, SlotKnown
<1> QED BY <1>1, <1>2, <1>3, <1>4 DEF TypeOK, Active, JobsKnown, Staged

LEMMA Failing ==
    ASSUME NEW j, NEW e, NEW p, NEW c, SlotKnown(j, e, p, c), NEW f \in Failures
    PROVE  SlotKnown(j, f, p, c)
BY NoneAssumption DEF SlotKnown

\* The coordinator gives up on the slot it is in.
LEMMA FailStep ==
    ASSUME PoolInv, NEW s \in Slots, at.slot = s, at.step \in {"check", "write", "errors", "output", "frame"},
           NEW f \in Failures, Fail(s, f),
           UNCHANGED <<next, prepared, process, child, staged, outcome, faults>>
    PROVE  PoolInv'
<1>1. error' = [error EXCEPT ![s] = f] /\ error'[s] = f /\ f # None /\ Go(s, "kill")
  BY NoneAssumption DEF Fail, PoolInv, TypeOK
<1>2. at' \in Places /\ PlaceKnown'
  BY <1>1, SlotInPoll, Arrives DEF Steps
<1>3. SlotKnown(prepared[s], f, process[s], child[s])
  BY SlotInPoll, Failing
<1> QED BY <1>1, <1>2, <1>3, SlotInPoll, CoordinatorMoves

\* The coordinator goes on to the next step in the same slot.
LEMMA NextStep ==
    ASSUME PoolInv, NEW s \in Slots, at.slot = s, at.step \in {"check", "write", "errors", "output", "frame"},
           at' \in Places, PlaceKnown',
           UNCHANGED <<next, prepared, error, process, child, staged, outcome, faults>>
    PROVE  PoolInv'
<1>1. PICK e \in Failures \cup {None}, p \in Processes \cup {None}, c \in Workers \cup {None} :
          /\ process' = [process EXCEPT ![s] = p] /\ child' = [child EXCEPT ![s] = c]
          /\ error' = [error EXCEPT ![s] = e] /\ SlotKnown(prepared[s], e, p, c)
          /\ c # None => Staged(c)
          /\ prepared[s] # None => p # None \/ e # None
  BY SlotInPoll
<1>2. ~Dead /\ at.step # "purge"
  BY SlotInPoll
<1>3. UNCHANGED <<next, prepared, staged, outcome, faults>>
  OBVIOUS
<1> QED BY <1>1, <1>2, <1>3, CoordinatorMoves

LEMMA PollBeginsStep == ASSUME PoolInv, PollBegins PROVE PoolInv'
<1>1. ~Dead /\ at.step # "purge"
  BY DEF PollBegins, Outside, At, Dead
<1>2. at' \in Places /\ PlaceKnown'
  BY GoesOn DEF PollBegins
<1>3. PICK s \in Slots : TRUE
  BY PoolAssumption DEF Slots
<1>4. /\ error[s] \in Failures \cup {None} /\ process[s] \in Processes \cup {None}
      /\ child[s] \in Workers \cup {None} /\ SlotKnown(prepared[s], error[s], process[s], child[s])
      /\ child[s] # None => Staged(child[s])
      /\ prepared[s] # None => process[s] # None \/ error[s] # None
  BY <1>1 DEF PoolInv, TypeOK, JobsKnown, Staged, Active, At
<1>5. /\ process' = [process EXCEPT ![s] = process[s]] /\ child' = [child EXCEPT ![s] = child[s]]
      /\ error' = [error EXCEPT ![s] = error[s]] /\ UNCHANGED <<next, prepared, staged, outcome, faults>>
  BY DEF PollBegins, PoolInv, TypeOK
<1> QED BY <1>1, <1>2, <1>4, <1>5, CoordinatorMoves

LEMMA PollChecksStep == ASSUME PoolInv, NEW s \in Slots, PollChecks(s) PROVE PoolInv'
<1>1. at.slot = s /\ at.step = "check" /\ UNCHANGED <<next, prepared, process, child, staged, outcome, faults>>
  BY DEF PollChecks, At
<1>2. CASE error[s] # None /\ Go(s, "kill") /\ UNCHANGED error
  <2>1. at' \in Places /\ PlaceKnown'
    BY <1>1, <1>2, SlotInPoll, Arrives DEF Steps
  <2> QED BY <1>1, <1>2, <2>1, NextStep
<1>3. CASE Fail(s, "WorkerTimeout")
  BY <1>1, <1>3, FailStep DEF Failures
<1>4. CASE error[s] = None /\ Go(s, "write") /\ UNCHANGED error
  <2>1. at' \in Places /\ PlaceKnown'
    BY <1>1, <1>4, SlotInPoll, Arrives DEF Steps
  <2> QED BY <1>1, <1>4, <2>1, NextStep
<1> QED BY <1>2, <1>3, <1>4 DEF PollChecks

\* Of the pipes' contents only the pieces count.
LEMMA LogKeeps ==
    ASSUME NEW j, NEW e, NEW p \in Processes, NEW q \in Processes, NEW c \in Workers, NEW d \in Workers,
           SlotKnown(j, e, p, c), q.out = p.out, q.response = p.response,
           d.state = c.state, d.line = c.line, d.reply = c.reply, d.stdin = c.stdin, d.stdout = c.stdout
    PROVE  SlotKnown(j, e, q, d)
<1>1. p # None /\ q # None /\ c # None /\ d # None
  BY Fields
<1>2. Idle(p, c) => Idle(q, d)
  BY DEF Idle, Served
<1>3. Holds(c, j) => Holds(d, j)
  BY DEF Holds
<1>4. Sends(p, c, j) => Sends(q, d, j)
  BY DEF Sends
<1>5. Answers(p, c, j) => Answers(q, d, j)
  BY DEF Answers, Served
<1> QED BY <1>1, <1>2, <1>3, <1>4, <1>5 DEF SlotKnown

LEMMA PollErrorsStep == ASSUME PoolInv, NEW s \in Slots, PollErrors(s) PROVE PoolInv'
<1>1. at = [slot |-> s, step |-> "errors"] /\ at.slot = s /\ at.step = "errors"
      /\ UNCHANGED <<next, prepared, staged, outcome, faults>>
  BY DEF PollErrors, At
<1>2. CASE Fail(s, "WorkerFailed") /\ UNCHANGED <<process, child>>
  BY <1>1, <1>2, FailStep DEF Failures
<1>3. CASE /\ child[s].stderr > 0
           /\ process' = [process EXCEPT ![s].diagnostics = @ + 1]
           /\ child' = [child EXCEPT ![s].stderr = @ - 1]
           /\ UNCHANGED <<error, at>>
  <2> DEFINE q == [process[s] EXCEPT !.diagnostics = @ + 1]
             d == [child[s] EXCEPT !.stderr = @ - 1]
  <2>1. process[s] \in Processes /\ child[s] \in Workers
    BY <1>1, SlotInPoll
  <2>2. process' = [process EXCEPT ![s] = q] /\ child' = [child EXCEPT ![s] = d]
    BY <1>3, <2>1 DEF PoolInv, TypeOK
  <2>3. q \in Processes /\ q.out = process[s].out /\ q.response = process[s].response
    BY <2>1 DEF Processes
  <2>4. /\ d \in Workers /\ d.state = child[s].state /\ d.line = child[s].line /\ d.reply = child[s].reply
        /\ d.stdin = child[s].stdin /\ d.stdout = child[s].stdout
    <3>1. child[s].stderr \in Nat
      BY <2>1 DEF Workers
    <3>2. child[s].stderr - 1 \in Nat
      BY <1>3, <3>1
    <3> QED BY <2>1, <3>2 DEF Workers
  <2> HIDE DEF q, d
  <2>5. SlotKnown(prepared[s], error[s], q, d) /\ Staged(d) /\ q # None /\ d # None
    <3>1. child[s] # None
      BY <2>1, Fields
    <3> QED BY <1>1, <2>1, <2>3, <2>4, <3>1, SlotInPoll, LogKeeps, Fields DEF Staged
  <2>6. at' \in Places /\ PlaceKnown'
    <3>1. Go(s, "errors")
      BY <1>1, <1>3 DEF Go
    <3>2. prepared'[s] # None /\ error'[s] = None /\ process'[s] # None
      BY <1>1, <1>3, <2>2, <2>5, SlotInPoll DEF PoolInv, TypeOK
    <3> QED BY <3>1, <3>2, Arrives DEF Steps
  <2>7. error' = [error EXCEPT ![s] = error[s]]
    BY <1>1, <1>3, SlotInPoll
  <2> QED BY <1>1, <2>2, <2>3, <2>4, <2>5, <2>6, <2>7, SlotInPoll, CoordinatorMoves
<1>4. CASE Go(s, "output") /\ UNCHANGED <<error, process, child>>
  <2>1. at' \in Places /\ PlaceKnown'
    BY <1>1, <1>4, SlotInPoll, Arrives, Fields DEF Steps
  <2> QED BY <1>1, <1>4, <2>1, NextStep
<1> QED BY <1>2, <1>3, <1>4 DEF PollErrors

\* A piece of the request is written.
LEMMA WriteKeeps ==
    ASSUME NEW j \in Jobs, NEW p \in Processes, NEW q \in Processes, NEW c \in Workers, NEW d \in Workers,
           SlotKnown(j, None, p, c), p.out # <<>>, c.state # "gone",
           q.out = Tail(p.out), q.response = p.response, d.stdin = Append(c.stdin, Head(p.out)),
           d.state = c.state, d.line = c.line, d.reply = c.reply, d.stdout = c.stdout
    PROVE  SlotKnown(j, None, q, d) /\ Head(p.out).of = j
<1>1. /\ p # None /\ q # None /\ c # None /\ d # None /\ j # None
      /\ p.out \in Seq(Pieces) /\ c.stdin \in Seq(Pieces) /\ c.line \in Seq(Pieces) /\ Len(c.line) \in Nat
      /\ q.out \in Seq(Pieces)
  BY Fields, NoneAssumption
<1>2. /\ Head(p.out) \in Pieces /\ Head(p.out) = p.out[1] /\ 1 \in 1..Len(p.out)
      /\ Len(p.out) \in Nat \ {0} /\ Len(q.out) = Len(p.out) - 1
      /\ \A k \in 1..Len(q.out) : k + 1 \in 1..Len(p.out) /\ q.out[k] = p.out[k + 1]
      /\ Len(p.out) = 1 => q.out = <<>>
  BY <1>1, Behead
<1>3. /\ Len(d.stdin) = Len(c.stdin) + 1 /\ Len(c.stdin) \in Nat
      /\ d.stdin[Len(c.stdin) + 1] = Head(p.out)
      /\ \A k \in 1..Len(c.stdin) : d.stdin[k] = c.stdin[k]
      /\ \A k \in 1..Len(d.stdin) : k \in 1..Len(c.stdin) \/ k = Len(c.stdin) + 1
  BY <1>1, <1>2, Appended
<1>4. Holds(c, j) /\ Sends(p, c, j) /\ Answers(p, c, j)
  BY <1>1 DEF SlotKnown
<1>5. Head(p.out).of = j /\ (Head(p.out).end <=> 1 = Len(p.out))
  BY <1>2, <1>4 DEF Sends, LineOf
<1>6. Holds(d, j)
  BY <1>3, <1>4, <1>5 DEF Holds, AllOf
<1>7. c.state = "read"
  BY <1>1, <1>4, Fields DEF Sends, Children
<1>8. Sends(q, d, j)
  <2>1. LineOf(q.out, j)
    BY <1>2, <1>4 DEF Sends, LineOf
  <2>2. \A k \in 1..Len(d.stdin) : d.stdin[k].end => k = Len(d.stdin) /\ q.out = <<>>
    BY <1>2, <1>3, <1>4, <1>5 DEF Sends
  <2>3. Len(d.line) + Len(d.stdin) + Len(q.out) <= RequestLimit + 1
    <3>1. Len(c.line) + Len(c.stdin) + Len(p.out) <= RequestLimit + 1
      BY <1>4 DEF Sends
    <3>2. Len(q.out) \in Nat /\ Len(p.out) = Len(q.out) + 1
      <4>1. Len(q.out) \in Nat /\ Len(p.out) \in Nat /\ Len(q.out) = Len(p.out) - 1
        BY <1>1, <1>2
      <4> QED BY <4>1
    <3>3. PICK a, b, m \in Nat : a = Len(c.line) /\ b = Len(c.stdin) /\ m = Len(q.out)
      BY <1>1, <1>3, <3>2
    <3>4. a + b + (m + 1) <= RequestLimit + 1
      BY <3>1, <3>2, <3>3
    <3>5. a + (b + 1) + m <= RequestLimit + 1
      BY <3>4, PoolAssumption
    <3> QED BY <1>3, <3>3, <3>5
  <2> QED BY <1>4, <1>7, <2>1, <2>2, <2>3 DEF Sends
<1>9. Answers(q, d, j)
  BY <1>4 DEF Answers, Served
<1> QED BY <1>1, <1>5, <1>6, <1>8, <1>9 DEF SlotKnown

LEMMA PollWritesStep == ASSUME PoolInv, NEW s \in Slots, PollWrites(s) PROVE PoolInv'
<1>1. /\ at = [slot |-> s, step |-> "write"] /\ at.slot = s /\ at.step = "write"
      /\ UNCHANGED <<next, prepared, staged, outcome, faults>>
  BY DEF PollWrites, At
<1> DEFINE p == process[s]
           c == child[s]
<1>2. CASE Fail(s, "WorkerFailed") /\ UNCHANGED <<process, child>>
  BY <1>1, <1>2, FailStep DEF Failures
<1>3. CASE /\ p.out # <<>> /\ c.state # "gone"
           /\ process' = [process EXCEPT ![s].out = Tail(@)]
           /\ child' = [child EXCEPT ![s].stdin = Append(@, Head(p.out))]
           /\ UNCHANGED <<error, at>>
  <2> DEFINE q == [p EXCEPT !.out = Tail(p.out)]
             d == [c EXCEPT !.stdin = Append(c.stdin, Head(p.out))]
  <2>1. /\ p \in Processes /\ c \in Workers /\ prepared[s] \in Jobs /\ error[s] = None
        /\ SlotKnown(prepared[s], None, p, c) /\ Staged(c)
    BY <1>1, SlotInPoll, Fields
  <2>2. process' = [process EXCEPT ![s] = q] /\ child' = [child EXCEPT ![s] = d]
    BY <1>3, <2>1 DEF PoolInv, TypeOK
  <2>3. p.out \in Seq(Pieces) /\ c.stdin \in Seq(Pieces)
    BY <2>1, Fields
  <2>4. Tail(p.out) \in Seq(Pieces) /\ Head(p.out) \in Pieces /\ Append(c.stdin, Head(p.out)) \in Seq(Pieces)
    BY <1>3, <2>3, Behead, Appended
  <2>5. q \in Processes /\ q.out = Tail(p.out) /\ q.response = p.response
    BY <2>1, <2>4 DEF Processes
  <2>6. /\ d \in Workers /\ d.state = c.state /\ d.line = c.line /\ d.reply = c.reply
        /\ d.stdin = Append(c.stdin, Head(p.out)) /\ d.stdout = c.stdout
    BY <2>1, <2>4 DEF Workers
  <2> HIDE DEF q, d, p, c
  <2>7. SlotKnown(prepared[s], None, q, d) /\ Head(p.out).of = prepared[s] /\ q # None /\ d # None
    BY <1>3, <2>1, <2>5, <2>6, WriteKeeps, Fields
  <2>8. Staged(d)
    <3>1. prepared[s] \in staged
      BY <2>1, NoneAssumption DEF PoolInv, JobsKnown
    <3> QED BY <2>1, <2>3, <2>4, <2>6, <2>7, <3>1, Appended DEF Staged
  <2>9. at' \in Places /\ PlaceKnown'
    <3>1. Go(s, "write")
      BY <1>1, <1>3 DEF Go
    <3>2. prepared'[s] # None /\ error'[s] = None /\ process'[s] # None
      BY <1>1, <1>3, <2>1, <2>2, <2>7, SlotInPoll DEF PoolInv, TypeOK
    <3> QED BY <3>1, <3>2, Arrives DEF Steps
  <2>10. error' = [error EXCEPT ![s] = None]
    BY <1>1, <1>3, <2>1, SlotInPoll
  <2> QED BY <1>1, <2>2, <2>5, <2>6, <2>7, <2>8, <2>9, <2>10, SlotInPoll, CoordinatorMoves
<1>4. CASE Go(s, "errors") /\ UNCHANGED <<error, process, child>>
  <2>1. at' \in Places /\ PlaceKnown'
    BY <1>1, <1>4, SlotInPoll, Arrives, Fields DEF Steps
  <2> QED BY <1>1, <1>4, <2>1, NextStep
<1> QED BY <1>2, <1>3, <1>4 DEF PollWrites

\* A piece of the answer is taken from the pipe.
LEMMA OutputKeeps ==
    ASSUME NEW j \in Jobs, NEW p \in Processes, NEW q \in Processes, NEW c \in Workers, NEW d \in Workers,
           SlotKnown(j, None, p, c), c.stdout # <<>>,
           q.out = p.out, q.response = Append(p.response, Head(c.stdout)), d.stdout = Tail(c.stdout),
           d.state = c.state, d.line = c.line, d.reply = c.reply, d.stdin = c.stdin
    PROVE  SlotKnown(j, None, q, d)
<1>1. /\ p # None /\ q # None /\ c # None /\ d # None /\ j # None
      /\ p.response \in Seq(Pieces) /\ c.stdout \in Seq(Pieces)
  BY Fields, NoneAssumption
<1>2. /\ Head(c.stdout) \in Pieces /\ Head(c.stdout) = c.stdout[1] /\ 1 \in 1..Len(c.stdout)
      /\ Len(c.stdout) \in Nat \ {0} /\ Len(d.stdout) = Len(c.stdout) - 1
      /\ \A k \in 1..Len(d.stdout) : k + 1 \in 1..Len(c.stdout) /\ d.stdout[k] = c.stdout[k + 1]
  BY <1>1, Behead
<1>3. /\ Len(q.response) = Len(p.response) + 1 /\ Len(p.response) \in Nat
      /\ q.response[Len(p.response) + 1] = Head(c.stdout)
      /\ \A k \in 1..Len(p.response) : q.response[k] = p.response[k]
      /\ \A k \in 1..Len(q.response) : k \in 1..Len(p.response) \/ k = Len(p.response) + 1
  BY <1>1, <1>2, Appended
<1>4. Holds(c, j) /\ Sends(p, c, j) /\ Answers(p, c, j)
  BY <1>1 DEF SlotKnown
<1>5. Holds(d, j) /\ Sends(q, d, j)
  BY <1>4 DEF Holds, Sends
<1>6. AnswerTo(d.stdout, j) /\ AnswerTo(q.response, j)
  <2>1. AnswerTo(d.stdout, j)
    BY <1>2, <1>4 DEF Answers, AnswerTo
  <2>2. AnswerTo(q.response, j)
    BY <1>2, <1>3, <1>4 DEF Answers, AnswerTo
  <2> QED BY <2>1, <2>2
<1>7. Served(q, d) \/ (Unfinished(d.stdout, j) /\ Unfinished(q.response, j))
  <2>1. CASE Served(p, c)
    BY <2>1 DEF Served
  <2>2. CASE Unfinished(c.stdout, j) /\ Unfinished(p.response, j)
    BY <1>2, <1>3, <2>2 DEF Unfinished
  <2> QED BY <1>4, <2>1, <2>2 DEF Answers
<1>8. Unfinished(q.response, j) \/ NoneOf(d.stdout, j)
  <2>1. CASE Head(c.stdout).of = j /\ Head(c.stdout).end
    <3>1. ASSUME NEW k \in 1..Len(d.stdout) PROVE d.stdout[k].of # j
      <4>1. k + 1 \in 1..Len(c.stdout) /\ d.stdout[k] = c.stdout[k + 1] /\ 1 < k + 1
        BY <1>2
      <4>2. \A b \in 1..Len(c.stdout) : 1 < b => c.stdout[b].of # j
        BY <1>2, <1>4, <2>1 DEF Answers
      <4> QED BY <4>1, <4>2
    <3> QED BY <3>1 DEF NoneOf
  <2>2. CASE ~(Head(c.stdout).of = j /\ Head(c.stdout).end) /\ Unfinished(p.response, j)
    BY <1>3, <2>2 DEF Unfinished
  <2>3. CASE NoneOf(c.stdout, j)
    BY <1>2, <2>3 DEF NoneOf
  <2> QED BY <1>4, <2>1, <2>2, <2>3 DEF Answers
<1>9. ASSUME NEW a \in 1..Len(d.stdout), NEW b \in 1..Len(d.stdout),
             a < b, d.stdout[a].of = j, d.stdout[a].end
      PROVE  d.stdout[b].of # j
  <2>1. a + 1 \in 1..Len(c.stdout) /\ b + 1 \in 1..Len(c.stdout) /\ a + 1 < b + 1
    BY <1>2, <1>9
  <2>2. d.stdout[a] = c.stdout[a + 1] /\ d.stdout[b] = c.stdout[b + 1]
    BY <1>2
  <2> QED BY <1>4, <1>9, <2>1, <2>2 DEF Answers
<1>10. Answers(q, d, j)
  BY <1>4, <1>6, <1>7, <1>8, <1>9 DEF Answers
<1> QED BY <1>1, <1>5, <1>10 DEF SlotKnown

LEMMA PollOutputStep == ASSUME PoolInv, NEW s \in Slots, PollOutput(s) PROVE PoolInv'
<1>1. /\ at = [slot |-> s, step |-> "output"] /\ at.slot = s /\ at.step = "output"
      /\ UNCHANGED <<next, prepared, staged, outcome, faults>>
  BY DEF PollOutput, At
<1> DEFINE p == process[s]
           c == child[s]
<1>2. CASE Fail(s, "WorkerFailed") /\ UNCHANGED <<process, child>>
  BY <1>1, <1>2, FailStep DEF Failures
<1>3. CASE /\ c.stdout # <<>>
           /\ process' = [process EXCEPT ![s].response = Append(@, Head(c.stdout))]
           /\ child' = [child EXCEPT ![s].stdout = Tail(@)]
           /\ UNCHANGED <<error, at>>
  <2> DEFINE q == [p EXCEPT !.response = Append(p.response, Head(c.stdout))]
             d == [c EXCEPT !.stdout = Tail(c.stdout)]
  <2>1. /\ p \in Processes /\ c \in Workers /\ prepared[s] \in Jobs /\ error[s] = None
        /\ SlotKnown(prepared[s], None, p, c) /\ Staged(c)
    BY <1>1, SlotInPoll, Fields
  <2>2. process' = [process EXCEPT ![s] = q] /\ child' = [child EXCEPT ![s] = d]
    BY <1>3, <2>1 DEF PoolInv, TypeOK
  <2>3. p.response \in Seq(Pieces) /\ c.stdout \in Seq(Pieces)
    BY <2>1, Fields
  <2>4. Tail(c.stdout) \in Seq(Pieces) /\ Append(p.response, Head(c.stdout)) \in Seq(Pieces)
    BY <1>3, <2>3, Behead, Appended
  <2>5. q \in Processes /\ q.out = p.out /\ q.response = Append(p.response, Head(c.stdout))
    BY <2>1, <2>4 DEF Processes
  <2>6. /\ d \in Workers /\ d.state = c.state /\ d.line = c.line /\ d.reply = c.reply
        /\ d.stdin = c.stdin /\ d.stdout = Tail(c.stdout)
    BY <2>1, <2>4 DEF Workers
  <2> HIDE DEF q, d, p, c
  <2>7. SlotKnown(prepared[s], None, q, d) /\ q # None /\ d # None
    BY <1>3, <2>1, <2>5, <2>6, OutputKeeps, Fields
  <2>8. Staged(d)
    BY <2>1, <2>6 DEF Staged
  <2>9. at' \in Places /\ PlaceKnown'
    <3>1. Go(s, "output")
      BY <1>1, <1>3 DEF Go
    <3>2. prepared'[s] # None /\ error'[s] = None /\ process'[s] # None
      BY <1>1, <1>3, <2>1, <2>2, <2>7, SlotInPoll DEF PoolInv, TypeOK
    <3> QED BY <3>1, <3>2, Arrives DEF Steps
  <2>10. error' = [error EXCEPT ![s] = None]
    BY <1>1, <1>3, <2>1, SlotInPoll
  <2> QED BY <1>1, <2>2, <2>5, <2>6, <2>7, <2>8, <2>9, <2>10, SlotInPoll, CoordinatorMoves
<1>4. CASE Go(s, "frame") /\ UNCHANGED <<error, process, child>>
  <2>1. at' \in Places /\ PlaceKnown'
    BY <1>1, <1>4, SlotInPoll, Arrives, Fields DEF Steps
  <2> QED BY <1>1, <1>4, <2>1, NextStep
<1> QED BY <1>2, <1>3, <1>4 DEF PollOutput

\* What is staged when the copy of slot s, which nothing reads, is deleted.
LEMMA Unstages ==
    ASSUME PoolInv, ~Dead, NEW s \in Slots, UNCHANGED <<next, child>>,
           prepared' = [prepared EXCEPT ![s] = None], staged' = staged \ {prepared[s]},
           child[s] # None => Idle(process[s], child[s])
    PROVE  JobsKnown'
<1> USE DEF PoolInv
<1>1. \A t \in Slots : prepared'[t] # None => t # s /\ prepared'[t] = prepared[t]
  BY DEF TypeOK
<1>2. \A t \in Slots : prepared'[t] # None => prepared'[t] < next' /\ prepared'[t] \in staged'
  BY <1>1 DEF JobsKnown
<1>3. \A t, u \in Slots : t # u /\ prepared'[t] # None => prepared'[t] # prepared'[u]
  BY <1>1 DEF JobsKnown, TypeOK
<1>4. ASSUME NEW t \in Slots, child[t] # None PROVE Staged(child[t])'
  <2>1. Staged(child[t])
    BY <1>4 DEF JobsKnown, Staged
  <2>2. CASE t = s \/ prepared[t] = None
    <3>1. Idle(process[t], child[t])
      BY <1>4, <2>2 DEF SlotKnown
    <3>2. child[t].line = <<>> /\ child[t].stdin = <<>> /\ child[t].state # "encode"
      BY <3>1 DEF Idle, Served
    <3> QED BY <3>2 DEF Staged
  <2>3. CASE t # s /\ prepared[t] # None
    <3>1. Holds(child[t], prepared[t])
      BY <1>4, <2>3 DEF SlotKnown
    <3>2. prepared[t] # prepared[s]
      BY <2>3 DEF JobsKnown
    <3>3. /\ \A k \in 1..Len(child[t].line) : child[t].line[k].of # prepared[s]
          /\ \A k \in 1..Len(child[t].stdin) : child[t].stdin[k].of # prepared[s]
      BY <3>1, <3>2 DEF Holds, AllOf
    <3> QED BY <2>1, <3>3 DEF Staged
  <2> QED BY <2>2, <2>3
<1> QED BY <1>2, <1>3, <1>4 DEF JobsKnown, Staged

\* The coordinator reports the outcome of a slot, and leaves the pool.
LEMMA FreesStep ==
    ASSUME PoolInv, ~Dead, at.step # "purge", NEW s \in Slots, prepared[s] \in Jobs, Go(0, "outside"),
           NEW o \in [is : Failures \cup {"encoded"}, of : Jobs], outcome' = [outcome EXCEPT ![prepared[s]] = o],
           prepared' = [prepared EXCEPT ![s] = None], staged' = staged \ {prepared[s]},
           error' = [error EXCEPT ![s] = None], UNCHANGED <<next, process, child, faults>>,
           SlotKnown(None, None, process[s], child[s])
    PROVE  PoolInv'
<1> USE DEF PoolInv
<1>1. at' = [slot |-> 0, step |-> "outside"] /\ PlaceKnown' /\ ~Dead'
  BY GoesOut DEF Go, Dead, At
<1>2. JobsKnown'
  <2>1. child[s] # None => Idle(process[s], child[s])
    BY DEF SlotKnown
  <2> QED BY <2>1, Unstages
<1>3. ASSUME NEW t \in Slots PROVE SlotKnown(prepared[t], error[t], process[t], child[t])'
  <2>1. SlotKnown(prepared'[t], error'[t], process[t], child[t])
    BY DEF TypeOK
  <2> QED BY <2>1
<1>4. TypeOK'
  <2>1. /\ next' \in 1..MaxJobs + 1 /\ staged' \subseteq Jobs /\ faults' \in 0..MaxFaults
        /\ prepared' \in [Slots -> Jobs \cup {None}] /\ error' \in [Slots -> Failures \cup {None}]
        /\ process' \in [Slots -> Processes \cup {None}] /\ child' \in [Slots -> Workers \cup {None}]
    BY DEF TypeOK
  <2>2. outcome' \in [Jobs -> [is : Failures \cup {"encoded"}, of : Jobs] \cup {None}]
    BY DEF TypeOK
  <2>3. at' \in [slot : Slots, step : Steps] \cup [slot : {0}, step : {"outside", "closed", "dead"}]
    BY <1>1
  <2>4. ASSUME NEW t \in Slots
        PROVE  /\ (process'[t] # None <=> child'[t] # None)
               /\ t \in Active' => process'[t] # None \/ error'[t] # None \/ At(t, "purge")'
    BY DEF TypeOK, Active, At
  <2> QED BY <2>1, <2>2, <2>3, <2>4 DEF TypeOK
<1> QED BY <1>2, <1>1, <1>3, <1>4

LEMMA ReportsStep == ASSUME PoolInv, NEW s \in Slots, Reports(s) PROVE PoolInv'
<1>1. at = [slot |-> s, step |-> "delete"] /\ at.step = "delete"
  BY DEF Reports, At
<1>2. ~Dead /\ at.step # "purge"
  BY <1>1 DEF Dead, At
<1>3. /\ prepared[s] \in Jobs /\ error[s] \in Failures
      /\ process[s] = None /\ child[s] = None
  BY <1>1, NoneAssumption DEF PoolInv, PlaceKnown, TypeOK, At
<1>4. [is |-> error[s], of |-> prepared[s]] \in [is : Failures \cup {"encoded"}, of : Jobs]
  BY <1>3
<1>5. SlotKnown(None, None, process[s], child[s])
  BY <1>3 DEF SlotKnown
<1>6. /\ Go(0, "outside") /\ outcome' = [outcome EXCEPT ![prepared[s]] = [is |-> error[s], of |-> prepared[s]]]
      /\ prepared' = [prepared EXCEPT ![s] = None] /\ staged' = staged \ {prepared[s]}
      /\ error' = [error EXCEPT ![s] = None] /\ UNCHANGED <<next, process, child, faults>>
  BY DEF Reports
<1> QED BY <1>2, <1>3, <1>4, <1>5, <1>6, FreesStep

\* Only the job's own answer is taken for it, and then the worker is done.
LEMMA FrameKnown ==
    ASSUME NEW j \in Jobs, NEW p \in Processes, NEW c \in Workers, SlotKnown(j, None, p, c),
           Framed(p.response), Says(p.response) = "encoded"
    PROVE  p.response[1].of = j /\ SlotKnown(None, None, p, c)
<1> DEFINE r == p.response
<1>1. p # None /\ c # None /\ j # None /\ r \in Seq(Pieces) /\ c.stdout \in Seq(Pieces) /\ c.state \in Children
  BY Fields, NoneAssumption
<1>2. Sends(p, c, j) /\ Answers(p, c, j)
  BY <1>1 DEF SlotKnown
<1>3. Len(r) \in 1..Len(r) /\ 1 \in 1..Len(r) /\ r[Len(r)].end
  <2>1. Len(r) \in DOMAIN r /\ r[Len(r)].end /\ Len(r) \in Nat /\ DOMAIN r = 1..Len(r)
    BY <1>1 DEF Framed, Newlines
  <2> QED BY <2>1
<1>4. (\A i \in DOMAIN r : r[i].of = r[1].of) /\ r[1].of # 0
  <2>1. ASSUME ~(\A i \in DOMAIN r : r[i].of = r[1].of /\ r[1].of # 0) PROVE FALSE
    <3>1. Says(r) = "misfit"
      BY <2>1, Zenon DEF Says
    <3> QED BY <3>1
  <2>2. 1 \in DOMAIN r
    BY <1>1, <1>3
  <2> QED BY <2>1, <2>2
<1>5. r[1].of = j
  BY <1>2, <1>3, <1>4 DEF Answers, AnswerTo
<1>6. r[Len(r)].of = j
  <2>1. DOMAIN r = 1..Len(r)
    BY <1>1
  <2> QED BY <1>3, <1>4, <1>5, <2>1
<1>7. ~Unfinished(r, j)
  BY <1>3, <1>6 DEF Unfinished
<1>8. Served(p, c) /\ NoneOf(c.stdout, j)
  BY <1>2, <1>7 DEF Answers
<1>9. AllOf(c.stdout, 0)
  BY <1>2, <1>8 DEF Answers, AnswerTo, NoneOf, AllOf
<1>10. c.state \in {"read", "gone"}
  BY <1>1, <1>2, <1>8 DEF Sends, Served, Children
<1> QED BY <1>1, <1>5, <1>8, <1>9, <1>10 DEF SlotKnown, Idle

LEMMA PollFramesStep == ASSUME PoolInv, NEW s \in Slots, PollFrames(s) PROVE PoolInv'
<1> DEFINE r == process[s].response
           failure == IF Framed(r) /\ Says(r) # "misfit" THEN Says(r) ELSE "WorkerFailed"
<1>1. /\ at.slot = s /\ at.step = "frame" /\ UNCHANGED <<next, process, child, faults>>
  BY DEF PollFrames, At
<1>2. /\ ~Dead /\ at.step # "purge" /\ prepared[s] \in Jobs /\ error[s] = None
      /\ process[s] \in Processes /\ child[s] \in Workers
      /\ SlotKnown(prepared[s], None, process[s], child[s])
  BY <1>1, SlotInPoll
<1>3. CASE /\ Framed(r) /\ Says(r) = "encoded"
           /\ outcome' = [outcome EXCEPT ![prepared[s]] = [is |-> "encoded", of |-> r[1].of]]
           /\ prepared' = [prepared EXCEPT ![s] = None] /\ staged' = staged \ {prepared[s]}
           /\ Go(0, "outside") /\ UNCHANGED error
  <2>1. r[1].of = prepared[s] /\ SlotKnown(None, None, process[s], child[s])
    BY <1>2, <1>3, FrameKnown
  <2>2. [is |-> "encoded", of |-> r[1].of] \in [is : Failures \cup {"encoded"}, of : Jobs]
    BY <1>2, <2>1
  <2>3. error' = [error EXCEPT ![s] = None]
    BY <1>2, <1>3 DEF PoolInv, TypeOK
  <2> QED BY <1>1, <1>2, <1>3, <2>1, <2>2, <2>3, FreesStep
<1>4. CASE /\ ~(Framed(r) /\ Says(r) = "encoded") /\ Newlines(r) # {}
           /\ Fail(s, failure) /\ UNCHANGED <<outcome, prepared, staged>>
  <2>1. failure \in Failures
    <3>1. CASE Framed(r) /\ Says(r) # "misfit"
      <4>1. Says(r) \in Sayings
        <5>1. /\ r \in Seq(Pieces) /\ AnswerTo(r, prepared[s])
          BY <1>2, Fields, NoneAssumption DEF SlotKnown, Answers
        <5>2. DOMAIN r = 1..Len(r) /\ Len(r) \in Nat
          BY <5>1
        <5>3. Len(r) \in DOMAIN r
          BY <3>1 DEF Framed, Newlines
        <5>4. 1 \in DOMAIN r
          BY <5>2, <5>3
        <5>5. Says(r) = r[1].says /\ r[1].of # 0
          <6>1. ASSUME ~(\A i \in DOMAIN r : r[i].of = r[1].of /\ r[1].of # 0) PROVE FALSE
            BY <3>1, <6>1, Zenon DEF Says
          <6>2. Says(r) = r[1].says
            BY <6>1, Zenon DEF Says
          <6> QED BY <5>4, <6>1, <6>2
        <5> QED BY <5>1, <5>2, <5>4, <5>5 DEF AnswerTo
      <4> QED BY <1>4, <3>1, <4>1 DEF Sayings, Failures
    <3>2. CASE ~(Framed(r) /\ Says(r) # "misfit")
      BY <3>2 DEF Failures
    <3> QED BY <3>1, <3>2
  <2> HIDE DEF failure
  <2> QED BY <1>1, <1>4, <2>1, FailStep
<1>5. CASE Fail(s, "WorkerFailed") /\ UNCHANGED <<outcome, prepared, staged>>
  BY <1>1, <1>5, FailStep DEF Failures
<1>6. CASE PollAfter(s) /\ UNCHANGED <<outcome, prepared, staged, error>>
  <2>1. at' \in Places /\ PlaceKnown'
    BY <1>6, GoesOn
  <2> QED BY <1>1, <1>6, <2>1, NextStep
<1> QED BY <1>3, <1>4, <1>5, <1>6 DEF PollFrames

LEMMA KillsStep == ASSUME PoolInv, NEW s \in Slots, Kills(s) PROVE PoolInv'
<1>1. at = [slot |-> s, step |-> "kill"] /\ at.step = "kill" /\ UNCHANGED <<next, prepared, error, staged, outcome, faults>>
  BY DEF Kills, At
<1>2. ~Dead /\ at.step # "purge"
  BY <1>1 DEF Dead, At
<1>3. prepared[s] # None /\ error[s] # None /\ error[s] \in Failures
  BY <1>1 DEF PoolInv, PlaceKnown, TypeOK, At
<1>4. SlotKnown(prepared[s], error[s], None, None)
  BY DEF SlotKnown
<1>5. /\ process' = [process EXCEPT ![s] = None] /\ child' = [child EXCEPT ![s] = None]
      /\ error' = [error EXCEPT ![s] = error[s]]
  BY DEF Kills, PoolInv, TypeOK
<1>6. at' \in Places /\ PlaceKnown'
  <2>1. Go(s, "delete") /\ process'[s] = None /\ child'[s] = None
    BY <1>5 DEF Kills, PoolInv, TypeOK
  <2>2. prepared'[s] # None /\ error'[s] # None
    BY <1>1, <1>3
  <2> QED BY <2>1, <2>2, Arrives DEF Steps
<1> QED BY <1>1, <1>2, <1>3, <1>4, <1>5, <1>6, CoordinatorMoves

-----------------------------------------------------------------------------
(* A new job.                                                              *)

\* A request for an idle worker.
LEMMA BeginKeeps ==
    ASSUME NEW j \in Jobs, NEW n \in Nat, n <= RequestLimit, NEW v \in {None},
           NEW p, NEW c \in Workers, NEW q \in Processes, Idle(p, c),
           q.out = Line(j, n, v), q.response = <<>>
    PROVE  SlotKnown(j, None, q, c)
<1>1. /\ q # None /\ c # None /\ j # None /\ j # 0 /\ j \in 0..MaxJobs
  BY Fields, NoneAssumption, PoolAssumption DEF Jobs
<1>2. /\ c.line = <<>> /\ c.stdin = <<>> /\ c.reply = <<>> /\ c.state \in {"read", "gone"} /\ AllOf(c.stdout, 0)
  BY DEF Idle, Served
<1>3. Len(q.out) = n + 1 /\ LineOf(q.out, j)
  BY <1>1, NewLine
<1>4. Holds(c, j)
  BY <1>2 DEF Holds, AllOf
<1>5. Sends(q, c, j)
  <2>1. Len(c.line) + Len(c.stdin) + Len(q.out) <= RequestLimit + 1
    <3>1. Len(c.line) = 0 /\ Len(c.stdin) = 0
      BY <1>2
    <3> QED BY <1>3, <3>1, PoolAssumption
  <2> QED BY <1>2, <1>3, <2>1 DEF Sends
<1>6. Answers(q, c, j)
  BY <1>1, <1>2 DEF Answers, LineOf, AnswerTo, AllOf, Unfinished, NoneOf
<1> QED BY <1>1, <1>4, <1>5, <1>6 DEF SlotKnown

\* A slot takes the next job, if what must be known of it is.
LEMMA TakesJob ==
    ASSUME PoolInv, Outside, next \in Jobs, NEW s \in Slots, prepared[s] = None,
           NEW e \in Failures \cup {None}, NEW p \in Processes \cup {None}, NEW c \in Workers \cup {None},
           process' = [process EXCEPT ![s] = p], child' = [child EXCEPT ![s] = c],
           error' = [error EXCEPT ![s] = e], prepared' = [prepared EXCEPT ![s] = next],
           staged' = staged \cup {next}, next' = next + 1, UNCHANGED <<outcome, at>>, faults' \in 0..MaxFaults,
           SlotKnown(next, e, p, c), c # None => Staged(c), p # None \/ e # None
    PROVE  PoolInv'
<1> USE DEF PoolInv
<1>1. ~Dead /\ at' = [slot |-> 0, step |-> "outside"] /\ at.step = "outside"
  BY DEF Outside, Dead, At
<1>2. 0 \notin Slots
  BY PoolAssumption DEF Slots
<1>3. PlaceKnown'
  BY <1>1, <1>2 DEF PlaceKnown, At
<1>4. next' \in 1..MaxJobs + 1 /\ next \in Nat /\ next' > next
  BY PoolAssumption DEF Jobs
<1>5. JobsKnown'
  <2>1. ASSUME NEW t \in Slots, prepared'[t] # None PROVE prepared'[t] < next' /\ prepared'[t] \in staged'
    <3>1. CASE t = s
      BY <1>4, <3>1 DEF TypeOK
    <3>2. CASE t # s
      <4>1. prepared'[t] = prepared[t] /\ prepared[t] \in Jobs /\ prepared[t] < next /\ prepared[t] \in staged
        BY <2>1, <3>2 DEF TypeOK, JobsKnown
      <4>2. prepared[t] \in Nat
        BY <4>1, PoolAssumption DEF Jobs
      <4> QED BY <1>4, <4>1, <4>2
    <3> QED BY <3>1, <3>2
  <2>2. ASSUME NEW t \in Slots, NEW u \in Slots, t # u, prepared'[t] # None PROVE prepared'[t] # prepared'[u]
    <3>1. \A x \in Slots : prepared[x] # next
      <4>1. next # None /\ ~(next < next)
        BY <1>4, NoneAssumption
      <4> QED BY <4>1 DEF JobsKnown
    <3> QED BY <2>2, <3>1 DEF JobsKnown, TypeOK
  <2>3. ASSUME NEW t \in Slots, child'[t] # None PROVE Staged(child[t])'
    <3>1. Staged(child'[t])
      BY <2>3 DEF JobsKnown, TypeOK, Staged
    <3> QED BY <3>1 DEF Staged
  <2> QED BY <2>1, <2>2, <2>3 DEF JobsKnown, Staged
<1>6. ASSUME NEW t \in Slots PROVE SlotKnown(prepared[t], error[t], process[t], child[t])'
  <2>1. SlotKnown(prepared'[t], error'[t], process'[t], child'[t])
    BY <1>1 DEF TypeOK
  <2> QED BY <2>1
<1>7. TypeOK'
  <2>1. /\ staged' \subseteq Jobs
        /\ prepared' \in [Slots -> Jobs \cup {None}] /\ error' \in [Slots -> Failures \cup {None}]
        /\ process' \in [Slots -> Processes \cup {None}] /\ child' \in [Slots -> Workers \cup {None}]
    BY DEF TypeOK
  <2>2. outcome' \in [Jobs -> [is : Failures \cup {"encoded"}, of : Jobs] \cup {None}]
    BY DEF TypeOK
  <2>3. at' \in [slot : Slots, step : Steps] \cup [slot : {0}, step : {"outside", "closed", "dead"}]
    BY <1>1
  <2>4. ASSUME NEW t \in Slots
        PROVE  /\ (process'[t] # None <=> child'[t] # None)
               /\ t \in Active' => process'[t] # None \/ error'[t] # None \/ At(t, "purge")'
    <3>1. process'[t] # None <=> child'[t] # None
      BY <1>6 DEF SlotKnown
    <3>2. prepared'[t] # None => process'[t] # None \/ error'[t] # None
      <4>1. CASE t = s
        BY <4>1 DEF TypeOK
      <4>2. CASE t # s
        <5>1. prepared[t] # None => process[t] # None \/ error[t] # None
          <6>1. ~At(t, "purge")
            BY <1>1 DEF At
          <6> QED BY <6>1 DEF TypeOK, Active
        <5> QED BY <4>2, <5>1 DEF TypeOK
      <4> QED BY <4>1, <4>2
    <3> QED BY <3>1, <3>2 DEF Active
  <2> QED BY <1>4, <2>1, <2>2, <2>3, <2>4 DEF TypeOK
<1> QED BY <1>3, <1>5, <1>6, <1>7

LEMMA SubmitStep == ASSUME PoolInv, Submit PROVE PoolInv'
<1> USE DEF PoolInv
<1>1. /\ Outside /\ next \in Jobs /\ staged' = staged \cup {next} /\ next' = next + 1 /\ UNCHANGED <<outcome, at>>
  <2>1. next \in 1..MaxJobs + 1 /\ next <= MaxJobs /\ MaxJobs \in Nat
    BY PoolAssumption DEF Submit, TypeOK
  <2>2. next \in Jobs
    BY <2>1 DEF Jobs
  <2> QED BY <2>2 DEF Submit
<1>2. ~Dead
  BY <1>1 DEF Outside, Dead, At
<1>3. PICK s \in Slots \ Active, n \in Requests :
          LET kept == process[s] # None
              p == IF kept THEN process[s] ELSE NewProcess
              c == IF kept THEN child[s] ELSE NewChild
          IN
          /\ prepared' = [prepared EXCEPT ![s] = next]
          /\ \/ /\ ~kept /\ faults < MaxFaults /\ faults' = faults + 1
                /\ error' = [error EXCEPT ![s] = "WorkerFailed"] /\ UNCHANGED <<process, child>>
             \/ /\ n <= RequestLimit
                /\ process' = [process EXCEPT ![s] = Begin(p, n)] /\ child' = [child EXCEPT ![s] = c]
                /\ UNCHANGED <<error, faults>>
             \/ /\ process' = [process EXCEPT ![s] = p] /\ child' = [child EXCEPT ![s] = c]
                /\ error' = [error EXCEPT ![s] = "InvalidRequest"] /\ UNCHANGED faults
  BY DEF Submit
<1>4. prepared[s] = None /\ SlotKnown(None, error[s], process[s], child[s]) /\ n \in Nat /\ prepared' = [prepared EXCEPT ![s] = next]
  BY <1>2, <1>3, PoolAssumption DEF Active
<1>5. PICK p \in Processes, c \in Workers :
          /\ p = (IF process[s] # None THEN process[s] ELSE NewProcess)
          /\ c = (IF process[s] # None THEN child[s] ELSE NewChild)
          /\ Idle(p, c) /\ Staged(c)
  <2>1. CASE process[s] # None
    <3>1. process[s] \in Processes /\ child[s] \in Workers /\ child[s] # None
      BY <1>4, <2>1 DEF TypeOK, SlotKnown
    <3>2. Idle(process[s], child[s]) /\ Staged(child[s])
      BY <1>4, <2>1, <3>1 DEF SlotKnown, JobsKnown, Staged
    <3> QED BY <2>1, <3>1, <3>2
  <2>2. CASE process[s] = None
    <3>1. NewProcess \in Processes /\ NewChild \in Workers
      BY DEF NewProcess, NewChild, Processes, Workers, Children
    <3>2. Idle(NewProcess, NewChild) /\ Staged(NewChild)
      BY DEF NewProcess, NewChild, Idle, Served, Staged, AllOf
    <3> QED BY <2>2, <3>1, <3>2
  <2> QED BY <2>1, <2>2
<1>6. CASE /\ process[s] = None /\ faults < MaxFaults /\ faults' = faults + 1
           /\ error' = [error EXCEPT ![s] = "WorkerFailed"] /\ UNCHANGED <<process, child>>
  <2>1. process' = [process EXCEPT ![s] = None] /\ child' = [child EXCEPT ![s] = None]
    BY <1>4, <1>6 DEF TypeOK, SlotKnown
  <2>2. SlotKnown(next, "WorkerFailed", None, None)
    BY DEF SlotKnown
  <2>3. faults' \in 0..MaxFaults /\ "WorkerFailed" \in Failures /\ "WorkerFailed" # None
    BY <1>6, PoolAssumption, NoneAssumption DEF TypeOK, Failures
  <2> QED BY <1>1, <1>4, <1>6, <2>1, <2>2, <2>3, TakesJob
<1>7. CASE /\ n <= RequestLimit
           /\ process' = [process EXCEPT ![s] = Begin(p, n)] /\ child' = [child EXCEPT ![s] = c]
           /\ UNCHANGED <<error, faults>>
  <2>1. Line(next, n, None) \in Seq(Pieces) /\ <<>> \in Seq(Pieces)
    BY <1>1, <1>4, NewLine, PoolAssumption DEF Jobs
  <2>2. Begin(p, n) \in Processes /\ Begin(p, n).out = Line(next, n, None) /\ Begin(p, n).response = <<>>
    BY <1>5, <2>1 DEF Begin, Processes
  <2>3. SlotKnown(next, None, Begin(p, n), c)
    BY <1>1, <1>4, <1>5, <1>7, <2>2, BeginKeeps
  <2>4. SlotKnown(next, error[s], Begin(p, n), c) /\ Begin(p, n) # None
    BY <2>2, <2>3, Fields DEF SlotKnown
  <2>5. error' = [error EXCEPT ![s] = error[s]] /\ error[s] \in Failures \cup {None} /\ faults' \in 0..MaxFaults
    BY <1>7 DEF TypeOK
  <2> HIDE DEF PoolInv
  <2> QED BY <1>1, <1>4, <1>5, <1>7, <2>2, <2>4, <2>5, TakesJob
<1>8. CASE /\ process' = [process EXCEPT ![s] = p] /\ child' = [child EXCEPT ![s] = c]
           /\ error' = [error EXCEPT ![s] = "InvalidRequest"] /\ UNCHANGED faults
  <2>1. SlotKnown(next, "InvalidRequest", p, c) /\ "InvalidRequest" \in Failures /\ p # None
    <3>1. p # None /\ c # None /\ "InvalidRequest" \in Failures /\ "InvalidRequest" # None
      BY Fields, NoneAssumption DEF Failures
    <3>2. Holds(c, next)
      BY <1>5 DEF Idle, Served, Holds, AllOf
    <3> QED BY <3>1, <3>2, NoneAssumption, <1>1 DEF SlotKnown
  <2>2. faults' \in 0..MaxFaults
    BY <1>8 DEF TypeOK
  <2> HIDE DEF PoolInv
  <2> QED BY <1>1, <1>4, <1>5, <1>8, <2>1, <2>2, TakesJob
<1> QED BY <1>3, <1>5, <1>6, <1>7, <1>8

-----------------------------------------------------------------------------
(* The end of the pool, its host's end, and time.                          *)

LEMMA ShutdownStep == ASSUME PoolInv, Shutdown PROVE PoolInv'
<1> USE DEF PoolInv
<1>1. at = [slot |-> 0, step |-> "outside"] /\ at' = [slot |-> 1, step |-> "reap"] /\ 1 \in Slots
      /\ UNCHANGED <<next, prepared, error, process, child, staged, outcome, faults>>
  BY PoolAssumption DEF Shutdown, Outside, At, Go, Slots
<1>2. ~Dead /\ at.step # "purge" /\ at'.step = "reap" /\ at.step = "outside"
  BY <1>1 DEF Dead, At
<1>3. PlaceKnown'
  BY <1>1, <1>2 DEF PlaceKnown, At
<1>4. ASSUME NEW t \in Slots
      PROVE  /\ (process[t] # None <=> child[t] # None)
             /\ prepared[t] # None => process[t] # None \/ error[t] # None
  <2>1. ~At(t, "purge")
    BY <1>2 DEF At
  <2> QED BY <1>2, <2>1 DEF TypeOK, Active
<1>5. TypeOK'
  BY <1>1, <1>4 DEF TypeOK, Steps, Active
<1>6. JobsKnown'
  BY <1>1 DEF JobsKnown
<1>7. ASSUME NEW t \in Slots PROVE SlotKnown(prepared[t], error[t], process[t], child[t])'
  BY <1>1, <1>2
<1> QED BY <1>3, <1>5, <1>6, <1>7

LEMMA ReapsStep == ASSUME PoolInv, NEW s \in Slots, Reaps(s) PROVE PoolInv'
<1> USE DEF PoolInv
<1>1. /\ at = [slot |-> s, step |-> "reap"] /\ at' = [slot |-> s, step |-> "purge"]
      /\ at.step = "reap" /\ at'.step = "purge"
      /\ UNCHANGED <<next, prepared, error, staged, outcome, faults>>
      /\ process' = [process EXCEPT ![s] = None] /\ child' = [child EXCEPT ![s] = None]
  BY DEF Reaps, At, Go
<1>2. ~Dead
  BY <1>1 DEF Dead, At
<1>3. PlaceKnown'
  BY <1>1 DEF PlaceKnown, At, TypeOK
<1>4. JobsKnown'
  BY <1>1 DEF JobsKnown, TypeOK
<1>5. ASSUME NEW t \in Slots PROVE SlotKnown(prepared[t], error[t], process[t], child[t])'
  <2>1. CASE t = s
    <3>1. SlotKnown(prepared[s], error[s], None, None)
      BY DEF SlotKnown
    <3> QED BY <1>1, <2>1, <3>1 DEF TypeOK
  <2>2. CASE t # s
    <3>1. process'[t] = process[t] /\ child'[t] = child[t]
      BY <1>1, <2>2 DEF TypeOK
    <3> QED BY <1>1, <1>2, <3>1
  <2> QED BY <2>1, <2>2
<1>6. ASSUME NEW t \in Slots
      PROVE  /\ (process'[t] # None <=> child'[t] # None)
             /\ prepared'[t] # None => process'[t] # None \/ error'[t] # None \/ At(t, "purge")'
  <2>1. process'[t] # None <=> child'[t] # None
    BY <1>5 DEF SlotKnown
  <2>2. CASE t = s
    BY <1>1, <2>1, <2>2 DEF At
  <2>3. CASE t # s
    <3>1. ~At(t, "purge") /\ process'[t] = process[t]
      BY <1>1, <2>3 DEF At, TypeOK
    <3> QED BY <1>1, <2>1, <3>1 DEF TypeOK, Active
  <2> QED BY <2>1, <2>2, <2>3
<1>7. TypeOK'
  <2>1. process' \in [Slots -> Processes \cup {None}] /\ child' \in [Slots -> Workers \cup {None}]
    BY <1>1 DEF TypeOK
  <2>2. at' \in [slot : Slots, step : Steps] \cup [slot : {0}, step : {"outside", "closed", "dead"}]
    BY <1>1 DEF Steps
  <2> QED BY <1>1, <1>6, <2>1, <2>2 DEF TypeOK, Active
<1> QED BY <1>3, <1>4, <1>5, <1>7

LEMMA PurgesStep == ASSUME PoolInv, NEW s \in Slots, Purges(s) PROVE PoolInv'
<1> USE DEF PoolInv
<1>1. /\ at = [slot |-> s, step |-> "purge"] /\ at.step = "purge"
      /\ staged' = staged \ {prepared[s]} /\ prepared' = [prepared EXCEPT ![s] = None]
      /\ UNCHANGED <<next, error, process, child, outcome, faults>>
  BY DEF Purges, At
<1>2. ~Dead /\ process[s] = None /\ child[s] = None
  BY <1>1 DEF Dead, At, PlaceKnown
<1>3. \/ at' = [slot |-> 0, step |-> "closed"]
      \/ at' = [slot |-> s + 1, step |-> "reap"] /\ s + 1 \in Slots
  <2>1. s \in 1..Capacity /\ Capacity \in Nat
    BY PoolAssumption DEF Slots
  <2>2. s # Capacity => s + 1 \in Slots
    BY <2>1 DEF Slots
  <2> QED BY <2>2 DEF Purges, Go
<1>4. /\ at'.step \in {"closed", "reap"}
      /\ at' \in [slot : Slots, step : Steps] \cup [slot : {0}, step : {"outside", "closed", "dead"}]
  BY <1>3 DEF Steps
<1>5. PlaceKnown'
  BY <1>4 DEF PlaceKnown, At
<1>6. JobsKnown'
  BY <1>1, <1>2, Unstages
<1>7. ASSUME NEW t \in Slots PROVE SlotKnown(prepared[t], error[t], process[t], child[t])'
  <2>1. CASE t = s
    <3>1. SlotKnown(None, error[s], None, None)
      BY DEF SlotKnown
    <3> QED BY <1>1, <1>2, <2>1, <3>1 DEF TypeOK
  <2>2. CASE t # s
    <3>1. prepared'[t] = prepared[t]
      BY <1>1, <2>2 DEF TypeOK
    <3> QED BY <1>1, <1>2, <3>1
  <2> QED BY <2>1, <2>2
<1>8. ASSUME NEW t \in Slots
      PROVE  /\ (process'[t] # None <=> child'[t] # None)
             /\ prepared'[t] # None => process'[t] # None \/ error'[t] # None
  <2>1. process'[t] # None <=> child'[t] # None
    BY <1>7 DEF SlotKnown
  <2>2. prepared'[t] # None => t # s /\ prepared[t] # None
    BY <1>1 DEF TypeOK
  <2>3. t # s => ~At(t, "purge")
    BY <1>1 DEF At
  <2> QED BY <1>1, <2>1, <2>2, <2>3 DEF TypeOK, Active
<1>9. TypeOK'
  <2>1. staged' \subseteq Jobs /\ prepared' \in [Slots -> Jobs \cup {None}]
    BY <1>1 DEF TypeOK
  <2> QED BY <1>1, <1>4, <1>8, <2>1 DEF TypeOK, Active
<1> QED BY <1>5, <1>6, <1>7, <1>9

LEMMA HostDiesStep == ASSUME PoolInv, HostDies PROVE PoolInv'
<1> USE DEF PoolInv
<1>1. /\ at' = [slot |-> 0, step |-> "dead"] /\ faults' = faults + 1 /\ faults < MaxFaults
      /\ process' = [t \in Slots |-> None] /\ prepared' = [t \in Slots |-> None]
      /\ UNCHANGED <<next, error, child, staged, outcome>>
  BY DEF HostDies, Go
<1>2. Dead' /\ at'.step = "dead"
  BY <1>1 DEF Dead, At
<1>3. PlaceKnown'
  BY <1>1, <1>2 DEF PlaceKnown, At
<1>4. JobsKnown'
  BY <1>1 DEF JobsKnown
<1>5. faults' \in 0..MaxFaults
  BY <1>1, PoolAssumption DEF TypeOK
<1>6. TypeOK'
  BY <1>1, <1>2, <1>5 DEF TypeOK, Active
<1> QED BY <1>2, <1>3, <1>4, <1>6

LEMMA TickStep == ASSUME PoolInv, Tick PROVE PoolInv'
<1> USE DEF PoolInv
<1>1. UNCHANGED <<next, prepared, error, child, staged, outcome, at, faults>>
  BY DEF Tick
<1>2. ASSUME NEW t \in Slots, process[t] \in Processes
      PROVE  /\ [process[t] EXCEPT !.elapsed = @ + 1] \in Processes
             /\ [process[t] EXCEPT !.elapsed = @ + 1].out = process[t].out
             /\ [process[t] EXCEPT !.elapsed = @ + 1].response = process[t].response
  BY <1>2 DEF Processes
<1>3. ASSUME NEW t \in Slots
      PROVE  \/ process'[t] = process[t]
             \/ process[t] \in Processes /\ process'[t] = [process[t] EXCEPT !.elapsed = @ + 1]
  BY DEF Tick, TypeOK
<1>4. ASSUME NEW t \in Slots
      PROVE  /\ process'[t] \in Processes \cup {None} /\ (process'[t] = None <=> process[t] = None)
             /\ process[t] \in Processes => process'[t].out = process[t].out /\ process'[t].response = process[t].response
  BY <1>2, <1>3, Fields DEF TypeOK
<1>5. process' \in [Slots -> Processes \cup {None}]
  <2>1. process' = [t \in Slots |-> process'[t]]
    BY DEF Tick
  <2> QED BY <1>4, <2>1
<1>6. PlaceKnown'
  BY <1>1, <1>4 DEF PlaceKnown, At
<1>7. JobsKnown'
  BY <1>1 DEF JobsKnown
<1>8. TypeOK'
  BY <1>1, <1>4, <1>5 DEF TypeOK, Active, At, Dead
<1>9. ASSUME ~Dead', NEW t \in Slots PROVE SlotKnown(prepared[t], error[t], process[t], child[t])'
  <2>1. SlotKnown(prepared[t], error[t], process[t], child[t])
    BY <1>1, <1>9 DEF Dead, At
  <2>2. CASE process[t] = None
    BY <1>1, <1>4, <2>1, <2>2 DEF SlotKnown
  <2>3. CASE process[t] \in Processes
    <3>1. child[t] \in Workers /\ process'[t] \in Processes
      BY <1>4, <2>1, <2>3, Fields DEF SlotKnown, TypeOK
    <3>2. SlotKnown(prepared[t], error[t], process'[t], child[t])
      BY <1>4, <2>1, <2>3, <3>1, LogKeeps
    <3> QED BY <1>1, <3>2
  <2> QED BY <2>2, <2>3 DEF TypeOK
<1> QED BY <1>6, <1>7, <1>8, <1>9

-----------------------------------------------------------------------------
LEMMA PoolSteps == ASSUME PoolInv, [Next]_vars PROVE PoolInv'
<1>1. CASE Submit
  BY <1>1, SubmitStep
<1>2. CASE Poll
  <2>1. CASE PollBegins
    BY <2>1, PollBeginsStep
  <2>2. ASSUME NEW s \in Slots,
               \/ PollChecks(s) \/ PollWrites(s) \/ PollErrors(s) \/ PollOutput(s) \/ PollFrames(s)
               \/ Kills(s) \/ Reports(s)
        PROVE  PoolInv'
    BY <2>2, PollChecksStep, PollWritesStep, PollErrorsStep, PollOutputStep, PollFramesStep, KillsStep, ReportsStep
  <2> QED BY <1>2, <2>1, <2>2 DEF Poll
<1>3. CASE Shutdown \/ HostDies \/ Tick
  BY <1>3, ShutdownStep, HostDiesStep, TickStep
<1>4. CASE Drop
  BY <1>4, ReapsStep, PurgesStep DEF Drop
<1>5. ASSUME NEW s \in Slots, Work(s) \/ Leaves(s) \/ Watches(s) \/ Crashes(s) \/ Strays(s) PROVE PoolInv'
  BY <1>5, ReadsStep, EncodesStep, EndsStep, RepliesStep, StraysStep DEF Work
<1>6. CASE UNCHANGED vars
  BY <1>6 DEF vars, PoolInv, TypeOK, PlaceKnown, JobsKnown, SlotKnown, Active, At, Dead, Staged
<1> QED BY <1>1, <1>2, <1>3, <1>4, <1>5, <1>6 DEF Next, Ended

LEMMA PoolInvariant == Spec => []PoolInv
BY PoolStarts, PoolSteps, PTL DEF Spec

\* The pool and its workers are in a state of the kind the code means: what the
\* coordinator and a worker hold of each other exists at both ends or at neither
\* (Slot, Process), whatever crashes, prints or is killed in between.
THEOREM PoolTyped == Spec => []TypeOK
BY PoolInvariant, PTL DEF PoolInv

\* No worker is left reading a private copy that was deleted (Pool::poll and the
\* order of Slot's fields): a copy is deleted by a report or a drop, and then
\* the worker of that slot was killed, or has answered to the last piece.
THEOREM CopyStays == Spec => []CopyOutlivesReader
<1>1. PoolInv => CopyOutlivesReader
  <2>1. ASSUME PoolInv, NEW s \in Slots, Alive(s), child[s].state = "encode" PROVE child[s].line[1].of \in staged
    <3>1. child[s] \in Workers /\ Staged(child[s])
      BY <2>1, AliveKnown
    <3>2. child[s].line \in Seq(Pieces) /\ child[s].line # <<>>
      BY <2>1, <3>1, Fields DEF Staged
    <3>3. 1 \in 1..Len(child[s].line)
      BY <3>2
    <3> QED BY <3>1, <3>3 DEF Staged
  <2> QED BY <2>1 DEF CopyOutlivesReader
<1> QED BY <1>1, PoolInvariant, PTL

-----------------------------------------------------------------------------
(* The pool implements PoolContract.                                       *)

LEMMA ClosingSteps == ASSUME TypeOK PROVE Closing <=> at.step \in {"closed", "dead", "reap", "purge"}
<1>1. at = [slot |-> at.slot, step |-> at.step]
  BY DEF TypeOK
<1>2. at.step \in {"closed", "dead"} => at.slot = 0
  BY DEF TypeOK, Steps
<1> QED BY <1>1, <1>2 DEF Closing, Over, At

\* The steps inside poll, which the contract does not see.
LEMMA PollStays ==
    ASSUME NEW s \in Slots,
           \/ PollChecks(s) \/ PollWrites(s) \/ PollErrors(s) \/ PollOutput(s) \/ Kills(s)
           \/ PollFrames(s) /\ UNCHANGED <<prepared, outcome>>
    PROVE  /\ at.step \notin {"closed", "dead", "reap", "purge"}
           /\ at'.step \notin {"closed", "dead", "reap", "purge"}
           /\ UNCHANGED <<next, prepared, outcome>>
<1>1. at.step \in {"check", "write", "errors", "output", "frame", "kill"} /\ UNCHANGED next
  BY DEF PollChecks, PollWrites, PollErrors, PollOutput, PollFrames, Kills, At
<1>2. UNCHANGED <<prepared, outcome>>
  BY DEF PollChecks, PollWrites, PollErrors, PollOutput, Kills
<1>3. at'.step \in {"outside", "check", "write", "errors", "output", "frame", "kill", "delete"}
  BY <1>1 DEF PollChecks, PollWrites, PollErrors, PollOutput, PollFrames, Kills, Fail, PollAfter, Go, At
<1> QED BY <1>1, <1>2, <1>3

LEMMA ContractStep == ASSUME PoolInv, [Next]_vars PROVE [Contract!Next]_(Contract!vars)
<1> USE DEF Contract!Slots, Slots
<1> DEFINE jobs == IF Closing THEN [s \in Slots |-> None] ELSE prepared
<1>1. TypeOK /\ TypeOK'
  BY PoolSteps DEF PoolInv
<1>2. /\ Closing <=> at.step \in {"closed", "dead", "reap", "purge"}
      /\ Closing' <=> at'.step \in {"closed", "dead", "reap", "purge"}
  <2>1. Closing <=> at.step \in {"closed", "dead", "reap", "purge"}
    BY <1>1, ClosingSteps
  <2>2. (Closing <=> at.step \in {"closed", "dead", "reap", "purge"})'
    <3>1. at' = [slot |-> at'.slot, step |-> at'.step]
      BY <1>1 DEF TypeOK
    <3>2. at'.step \in {"closed", "dead"} => at'.slot = 0
      BY <1>1 DEF TypeOK, Steps
    <3> QED BY <3>1, <3>2 DEF Closing, Over, At
  <2> QED BY <2>1, <2>2
<1>3. ASSUME UNCHANGED <<next, prepared, outcome>>, Closing <=> Closing' PROVE UNCHANGED Contract!vars
  BY <1>3 DEF Contract!vars
<1>4. ASSUME UNCHANGED <<next, outcome>>, Closing, Closing' PROVE UNCHANGED Contract!vars
  BY <1>4 DEF Contract!vars
<1>5. ASSUME UNCHANGED <<next, outcome>>, ~Closing, Closing' PROVE Contract!Close
  BY <1>5 DEF Contract!Close
<1>6. ASSUME NEW s \in Slots, ~Closing, ~Closing', prepared[s] \in Jobs, NEW o \in Failures \cup {"encoded"},
             outcome' = [outcome EXCEPT ![prepared[s]] = [is |-> o, of |-> prepared[s]]],
             prepared' = [prepared EXCEPT ![s] = None], UNCHANGED next
      PROVE  Contract!Report(s)
  <2>1. jobs[s] # None /\ jobs[s] = prepared[s]
    BY <1>6, NoneAssumption
  <2> QED BY <1>6, <2>1 DEF Contract!Report
<1>7. CASE Submit
  <2>1. ~Closing /\ ~Closing'
    BY <1>2, <1>7 DEF Submit, Outside, At
  <2>2. PICK s \in Slots : prepared[s] = None /\ prepared' = [prepared EXCEPT ![s] = next]
    BY <1>7 DEF Submit, Active
  <2>3. next \in 1..MaxJobs
    <3>1. next \in 1..MaxJobs + 1 /\ next <= MaxJobs
      BY <1>1, <1>7 DEF Submit, TypeOK
    <3> QED BY <3>1, PoolAssumption
  <2>4. next' = next + 1 /\ UNCHANGED outcome
    BY <1>7 DEF Submit
  <2>5. Contract!Submit(s)
    BY <2>1, <2>2, <2>3, <2>4 DEF Contract!Submit
  <2> QED BY <2>5 DEF Contract!Next
<1>8. CASE Poll
  <2>1. CASE PollBegins
    <3>1. UNCHANGED <<next, prepared, outcome>> /\ at.step = "outside" /\ at'.step \in {"outside", "check"}
      BY <2>1 DEF PollBegins, PollAfter, Outside, At, Go
    <3> QED BY <1>2, <1>3, <3>1
  <2>2. ASSUME NEW s \in Slots,
               \/ PollChecks(s) \/ PollWrites(s) \/ PollErrors(s) \/ PollOutput(s) \/ Kills(s)
               \/ PollFrames(s) /\ UNCHANGED <<prepared, outcome>>
        PROVE  UNCHANGED Contract!vars
    BY <1>2, <1>3, <2>2, PollStays
  <2>3. ASSUME NEW s \in Slots, Reports(s) PROVE Contract!Report(s)
    <3>1. at.step = "delete" /\ at'.step = "outside" /\ prepared[s] \in Jobs /\ error[s] \in Failures
      <4>1. At(s, "delete") /\ Go(0, "outside")
        BY <2>3 DEF Reports
      <4> QED BY <4>1, NoneAssumption DEF PoolInv, PlaceKnown, TypeOK, At, Go
    <3> QED BY <1>2, <1>6, <2>3, <3>1 DEF Reports
  <2>4. ASSUME NEW s \in Slots, PollFrames(s), ~UNCHANGED <<prepared, outcome>> PROVE Contract!Report(s)
    <3> DEFINE r == process[s].response
    <3>1. /\ Framed(r) /\ Says(r) = "encoded" /\ At(s, "frame") /\ Go(0, "outside") /\ UNCHANGED next
          /\ outcome' = [outcome EXCEPT ![prepared[s]] = [is |-> "encoded", of |-> r[1].of]]
          /\ prepared' = [prepared EXCEPT ![s] = None]
      BY <2>4 DEF PollFrames
    <3>2. at.slot = s /\ at.step = "frame" /\ at'.step = "outside"
      BY <3>1 DEF At, Go
    <3>3. r[1].of = prepared[s] /\ prepared[s] \in Jobs
      BY <3>1, <3>2, SlotInPoll, FrameKnown
    <3> QED BY <1>2, <1>6, <3>1, <3>2, <3>3
  <2>5. ASSUME NEW s \in Slots, Reports(s) \/ (PollFrames(s) /\ ~UNCHANGED <<prepared, outcome>>)
        PROVE  Contract!Next
    <3>1. Contract!Report(s)
      BY <2>3, <2>4, <2>5
    <3> QED BY <3>1 DEF Contract!Next
  <2> QED BY <1>8, <2>1, <2>2, <2>5, Zenon DEF Poll
<1>9. CASE Shutdown
  <2>1. at.step = "outside" /\ at'.step = "reap" /\ UNCHANGED <<next, outcome>>
    BY <1>9 DEF Shutdown, Outside, At, Go
  <2> QED BY <1>2, <1>5, <2>1 DEF Contract!Next
<1>10. CASE Drop
  <2>1. /\ at.step \in {"reap", "purge"} /\ at'.step \in {"reap", "purge", "closed"}
        /\ UNCHANGED <<next, outcome>>
    BY <1>10 DEF Drop, Reaps, Purges, At, Go
  <2> QED BY <1>2, <1>4, <2>1
<1>11. CASE HostDies
  <2>1. at'.step = "dead" /\ UNCHANGED <<next, outcome>>
    BY <1>11 DEF HostDies, Go
  <2> QED BY <1>2, <1>4, <1>5, <2>1 DEF Contract!Next
<1>12. ASSUME NEW s \in Slots, Work(s) \/ Leaves(s) \/ Watches(s) \/ Crashes(s) \/ Strays(s) PROVE UNCHANGED Contract!vars
  <2>1. ChildOnly
    BY <1>12 DEF Work, Reads, Encodes, Logging, Replies, Leaves, Watches, Crashes, Strays
  <2> QED BY <1>2, <1>3, <2>1 DEF ChildOnly
<1>13. CASE Tick \/ UNCHANGED vars
  <2>1. UNCHANGED <<next, prepared, outcome, at>>
    BY <1>13 DEF Tick, vars
  <2> QED BY <1>2, <1>3, <2>1
<1> QED BY <1>7, <1>8, <1>9, <1>10, <1>11, <1>12, <1>13 DEF Next, Ended

\* Whatever crashes, hangs, prints or answers late, every job of the pool gets
\* one outcome, and an encoding that is taken for a job is of that job's copy
\* (Process::poll_io, Pool::poll): every step of the pool is one of PoolContract,
\* or one that the contract does not see.
THEOREM PoolKeepsContract == Spec => KeepsContract
<1>1. Init => Contract!Init
  BY DEF Init, Contract!Init, Closing, Over, Outside, At, Slots, Jobs, Contract!Slots
<1>2. PoolInv /\ [Next]_vars => [Contract!Next]_(Contract!vars)
  BY ContractStep
<1> QED BY <1>1, <1>2, PoolInvariant, PTL DEF Spec, KeepsContract, Contract!Spec

-----------------------------------------------------------------------------
(* What is known of a worker nothing has happened to.                      *)

Blamed == history.own \cup history.inherited
Faulty == {"WorkerFailed", "InvalidRequest"}

\* Only a fault ends a worker or puts strays in its output; it has logs to
\* write only while it answers.
WorkerOK(c) ==
    /\ c.state = "gone" => c.spoiled
    /\ ~c.spoiled => \A k \in 1..Len(c.stdout) : c.stdout[k].of # 0
    /\ c.state \in {"read", "encode"} => c.logs = 0

Saying(r, v) == \A k \in 1..Len(r) : r[k].says = v

\* The answer to j, wherever its pieces are, is of j alone, within the limits
\* and about the copy; and there is none before the request has been read.
Clean(p, c, j) ==
    /\ ~c.spoiled /\ AllOf(p.response, j)
    /\ \E v \in {"encoded", "UnsupportedFormat"} :
          Saying(p.response, v) /\ Saying(c.stdout, v) /\ Saying(c.reply, v)
    /\ \A k \in 1..Len(p.response) : p.response[k].end => k = Len(p.response)
    /\ Len(p.response) + Len(c.stdout) + Len(c.reply) <= ResponseLimit + 1
    /\ p.diagnostics + c.stderr + c.logs <= ResponseLimit + 1
    /\ c.state \in {"read", "encode"} /\ ~Served(p, c) =>
          p.response = <<>> /\ c.stdout = <<>> /\ p.diagnostics = 0 /\ c.stderr = 0

FairSlot(j, e, p, c, blamed) ==
    e = None /\ c # None => WorkerOK(c) /\ (j # None /\ ~blamed => Clean(p, c, j))

FairInv ==
    /\ history \in [own : SUBSET Jobs, inherited : SUBSET Jobs]
    /\ ~Closing => \A s \in Slots : prepared[s] = None => error[s] = None
    /\ \A s \in Slots : prepared[s] # None /\ error[s] \in Faulty => prepared[s] \in Blamed
    /\ ~Dead => \A s \in Slots :
          FairSlot(prepared[s], error[s], process[s], child[s], prepared[s] \in Blamed)
    /\ FailuresAreReal

LEMMA FairStarts == Init => FairInv
BY NoneAssumption DEF Init, FairInv, FairSlot, FailuresAreReal, Failed, Faulty, Failures

-----------------------------------------------------------------------------
\* Blame is never taken back.
LEMMA BlameGrows ==
    ASSUME PoolInv, FairInv, NEW s \in Slots, Blame(s)
    PROVE  /\ history' \in [own : SUBSET Jobs, inherited : SUBSET Jobs] /\ Blamed \subseteq Blamed'
           /\ prepared[s] # None => prepared[s] \in Blamed'
BY DEF FairInv, PoolInv, TypeOK, Blame, Blamed, Active

\* While no outcome is added failures stay real.
LEMMA RealStays ==
    ASSUME FairInv, UNCHANGED outcome, Blamed \subseteq Blamed'
    PROVE  FailuresAreReal'
BY DEF FairInv, FailuresAreReal, Failed, Blamed

\* Once the host is dead nothing is asked of workers.
LEMMA DeadFair ==
    ASSUME FairInv, Dead', UNCHANGED <<outcome, error>>, Blamed \subseteq Blamed',
           history' \in [own : SUBSET Jobs, inherited : SUBSET Jobs],
           \A s \in Slots : prepared'[s] \in {prepared[s], None}
    PROVE  FairInv'
<1>1. Closing'
  BY DEF Closing, Over, Dead
<1> QED BY <1>1, RealStays DEF FairInv, Blamed

\* A step in one slot.
LEMMA FairMoves ==
    ASSUME PoolInv, FairInv, ~Dead, NEW s \in Slots, NEW j, NEW e, NEW p, NEW c,
           prepared' = [prepared EXCEPT ![s] = j], error' = [error EXCEPT ![s] = e],
           process' = [process EXCEPT ![s] = p], child' = [child EXCEPT ![s] = c],
           history' \in [own : SUBSET Jobs, inherited : SUBSET Jobs], Blamed \subseteq Blamed',
           ~Closing' => ~Closing /\ (j = None => e = None),
           j # None /\ e \in Faulty => j \in Blamed',
           FairSlot(j, e, p, c, j \in Blamed'), FailuresAreReal'
    PROVE  FairInv'
<1>1. /\ prepared \in [Slots -> Jobs \cup {None}] /\ error \in [Slots -> Failures \cup {None}]
      /\ process \in [Slots -> Processes \cup {None}] /\ child \in [Slots -> Workers \cup {None}]
  BY DEF PoolInv, TypeOK
<1>2. /\ prepared'[s] = j /\ error'[s] = e /\ process'[s] = p /\ child'[s] = c
      /\ \A t \in Slots \ {s} : /\ prepared'[t] = prepared[t] /\ error'[t] = error[t]
                                /\ process'[t] = process[t] /\ child'[t] = child[t]
  BY <1>1
<1>3. ASSUME NEW t \in Slots
      PROVE  FairSlot(prepared'[t], error'[t], process'[t], child'[t], prepared'[t] \in Blamed')
  <2>1. CASE t = s
    BY <1>2, <2>1
  <2>2. CASE t # s
    <3>1. FairSlot(prepared[t], error[t], process[t], child[t], prepared[t] \in Blamed)
      BY DEF FairInv
    <3> QED BY <1>2, <2>2, <3>1 DEF FairSlot
  <2> QED BY <2>1, <2>2
<1>4. \A t \in Slots : prepared'[t] # None /\ error'[t] \in Faulty => prepared'[t] \in Blamed'
  BY <1>2 DEF FairInv
<1>5. ~Closing' => \A t \in Slots : prepared'[t] = None => error'[t] = None
  BY <1>2 DEF FairInv
<1>6. \A t \in Slots :
        FairSlot(prepared[t], error[t], process[t], child[t], prepared[t] \in Blamed)' <=>
           FairSlot(prepared'[t], error'[t], process'[t], child'[t], prepared'[t] \in Blamed')
  OBVIOUS
<1> QED BY <1>3, <1>4, <1>5, <1>6 DEF FairInv

-----------------------------------------------------------------------------
(* The worker's steps.                                                     *)

LEMMA FairWorker ==
    ASSUME PoolInv, FairInv, ~Dead, NEW s \in Slots, NEW c, child' = [child EXCEPT ![s] = c], ChildOnly,
           history' \in [own : SUBSET Jobs, inherited : SUBSET Jobs], Blamed \subseteq Blamed',
           FairSlot(prepared[s], error[s], process[s], c, prepared[s] \in Blamed')
    PROVE  FairInv'
<1>1. /\ prepared' = [prepared EXCEPT ![s] = prepared[s]] /\ error' = [error EXCEPT ![s] = error[s]]
      /\ process' = [process EXCEPT ![s] = process[s]]
  BY DEF ChildOnly, PoolInv, TypeOK
<1>2. (Closing' <=> Closing) /\ FailuresAreReal'
  BY RealStays DEF ChildOnly, Closing, Over, At
<1>3. /\ ~Closing' => ~Closing /\ (prepared[s] = None => error[s] = None)
      /\ prepared[s] # None /\ error[s] \in Faulty => prepared[s] \in Blamed'
  BY <1>2 DEF FairInv
<1> QED BY <1>1, <1>2, <1>3, FairMoves

\* What is known of a live worker whose job is not given up.
LEMMA FairAlive ==
    ASSUME PoolInv, FairInv, ~Dead, NEW s \in Slots, Alive(s)
    PROVE  /\ child[s] \in Workers /\ child[s] # None /\ process[s] \in Processes
           /\ SlotKnown(prepared[s], error[s], process[s], child[s])
           /\ error[s] = None => /\ WorkerOK(child[s])
                                 /\ prepared[s] # None /\ prepared[s] \notin Blamed =>
                                        Clean(process[s], child[s], prepared[s])
BY AliveKnown DEF FairInv, FairSlot

\* A fault that is held against the job asks nothing of the worker it leaves.
LEMMA FaultFair ==
    ASSUME PoolInv, FairInv, ~Dead, NEW s \in Slots, Blame(s), NEW c, child' = [child EXCEPT ![s] = c],
           ChildOnly, error[s] = None => WorkerOK(c)
    PROVE  FairInv'
<1>1. FairSlot(prepared[s], error[s], process[s], c, prepared[s] \in Blamed')
  BY BlameGrows DEF FairSlot
<1> QED BY <1>1, BlameGrows, FairWorker

LEMMA CrashesFair == ASSUME PoolInv, FairInv, ~Dead, NEW s \in Slots, Crashes(s) PROVE FairInv'
<1> DEFINE d == [child[s] EXCEPT !.state = "gone", !.spoiled = TRUE]
<1>1. Alive(s) /\ Blame(s) /\ ChildOnly /\ child' = [child EXCEPT ![s] = d]
  BY DEF Crashes, PoolInv, TypeOK
<1>2. d.state = "gone" /\ d.spoiled
  BY <1>1, FairAlive DEF Workers
<1>3. WorkerOK(d)
  BY <1>2 DEF WorkerOK
<1> QED BY <1>1, <1>3, FaultFair

LEMMA StraysFair == ASSUME PoolInv, FairInv, ~Dead, NEW s \in Slots, Strays(s) PROVE FairInv'
<1>1. PICK b \in BOOLEAN : child' = [child EXCEPT ![s].stdout = Append(@, Stray(b)), ![s].spoiled = TRUE]
  BY DEF Strays
<1> DEFINE d == [child[s] EXCEPT !.stdout = Append(@, Stray(b)), !.spoiled = TRUE]
<1>2. Alive(s) /\ Blame(s) /\ ChildOnly /\ child' = [child EXCEPT ![s] = d]
  BY <1>1 DEF Strays, PoolInv, TypeOK
<1>3. d.spoiled /\ d.state = child[s].state /\ d.logs = child[s].logs
  BY <1>2, FairAlive DEF Workers
<1>4. error[s] = None => WorkerOK(d)
  BY <1>2, <1>3, FairAlive DEF WorkerOK
<1> QED BY <1>2, <1>4, FaultFair

LEMMA LoggingFair == ASSUME PoolInv, FairInv, NEW s \in Slots, Logging(s) PROVE FairInv'
<1> DEFINE c == child[s]
           d == [c EXCEPT !.logs = @ - 1, !.stderr = @ + 1]
<1>1. /\ Alive(s) /\ ~Dead /\ c.state = "write" /\ ChildOnly /\ UNCHANGED history
      /\ child' = [child EXCEPT ![s] = d]
  BY DEF Logging, PoolInv, TypeOK
<1>2. c \in Workers
  BY <1>1, FairAlive
<1>3. /\ d.state = "write" /\ d.spoiled = c.spoiled /\ d.stdout = c.stdout /\ d.reply = c.reply
      /\ d.logs = c.logs - 1 /\ d.stderr = c.stderr + 1
  BY <1>1, <1>2 DEF Workers
<1> HIDE DEF d
<1>4. WorkerOK(c) => WorkerOK(d)
  BY <1>3 DEF WorkerOK
<1>5. ASSUME NEW p \in Processes, NEW j, Clean(p, c, j) PROVE Clean(p, d, j)
  <2>1. p.diagnostics \in Nat /\ c.stderr \in Nat /\ c.logs \in Nat
    BY <1>2, Fields DEF Workers
  <2>2. p.diagnostics + d.stderr + d.logs = p.diagnostics + c.stderr + c.logs
    BY <1>3, <2>1
  <2> QED BY <1>3, <1>5, <2>2 DEF Clean
<1>6. FairSlot(prepared[s], error[s], process[s], d, prepared[s] \in Blamed')
  <2>1. Blamed' = Blamed
    BY <1>1 DEF Blamed
  <2> QED BY <1>1, <1>4, <1>5, <2>1, FairAlive DEF FairSlot
<1> QED BY <1>1, <1>6, FairWorker DEF FairInv, Blamed

LEMMA ReadsFair == ASSUME PoolInv, FairInv, ~Dead, NEW s \in Slots, Reads(s) PROVE FairInv'
<1> DEFINE c == child[s]
           p == process[s]
           x == Head(c.stdin)
           line == Append(c.line, x)
           w == [c EXCEPT !.stdin = Tail(c.stdin), !.line = line]
<1>1. /\ Alive(s) /\ c.state = "read" /\ c.stdin # <<>> /\ ChildOnly /\ UNCHANGED history
      /\ c \in Workers /\ p \in Processes /\ SlotKnown(prepared[s], error[s], p, c)
  BY FairAlive DEF Reads
<1>2. /\ c.stdin \in Seq(Pieces) /\ c.line \in Seq(Pieces) /\ p.out \in Seq(Pieces)
      /\ x \in Pieces /\ Tail(c.stdin) \in Seq(Pieces) /\ line \in Seq(Pieces) /\ line # <<>>
      /\ Len(line) = Len(c.line) + 1 /\ Len(c.line) \in Nat /\ line[Len(line)] = x
      /\ Len(c.stdin) \in Nat \ {0} /\ Len(p.out) \in Nat
  <2>1. c.stdin \in Seq(Pieces) /\ c.line \in Seq(Pieces) /\ p.out \in Seq(Pieces)
    BY <1>1, Fields
  <2>2. x \in Pieces /\ Tail(c.stdin) \in Seq(Pieces) /\ Len(c.stdin) \in Nat \ {0}
    BY <1>1, <2>1, Behead
  <2>3. /\ line \in Seq(Pieces) /\ Len(line) = Len(c.line) + 1 /\ Len(c.line) \in Nat
        /\ line[Len(c.line) + 1] = x /\ line # <<>>
    BY <2>1, <2>2, Appended
  <2> QED BY <2>1, <2>2, <2>3
<1>3. /\ w.state = "read" /\ w.logs = c.logs /\ w.spoiled = c.spoiled /\ w.stdout = c.stdout
      /\ w.reply = c.reply /\ w.stderr = c.stderr /\ w.line = line /\ w \in Workers
  BY <1>1, <1>2 DEF Workers
<1>4. prepared[s] # None
  BY <1>1, Fields DEF SlotKnown, Idle, Served
<1>5. error[s] = None => Len(line) <= RequestLimit + 1
  <2>1. SUFFICES ASSUME error[s] = None PROVE Len(c.line) + 1 <= RequestLimit + 1
    BY <1>2
  <2>2. Len(c.line) + Len(c.stdin) + Len(p.out) <= RequestLimit + 1
    BY <1>1, <1>4, <2>1, Fields DEF SlotKnown, Sends
  <2>3. PICK a \in Nat, b \in Nat \ {0}, m \in Nat : a = Len(c.line) /\ b = Len(c.stdin) /\ m = Len(p.out)
    BY <1>2
  <2>4. a + b + m <= RequestLimit + 1 => a + 1 <= RequestLimit + 1
    BY PoolAssumption
  <2> QED BY <2>2, <2>3, <2>4
<1>6. child' = [child EXCEPT ![s] =
                  IF ~(line[Len(line)].end \/ Len(line) = RequestLimit + 2) THEN w
                  ELSE IF Len(line) <= RequestLimit + 1 /\ line[Len(line)].end
                  THEN [w EXCEPT !.state = "encode", !.watched = TRUE]
                  ELSE [w EXCEPT !.state = "write", !.reply = Line(line[1].of, 1, "misfit")]]
  BY DEF Reads
<1> HIDE DEF w, line, x
<1>7. PICK d : /\ child' = [child EXCEPT ![s] = d]
               /\ error[s] = None =>
                     /\ d.state \in {"read", "encode"} /\ d.logs = c.logs /\ d.spoiled = c.spoiled
                     /\ d.stdout = c.stdout /\ d.reply = c.reply /\ d.stderr = c.stderr /\ d.line = line
  <2>1. CASE ~(line[Len(line)].end \/ Len(line) = RequestLimit + 2)
    BY <1>3, <1>6, <2>1
  <2>2. CASE Len(line) <= RequestLimit + 1 /\ line[Len(line)].end
    <3> DEFINE d == [w EXCEPT !.state = "encode", !.watched = TRUE]
    <3>1. child' = [child EXCEPT ![s] = d]
      BY <1>6, <2>2
    <3>2. /\ d.state = "encode" /\ d.logs = w.logs /\ d.spoiled = w.spoiled /\ d.stdout = w.stdout
          /\ d.reply = w.reply /\ d.stderr = w.stderr /\ d.line = w.line
      BY <1>3 DEF Workers
    <3> QED BY <1>3, <3>1, <3>2
  <2>3. CASE /\ line[Len(line)].end \/ Len(line) = RequestLimit + 2
             /\ ~(Len(line) <= RequestLimit + 1 /\ line[Len(line)].end)
    <3>1. error[s] # None
      <4>1. Len(line) \in Nat /\ (Len(line) <= RequestLimit + 1 => Len(line) # RequestLimit + 2)
        BY <1>2, PoolAssumption
      <4> QED BY <1>5, <2>3, <4>1
    <3> QED BY <1>6, <2>3, <3>1
  <2> QED BY <2>1, <2>2, <2>3
<1>8. FairSlot(prepared[s], error[s], p, d, prepared[s] \in Blamed')
  <2>1. SUFFICES ASSUME error[s] = None
                 PROVE  WorkerOK(d) /\ (prepared[s] \notin Blamed => Clean(p, d, prepared[s]))
    BY <1>1 DEF FairSlot, Blamed
  <2>2. WorkerOK(c)
    BY <1>1, <2>1, FairAlive
  <2>3. WorkerOK(d)
    BY <1>1, <1>7, <2>1, <2>2 DEF WorkerOK
  <2>4. ASSUME prepared[s] \notin Blamed PROVE Clean(p, d, prepared[s])
    <3>1. Clean(p, c, prepared[s])
      BY <1>1, <1>4, <2>1, <2>4, FairAlive
    <3>2. ~Served(p, c)
      BY <1>1 DEF Served
    <3>3. p.response = <<>> /\ d.stdout = <<>> /\ p.diagnostics = 0 /\ d.stderr = 0
      BY <1>1, <1>7, <2>1, <3>1, <3>2 DEF Clean
    <3> QED BY <1>7, <2>1, <3>1, <3>3 DEF Clean
  <2> QED BY <2>3, <2>4
<1>9. /\ history' \in [own : SUBSET Jobs, inherited : SUBSET Jobs] /\ Blamed \subseteq Blamed'
  BY <1>1 DEF FairInv, Blamed
<1> QED BY <1>1, <1>7, <1>8, <1>9, FairWorker

LEMMA EncodesFair == ASSUME PoolInv, FairInv, ~Dead, NEW s \in Slots, Encodes(s) PROVE FairInv'
<1> DEFINE c == child[s]
           p == process[s]
           j == prepared[s]
<1>1. /\ Alive(s) /\ c.state = "encode" /\ ChildOnly /\ c \in Workers /\ p \in Processes
      /\ SlotKnown(j, error[s], p, c)
  BY FairAlive DEF Encodes
<1>2. j \in Jobs /\ j # None
  BY <1>1, Fields DEF SlotKnown, Idle, PoolInv, TypeOK
<1>3. PICK n \in Bodies, l \in Logs, v \in Sayings :
          /\ child' = [child EXCEPT ![s] =
                IF n > ResponseLimit THEN [@ EXCEPT !.state = "gone", !.spoiled = TRUE]
                ELSE [@ EXCEPT !.state = "write", !.logs = l, !.reply = Line(child[s].line[1].of, n, v)]]
          /\ IF n > ResponseLimit \/ l > ResponseLimit + 1 \/ v = "misfit" THEN Blame(s) ELSE UNCHANGED history
  BY DEF Encodes
<1>4. CASE n > ResponseLimit
  <2> DEFINE d == [c EXCEPT !.state = "gone", !.spoiled = TRUE]
  <2>1. child' = [child EXCEPT ![s] = d] /\ Blame(s)
    BY <1>1, <1>3, <1>4 DEF PoolInv, TypeOK
  <2>2. d.state = "gone" /\ d.spoiled
    BY <1>1 DEF Workers
  <2>3. WorkerOK(d)
    BY <2>2 DEF WorkerOK
  <2> QED BY <1>1, <2>1, <2>3, FaultFair
<1>5. CASE ~(n > ResponseLimit)
  <2> DEFINE reply == Line(c.line[1].of, n, v)
             d == [c EXCEPT !.state = "write", !.logs = l, !.reply = reply]
  <2>1. child' = [child EXCEPT ![s] = d]
    BY <1>1, <1>3, <1>5 DEF PoolInv, TypeOK
  <2> HIDE DEF reply
  <2>2. d.state = "write" /\ d.logs = l /\ d.reply = reply /\ d.spoiled = c.spoiled /\ d.stdout = c.stdout
        /\ d.stderr = c.stderr
    BY <1>1 DEF Workers
  <2> HIDE DEF d
  <2>3. WorkerOK(c) => WorkerOK(d)
    BY <2>2 DEF WorkerOK
  <2>4. CASE Blame(s)
    BY <1>1, <2>1, <2>3, <2>4, FairAlive, FaultFair
  <2>5. CASE /\ UNCHANGED history /\ ~(l > ResponseLimit + 1) /\ v # "misfit"
    <3>1. ASSUME error[s] = None, j \notin Blamed PROVE Clean(p, d, j)
      <4>1. Clean(p, c, j) /\ Sends(p, c, j)
        BY <1>1, <1>2, <3>1, FairAlive, Fields DEF SlotKnown
      <4>2. c.line # <<>>
        BY <1>1, <4>1 DEF Sends
      <4>3. p.response = <<>> /\ d.stdout = <<>> /\ p.diagnostics = 0 /\ d.stderr = 0
        BY <1>1, <2>2, <4>1, <4>2 DEF Clean, Served
      <4>4. c.line[1].of \in 0..MaxJobs /\ n \in Nat /\ l \in Nat
        <5>1. c.line[1] \in Pieces
          <6>1. c.line \in Seq(Pieces)
            BY <1>1, Fields
          <6>2. 1 \in 1..Len(c.line)
            BY <4>2, <6>1
          <6> QED BY <6>1, <6>2
        <5> QED BY <5>1, PoolAssumption DEF Pieces
      <4>5. Len(reply) = n + 1 /\ \A k \in 1..n + 1 : reply[k].says = v
        <5>1. PICK o \in 0..MaxJobs : o = c.line[1].of
          BY <4>4
        <5> QED BY <4>4, <5>1, NewLine DEF reply
      <4>6. Saying(d.reply, v) /\ Saying(p.response, v) /\ Saying(d.stdout, v) /\ v \in {"encoded", "UnsupportedFormat"}
        BY <2>2, <2>5, <4>3, <4>5 DEF Saying, Sayings
      <4>7. Len(p.response) = 0 /\ Len(d.stdout) = 0 /\ Len(d.reply) = n + 1
        BY <2>2, <4>3, <4>5
      <4>8. /\ 0 + 0 + (n + 1) <= ResponseLimit + 1 /\ 0 + 0 + l <= ResponseLimit + 1
        BY <1>5, <2>5, <4>4, PoolAssumption
      <4> QED BY <2>2, <4>1, <4>3, <4>6, <4>7, <4>8 DEF Clean
    <3>2. FairSlot(j, error[s], p, d, j \in Blamed')
      BY <1>1, <2>3, <2>5, <3>1, FairAlive DEF FairSlot, Blamed
    <3> QED BY <1>1, <2>1, <2>5, <3>2, FairWorker DEF FairInv, Blamed
  <2> QED BY <1>3, <1>5, <2>4, <2>5
<1> QED BY <1>4, <1>5

LEMMA RepliesFair == ASSUME PoolInv, FairInv, NEW s \in Slots, Replies(s) PROVE FairInv'
<1> DEFINE c == child[s]
           p == process[s]
           j == prepared[s]
           out == Append(c.stdout, Head(c.reply))
           d == [c EXCEPT !.stdout = out, !.reply = Tail(c.reply),
                          !.state = IF Len(c.reply) = 1 THEN "read" ELSE c.state,
                          !.line = IF Len(c.reply) = 1 THEN <<>> ELSE c.line]
<1>1. /\ Alive(s) /\ ~Dead /\ c.state = "write" /\ c.logs = 0 /\ ChildOnly /\ UNCHANGED history
      /\ c \in Workers /\ p \in Processes /\ SlotKnown(j, error[s], p, c)
  BY FairAlive DEF Replies
<1>2. child' = [child EXCEPT ![s] = d]
  BY <1>1 DEF Replies, PoolInv, TypeOK
<1>3. j # None /\ c.reply # <<>> /\ j \in Jobs
  BY <1>1, Fields DEF SlotKnown, Idle, Holds, PoolInv, TypeOK
<1>4. /\ c.reply \in Seq(Pieces) /\ c.stdout \in Seq(Pieces) /\ Head(c.reply) \in Pieces
      /\ Head(c.reply) = c.reply[1] /\ 1 \in 1..Len(c.reply)
      /\ Len(c.reply) \in Nat \ {0} /\ Len(Tail(c.reply)) = Len(c.reply) - 1
      /\ \A k \in 1..Len(Tail(c.reply)) : k + 1 \in 1..Len(c.reply) /\ Tail(c.reply)[k] = c.reply[k + 1]
      /\ Len(c.reply) = 1 => Tail(c.reply) = <<>>
  BY <1>1, <1>3, Fields, Behead
<1>5. /\ Len(out) = Len(c.stdout) + 1 /\ Len(c.stdout) \in Nat
      /\ out[Len(c.stdout) + 1] = Head(c.reply)
      /\ \A k \in 1..Len(c.stdout) : out[k] = c.stdout[k]
      /\ \A k \in 1..Len(out) : k \in 1..Len(c.stdout) \/ k = Len(c.stdout) + 1
  BY <1>4, Appended
<1> HIDE DEF out
<1>6. /\ d.stdout = out /\ d.reply = Tail(c.reply) /\ d.logs = 0 /\ d.spoiled = c.spoiled /\ d.stderr = c.stderr
      /\ d.state = (IF Len(c.reply) = 1 THEN "read" ELSE "write") /\ d.stdin = c.stdin
      /\ d.line = (IF Len(c.reply) = 1 THEN <<>> ELSE c.line)
  BY <1>1 DEF Workers
<1> HIDE DEF d
<1>7. ASSUME error[s] = None PROVE WorkerOK(d)
  <2>1. WorkerOK(c) /\ Answers(p, c, j)
    BY <1>1, <1>3, <1>7, FairAlive, Fields DEF SlotKnown
  <2>2. Head(c.reply).of # 0
    <3>1. Head(c.reply).of = j
      BY <1>4, <2>1 DEF Answers, LineOf
    <3> QED BY <1>3, <3>1, PoolAssumption DEF Jobs
  <2>3. ~d.spoiled => \A k \in 1..Len(d.stdout) : d.stdout[k].of # 0
    BY <1>5, <1>6, <2>1, <2>2 DEF WorkerOK
  <2> QED BY <1>6, <2>3 DEF WorkerOK
<1>8. ASSUME error[s] = None, j \notin Blamed PROVE Clean(p, d, j)
  <2>1. Clean(p, c, j) /\ Sends(p, c, j)
    BY <1>1, <1>3, <1>8, FairAlive, Fields DEF SlotKnown
  <2>2. PICK v \in {"encoded", "UnsupportedFormat"} :
            Saying(p.response, v) /\ Saying(c.stdout, v) /\ Saying(c.reply, v)
    BY <2>1 DEF Clean
  <2>3. Saying(d.stdout, v) /\ Saying(d.reply, v)
    <3>1. Head(c.reply).says = v
      BY <1>4, <2>2 DEF Saying
    <3>2. Saying(out, v)
      BY <1>5, <2>2, <3>1 DEF Saying
    <3>3. Saying(Tail(c.reply), v)
      BY <1>4, <2>2 DEF Saying
    <3> QED BY <1>6, <3>2, <3>3
  <2>4. Len(p.response) + Len(d.stdout) + Len(d.reply) <= ResponseLimit + 1
    <3>1. Len(p.response) \in Nat
      BY <1>1, Fields
    <3>2. PICK a \in Nat, b \in Nat, m \in Nat \ {0} :
              a = Len(p.response) /\ b = Len(c.stdout) /\ m = Len(c.reply)
      BY <1>4, <1>5, <3>1
    <3>3. Len(d.stdout) = b + 1 /\ Len(d.reply) = m - 1
      BY <1>4, <1>5, <1>6, <3>2
    <3>4. a + b + m <= ResponseLimit + 1
      BY <2>1, <3>2 DEF Clean
    <3>5. a + (b + 1) + (m - 1) <= ResponseLimit + 1
      BY <3>4, PoolAssumption
    <3> QED BY <3>2, <3>3, <3>5
  <2>5. d.state \in {"read", "encode"} => Served(p, d)
    <3>1. SUFFICES ASSUME Len(c.reply) = 1 PROVE Served(p, d)
      BY <1>6
    <3>2. p.out = <<>> /\ c.stdin = <<>>
      BY <1>1, <2>1 DEF Sends
    <3> QED BY <1>4, <1>6, <3>1, <3>2 DEF Served
  <2>6. p.diagnostics + d.stderr + d.logs <= ResponseLimit + 1
    BY <1>1, <1>6, <2>1 DEF Clean
  <2> QED BY <1>6, <2>1, <2>2, <2>3, <2>4, <2>5, <2>6 DEF Clean
<1>9. FairSlot(j, error[s], p, d, j \in Blamed')
  BY <1>1, <1>7, <1>8 DEF FairSlot, Blamed
<1> QED BY <1>1, <1>2, <1>9, FairWorker DEF FairInv, Blamed

-----------------------------------------------------------------------------
(* The coordinator's steps.                                                *)

LEMMA FairPoll ==
    ASSUME PoolInv, FairInv, NEW s \in Slots, at.slot = s,
           at.step \in {"check", "write", "errors", "output", "frame"},
           NEW e, NEW p, NEW c, error' = [error EXCEPT ![s] = e],
           process' = [process EXCEPT ![s] = p], child' = [child EXCEPT ![s] = c],
           UNCHANGED <<prepared, outcome, history>>,
           e \in Faulty => prepared[s] \in Blamed, FairSlot(prepared[s], e, p, c, prepared[s] \in Blamed)
    PROVE  FairInv'
<1>1. ~Dead /\ prepared[s] # None /\ prepared' = [prepared EXCEPT ![s] = prepared[s]]
  BY SlotInPoll DEF PoolInv, TypeOK
<1>2. Blamed' = Blamed /\ FailuresAreReal' /\ history' \in [own : SUBSET Jobs, inherited : SUBSET Jobs]
  BY RealStays DEF Blamed, FairInv
<1>3. ~Closing
  BY ClosingSteps DEF PoolInv
<1> QED BY <1>1, <1>2, <1>3, FairMoves

\* What is known of the slot the coordinator looks at, unless its job is blamed.
LEMMA FairHere ==
    ASSUME PoolInv, FairInv, NEW s \in Slots, at.slot = s,
           at.step \in {"check", "write", "errors", "output", "frame"}
    PROVE  /\ FairSlot(prepared[s], error[s], process[s], child[s], prepared[s] \in Blamed)
           /\ error[s] \in Faulty => prepared[s] \in Blamed
           /\ at.step # "check" /\ prepared[s] \notin Blamed =>
                  WorkerOK(child[s]) /\ Clean(process[s], child[s], prepared[s])
<1>1. FairSlot(prepared[s], error[s], process[s], child[s], prepared[s] \in Blamed)
  BY SlotInPoll DEF FairInv
<1>2. at.step # "check" => child[s] # None
  BY SlotInPoll, Fields
<1> QED BY <1>1, <1>2, SlotInPoll DEF FairInv, FairSlot

LEMMA FailFair ==
    ASSUME PoolInv, FairInv, NEW s \in Slots, at.slot = s,
           at.step \in {"check", "write", "errors", "output", "frame"},
           NEW f \in Failures, Fail(s, f), f \in Faulty => prepared[s] \in Blamed,
           UNCHANGED <<prepared, process, child, outcome, history>>
    PROVE  FairInv'
<1>1. f # None /\ error' = [error EXCEPT ![s] = f]
  BY NoneAssumption DEF Fail
<1>2. FairSlot(prepared[s], f, process[s], child[s], prepared[s] \in Blamed)
  BY <1>1 DEF FairSlot
<1>3. PICK e, p, c : /\ e = f /\ error' = [error EXCEPT ![s] = e]
                     /\ process' = [process EXCEPT ![s] = p] /\ child' = [child EXCEPT ![s] = c]
                     /\ p = process[s] /\ c = child[s]
  BY <1>1, SlotInPoll
<1>4. UNCHANGED <<prepared, outcome, history>> /\ (e \in Faulty => prepared[s] \in Blamed)
  BY <1>3
<1> QED BY <1>2, <1>3, <1>4, FairPoll

LEMMA StayFair ==
    ASSUME PoolInv, FairInv, NEW s \in Slots, at.slot = s,
           at.step \in {"check", "write", "errors", "output", "frame"},
           UNCHANGED <<prepared, error, process, child, outcome, history>>
    PROVE  FairInv'
BY SlotInPoll, FairHere, FairPoll

LEMMA PollChecksFair == ASSUME PoolInv, FairInv, NEW s \in Slots, PollChecks(s) PROVE FairInv'
<1>1. at.slot = s /\ at.step = "check" /\ UNCHANGED <<prepared, process, child, outcome, history>>
  BY DEF PollChecks, At
<1>2. CASE Fail(s, "WorkerTimeout")
  <2>1. "WorkerTimeout" \in Failures /\ "WorkerTimeout" \notin Faulty
    BY DEF Failures, Faulty
  <2> QED BY <1>1, <1>2, <2>1, FailFair
<1>3. CASE UNCHANGED error
  BY <1>1, <1>3, StayFair
<1> QED BY <1>2, <1>3 DEF PollChecks

LEMMA PollWritesFair == ASSUME PoolInv, FairInv, NEW s \in Slots, PollWrites(s) PROVE FairInv'
<1> DEFINE p == process[s]
           c == child[s]
<1>1. at.slot = s /\ at.step = "write" /\ UNCHANGED <<prepared, outcome, history>>
  BY DEF PollWrites, At
<1>2. p \in Processes /\ c \in Workers /\ error[s] = None
  BY <1>1, SlotInPoll
<1>3. CASE c.state = "gone" /\ Fail(s, "WorkerFailed") /\ UNCHANGED <<process, child>>
  <2>1. prepared[s] \in Blamed /\ "WorkerFailed" \in Failures
    BY <1>1, <1>3, FairHere DEF WorkerOK, Clean, Failures
  <2> QED BY <1>1, <1>3, <2>1, FailFair
<1>4. CASE /\ p.out # <<>>
           /\ process' = [process EXCEPT ![s].out = Tail(@)]
           /\ child' = [child EXCEPT ![s].stdin = Append(@, Head(p.out))]
           /\ UNCHANGED <<error, at>>
  <2> DEFINE q == [p EXCEPT !.out = Tail(p.out)]
             d == [c EXCEPT !.stdin = Append(c.stdin, Head(p.out))]
  <2>1. process' = [process EXCEPT ![s] = q] /\ child' = [child EXCEPT ![s] = d]
    BY <1>2, <1>4 DEF PoolInv, TypeOK
  <2>2. /\ q.response = p.response /\ q.diagnostics = p.diagnostics
        /\ d.state = c.state /\ d.logs = c.logs /\ d.spoiled = c.spoiled /\ d.stdout = c.stdout
        /\ d.reply = c.reply /\ d.stderr = c.stderr
    BY <1>2 DEF Processes, Workers
  <2>3. ~Served(p, c)
    BY <1>4 DEF Served
  <2> HIDE DEF q, d
  <2>4. WorkerOK(c) => WorkerOK(d)
    BY <2>2 DEF WorkerOK
  <2>5. Clean(p, c, prepared[s]) => Clean(q, d, prepared[s])
    BY <2>2, <2>3 DEF Clean
  <2>6. FairSlot(prepared[s], error[s], q, d, prepared[s] \in Blamed)
    <3>1. c # None
      BY <1>2, Fields
    <3> QED BY <1>1, <1>2, <2>4, <2>5, <3>1, FairHere DEF FairSlot
  <2>7. error' = [error EXCEPT ![s] = error[s]]
    BY <1>4 DEF PoolInv, TypeOK
  <2> QED BY <1>1, <2>1, <2>6, <2>7, FairHere, FairPoll
<1>5. CASE UNCHANGED <<error, process, child>>
  BY <1>1, <1>5, StayFair
<1> QED BY <1>3, <1>4, <1>5 DEF PollWrites

LEMMA PollErrorsFair == ASSUME PoolInv, FairInv, NEW s \in Slots, PollErrors(s) PROVE FairInv'
<1> DEFINE p == process[s]
           c == child[s]
<1>1. at.slot = s /\ at.step = "errors" /\ UNCHANGED <<prepared, outcome, history>>
  BY DEF PollErrors, At
<1>2. /\ p \in Processes /\ c \in Workers /\ error[s] = None
      /\ p.diagnostics \in Nat /\ c.stderr \in Nat /\ c.logs \in Nat
  BY <1>1, SlotInPoll, Fields DEF Workers
<1>3. CASE /\ c.stderr > 0 /\ p.diagnostics + 1 > ResponseLimit + 1
           /\ Fail(s, "WorkerFailed") /\ UNCHANGED <<process, child>>
  <2>1. ~(p.diagnostics + c.stderr + c.logs <= ResponseLimit + 1)
    BY <1>2, <1>3, PoolAssumption
  <2>2. prepared[s] \in Blamed /\ "WorkerFailed" \in Failures
    BY <1>1, <2>1, FairHere DEF Clean, Failures
  <2> QED BY <1>1, <1>3, <2>2, FailFair
<1>4. CASE /\ c.stderr > 0
           /\ process' = [process EXCEPT ![s].diagnostics = @ + 1]
           /\ child' = [child EXCEPT ![s].stderr = @ - 1]
           /\ UNCHANGED <<error, at>>
  <2> DEFINE q == [p EXCEPT !.diagnostics = @ + 1]
             d == [c EXCEPT !.stderr = @ - 1]
  <2>1. process' = [process EXCEPT ![s] = q] /\ child' = [child EXCEPT ![s] = d]
    BY <1>2, <1>4 DEF PoolInv, TypeOK
  <2>2. /\ q.response = p.response /\ q.diagnostics = p.diagnostics + 1 /\ q.out = p.out
        /\ d.state = c.state /\ d.logs = c.logs /\ d.spoiled = c.spoiled /\ d.stdout = c.stdout
        /\ d.reply = c.reply /\ d.stderr = c.stderr - 1 /\ d.stdin = c.stdin /\ d.line = c.line
    BY <1>2 DEF Processes, Workers
  <2> HIDE DEF q, d
  <2>3. WorkerOK(c) => WorkerOK(d)
    BY <2>2 DEF WorkerOK
  <2>4. Clean(p, c, prepared[s]) => Clean(q, d, prepared[s])
    <3>1. q.diagnostics + d.stderr + d.logs = p.diagnostics + c.stderr + c.logs
      BY <1>2, <2>2
    <3>2. Served(p, c) => Served(q, d)
      BY <2>2 DEF Served
    <3>3. SUFFICES ASSUME Clean(p, c, prepared[s]) PROVE Clean(q, d, prepared[s])
      OBVIOUS
    <3>4. d.state \in {"read", "encode"} => Served(q, d)
      BY <1>2, <1>4, <2>2, <3>2, <3>3 DEF Clean
    <3> QED BY <2>2, <3>1, <3>3, <3>4 DEF Clean
  <2>5. FairSlot(prepared[s], error[s], q, d, prepared[s] \in Blamed)
    <3>1. c # None
      BY <1>2, Fields
    <3> QED BY <1>1, <1>2, <2>3, <2>4, <3>1, FairHere DEF FairSlot
  <2>6. error' = [error EXCEPT ![s] = error[s]]
    BY <1>4 DEF PoolInv, TypeOK
  <2> QED BY <1>1, <2>1, <2>5, <2>6, FairHere, FairPoll
<1>5. CASE UNCHANGED <<error, process, child>>
  BY <1>1, <1>5, StayFair
<1> QED BY <1>3, <1>4, <1>5 DEF PollErrors

LEMMA PollOutputFair == ASSUME PoolInv, FairInv, NEW s \in Slots, PollOutput(s) PROVE FairInv'
<1> DEFINE p == process[s]
           c == child[s]
           j == prepared[s]
<1>1. at.slot = s /\ at.step = "output" /\ UNCHANGED <<prepared, outcome, history>>
  BY DEF PollOutput, At
<1>2. /\ p \in Processes /\ c \in Workers /\ error[s] = None /\ j # None
      /\ SlotKnown(j, None, p, c) /\ p # None /\ c # None
      /\ p.response \in Seq(Pieces) /\ c.stdout \in Seq(Pieces) /\ c.reply \in Seq(Pieces)
  BY <1>1, SlotInPoll, Fields
<1>3. CASE /\ c.stdout # <<>> /\ ~Accepts(Len(p.response) + 1)
           /\ Fail(s, "WorkerFailed") /\ UNCHANGED <<process, child>>
  <2>1. ~(Len(p.response) + Len(c.stdout) + Len(c.reply) <= ResponseLimit + 1)
    <3>1. Len(c.stdout) \in Nat \ {0} /\ Len(p.response) \in Nat /\ Len(c.reply) \in Nat
      BY <1>2, <1>3
    <3>2. PICK a \in Nat, b \in Nat \ {0}, m \in Nat :
              a = Len(p.response) /\ b = Len(c.stdout) /\ m = Len(c.reply)
      BY <3>1
    <3>3. ~(a + 1 <= ResponseLimit + 1)
      BY <1>3, <3>2 DEF Accepts
    <3>4. ~(a + b + m <= ResponseLimit + 1)
      BY <3>3, PoolAssumption
    <3> QED BY <3>2, <3>4
  <2>2. j \in Blamed /\ "WorkerFailed" \in Failures
    BY <1>1, <2>1, FairHere DEF Clean, Failures
  <2> QED BY <1>1, <1>3, <2>2, FailFair
<1>4. CASE /\ c.stdout # <<>>
           /\ process' = [process EXCEPT ![s].response = Append(@, Head(c.stdout))]
           /\ child' = [child EXCEPT ![s].stdout = Tail(@)]
           /\ UNCHANGED <<error, at>>
  <2> DEFINE q == [p EXCEPT !.response = Append(p.response, Head(c.stdout))]
             d == [c EXCEPT !.stdout = Tail(c.stdout)]
  <2>1. process' = [process EXCEPT ![s] = q] /\ child' = [child EXCEPT ![s] = d]
    BY <1>2, <1>4 DEF PoolInv, TypeOK
  <2>2. /\ q.response = Append(p.response, Head(c.stdout)) /\ q.diagnostics = p.diagnostics /\ q.out = p.out
        /\ d.state = c.state /\ d.logs = c.logs /\ d.spoiled = c.spoiled /\ d.stdout = Tail(c.stdout)
        /\ d.reply = c.reply /\ d.stderr = c.stderr /\ d.stdin = c.stdin /\ d.line = c.line
    BY <1>2 DEF Processes, Workers
  <2> HIDE DEF q, d
  <2>3. /\ Head(c.stdout) \in Pieces /\ Head(c.stdout) = c.stdout[1] /\ 1 \in 1..Len(c.stdout)
        /\ Len(c.stdout) \in Nat \ {0} /\ Len(d.stdout) = Len(c.stdout) - 1
        /\ \A k \in 1..Len(d.stdout) : k + 1 \in 1..Len(c.stdout) /\ d.stdout[k] = c.stdout[k + 1]
    BY <1>2, <1>4, <2>2, Behead
  <2>4. /\ Len(q.response) = Len(p.response) + 1 /\ Len(p.response) \in Nat
        /\ q.response[Len(p.response) + 1] = Head(c.stdout)
        /\ \A k \in 1..Len(p.response) : q.response[k] = p.response[k]
        /\ \A k \in 1..Len(q.response) : k \in 1..Len(p.response) \/ k = Len(p.response) + 1
    BY <1>2, <2>2, <2>3, Appended
  <2>5. WorkerOK(c) => WorkerOK(d)
    BY <2>2, <2>3 DEF WorkerOK
  <2>6. ASSUME WorkerOK(c), Clean(p, c, j) PROVE Clean(q, d, j)
    <3>1. Answers(p, c, j)
      BY <1>2 DEF SlotKnown
    <3>2. Head(c.stdout).of = j
      BY <2>3, <2>6, <3>1 DEF Answers, AnswerTo, WorkerOK, Clean
    <3>3. AllOf(q.response, j)
      BY <2>4, <2>6, <3>2 DEF Clean, AllOf
    <3>4. \E v \in {"encoded", "UnsupportedFormat"} :
             Saying(q.response, v) /\ Saying(d.stdout, v) /\ Saying(d.reply, v)
      <4>1. PICK v \in {"encoded", "UnsupportedFormat"} :
                Saying(p.response, v) /\ Saying(c.stdout, v) /\ Saying(c.reply, v)
        BY <2>6 DEF Clean
      <4>2. Saying(q.response, v)
        BY <2>3, <2>4, <4>1 DEF Saying
      <4>3. Saying(d.stdout, v)
        BY <2>3, <4>1 DEF Saying
      <4> QED BY <2>2, <4>1, <4>2, <4>3
    <3>5. \A k \in 1..Len(q.response) : q.response[k].end => k = Len(q.response)
      <4>1. Unfinished(p.response, j)
        <5>1. ~NoneOf(c.stdout, j)
          BY <2>3, <3>2 DEF NoneOf
        <5> QED BY <3>1, <5>1 DEF Answers
      <4>2. \A k \in 1..Len(p.response) : ~p.response[k].end
        BY <2>6, <4>1 DEF Unfinished, Clean, AllOf
      <4> QED BY <2>4, <4>2
    <3>6. Len(q.response) + Len(d.stdout) + Len(d.reply) <= ResponseLimit + 1
      <4>1. Len(c.reply) \in Nat
        BY <1>2
      <4>2. PICK a \in Nat, b \in Nat \ {0}, m \in Nat :
                a = Len(p.response) /\ b = Len(c.stdout) /\ m = Len(c.reply)
        BY <2>3, <2>4, <4>1
      <4>3. a + b + m <= ResponseLimit + 1
        BY <2>6, <4>2 DEF Clean
      <4>4. (a + 1) + (b - 1) + m <= ResponseLimit + 1
        BY <4>3, PoolAssumption
      <4> QED BY <2>2, <2>3, <2>4, <4>2, <4>4
    <3>7. d.state \in {"read", "encode"} => Served(q, d)
      <4>1. Served(p, c) => Served(q, d)
        BY <2>2 DEF Served
      <4> QED BY <1>4, <2>2, <2>6, <4>1 DEF Clean
    <3> QED BY <2>2, <2>6, <3>3, <3>4, <3>5, <3>6, <3>7 DEF Clean
  <2>7. FairSlot(j, error[s], q, d, j \in Blamed)
    BY <1>1, <1>2, <2>5, <2>6, FairHere DEF FairSlot
  <2>8. error' = [error EXCEPT ![s] = error[s]]
    BY <1>4 DEF PoolInv, TypeOK
  <2> QED BY <1>1, <2>1, <2>7, <2>8, FairHere, FairPoll
<1>5. CASE UNCHANGED <<error, process, child>>
  BY <1>1, <1>5, StayFair
<1> QED BY <1>3, <1>4, <1>5 DEF PollOutput

\* The response of a job nothing happened to is one line that says something.
LEMMA CleanFrames ==
    ASSUME NEW j \in Jobs, NEW p \in Processes, NEW c, Clean(p, c, j), Newlines(p.response) # {}
    PROVE  Framed(p.response) /\ Says(p.response) \in {"encoded", "UnsupportedFormat"}
<1> DEFINE r == p.response
<1>1. r \in Seq(Pieces) /\ DOMAIN r = 1..Len(r) /\ Len(r) \in Nat
  BY Fields
<1>2. PICK k \in 1..Len(r) : r[k].end
  BY <1>1 DEF Newlines
<1>3. k = Len(r) /\ 1 \in 1..Len(r) /\ \A i \in 1..Len(r) : r[i].end => i = Len(r)
  BY <1>1, <1>2 DEF Clean
<1>4. Framed(r)
  BY <1>1, <1>2, <1>3 DEF Framed, Newlines
<1>5. \A i \in DOMAIN r : r[i].of = r[1].of /\ r[1].of # 0
  <2>1. j # 0 /\ \A i \in 1..Len(r) : r[i].of = j
    BY PoolAssumption DEF Jobs, Clean, AllOf
  <2> QED BY <1>1, <1>3, <2>1
<1>6. Says(r) = r[1].says
  BY <1>5, Zenon DEF Says
<1>7. r[1].says \in {"encoded", "UnsupportedFormat"}
  BY <1>3 DEF Clean, Saying
<1> QED BY <1>4, <1>6, <1>7

LEMMA PollFramesFair == ASSUME PoolInv, FairInv, NEW s \in Slots, PollFrames(s) PROVE FairInv'
<1> DEFINE p == process[s]
           c == child[s]
           j == prepared[s]
           r == p.response
           says == Says(r)
           failure == IF Framed(r) /\ says # "misfit" THEN says ELSE "WorkerFailed"
<1>1. at.slot = s /\ at.step = "frame" /\ UNCHANGED <<process, child, history>>
  BY DEF PollFrames, At
<1>2. /\ p \in Processes /\ c \in Workers /\ error[s] = None /\ j \in Jobs /\ j # None /\ ~Dead
      /\ SlotKnown(j, None, p, c) /\ c # None /\ r \in Seq(Pieces)
  BY <1>1, SlotInPoll, Fields
<1>3. j \notin Blamed /\ Newlines(r) # {} => Framed(r) /\ says \in {"encoded", "UnsupportedFormat"}
  BY <1>1, <1>2, FairHere, CleanFrames
<1>4. CASE /\ Newlines(r) # {} /\ Framed(r) /\ says = "encoded"
           /\ outcome' = [outcome EXCEPT ![j] = [is |-> "encoded", of |-> r[1].of]]
           /\ prepared' = [prepared EXCEPT ![s] = None] /\ Go(0, "outside") /\ UNCHANGED error
  <2>1. /\ error' = [error EXCEPT ![s] = None] /\ process' = [process EXCEPT ![s] = p]
        /\ child' = [child EXCEPT ![s] = c]
    BY <1>1, <1>2, <1>4 DEF PoolInv, TypeOK
  <2>2. Blamed' = Blamed /\ history' \in [own : SUBSET Jobs, inherited : SUBSET Jobs]
    BY <1>1 DEF Blamed, FairInv
  <2>3. FailuresAreReal'
    <3>1. ASSUME NEW i \in Jobs, outcome'[i] # None, outcome'[i].is \in Faulty PROVE i \in Blamed
      <4>1. CASE i = j
        <5>1. outcome'[i].is = "encoded"
          BY <1>4, <4>1 DEF PoolInv, TypeOK
        <5> QED BY <3>1, <5>1 DEF Faulty
      <4>2. CASE i # j
        <5>1. outcome'[i] = outcome[i]
          BY <1>4, <4>2 DEF PoolInv, TypeOK
        <5> QED BY <3>1, <5>1 DEF FairInv, FailuresAreReal, Failed, Faulty, Blamed
      <4> QED BY <4>1, <4>2
    <3> QED BY <2>2, <3>1 DEF FailuresAreReal, Failed, Faulty, Blamed
  <2>4. ~Closing
    BY <1>1, ClosingSteps DEF PoolInv
  <2>5. FairSlot(None, None, p, c, None \in Blamed')
    BY <1>1, <1>2, FairHere DEF FairSlot
  <2> QED BY <1>2, <1>4, <2>1, <2>2, <2>3, <2>4, <2>5, FairMoves
<1>5. CASE /\ Newlines(r) # {} /\ ~(Framed(r) /\ says = "encoded")
           /\ Fail(s, failure) /\ UNCHANGED <<outcome, prepared>>
  <2>1. failure \in Failures
    <3>1. CASE Framed(r) /\ says # "misfit"
      <4>1. says \in Sayings \/ says = "misfit"
        <5>1. CASE \A i \in DOMAIN r : r[i].of = r[1].of /\ r[1].of # 0
          <6>1. says = r[1].says
            BY <5>1, Zenon DEF Says
          <6>2. DOMAIN r = 1..Len(r) /\ Len(r) \in DOMAIN r /\ Len(r) \in Nat
            BY <1>2, <3>1 DEF Framed, Newlines
          <6>3. 1 \in 1..Len(r) /\ 1 \in DOMAIN r
            BY <6>2
          <6>4. r[1].of = j
            <7>1. Answers(p, c, j) /\ r[1].of # 0
              BY <1>2, <5>1, <6>3, Fields DEF SlotKnown
            <7> QED BY <6>3, <7>1 DEF Answers, AnswerTo
          <6>5. r[1].says \in Sayings
            <7>1. Answers(p, c, j) /\ r[1].of # 0
              BY <1>2, <5>1, <6>3, Fields DEF SlotKnown
            <7> QED BY <6>3, <7>1 DEF Answers, AnswerTo
          <6> QED BY <6>1, <6>5
        <5>2. CASE ~(\A i \in DOMAIN r : r[i].of = r[1].of /\ r[1].of # 0)
          BY <5>2, Zenon DEF Says
        <5> QED BY <5>1, <5>2
      <4>2. says = "UnsupportedFormat"
        BY <1>5, <3>1, <4>1 DEF Sayings
      <4> QED BY <3>1, <4>2 DEF Failures
    <3>2. CASE ~(Framed(r) /\ says # "misfit")
      BY <3>2 DEF Failures
    <3> QED BY <3>1, <3>2
  <2>2. failure \in Faulty => j \in Blamed
    <3>1. j \notin Blamed => failure = "UnsupportedFormat"
      <4>1. SUFFICES ASSUME j \notin Blamed PROVE failure = "UnsupportedFormat"
        OBVIOUS
      <4>2. Framed(r) /\ says = "UnsupportedFormat"
        BY <1>3, <1>5, <4>1
      <4> QED BY <4>2
    <3> QED BY <3>1 DEF Faulty
  <2> HIDE DEF failure
  <2> QED BY <1>1, <1>5, <2>1, <2>2, FailFair
<1>6. CASE /\ c.state = "gone" /\ Fail(s, "WorkerFailed") /\ UNCHANGED <<outcome, prepared>>
  <2>1. j \in Blamed /\ "WorkerFailed" \in Failures
    BY <1>1, <1>6, FairHere DEF WorkerOK, Clean, Failures
  <2> QED BY <1>1, <1>6, <2>1, FailFair
<1>7. CASE UNCHANGED <<outcome, prepared, error>>
  BY <1>1, <1>7, StayFair
<1>8. \/ /\ Newlines(r) # {} /\ Framed(r) /\ says = "encoded"
         /\ outcome' = [outcome EXCEPT ![j] = [is |-> "encoded", of |-> r[1].of]]
         /\ prepared' = [prepared EXCEPT ![s] = None] /\ Go(0, "outside") /\ UNCHANGED error
      \/ /\ Newlines(r) # {} /\ ~(Framed(r) /\ says = "encoded")
         /\ Fail(s, failure) /\ UNCHANGED <<outcome, prepared>>
      \/ /\ c.state = "gone" /\ Fail(s, "WorkerFailed") /\ UNCHANGED <<outcome, prepared>>
      \/ UNCHANGED <<outcome, prepared, error>>
  BY DEF PollFrames
<1> QED BY <1>4, <1>5, <1>6, <1>7, <1>8

LEMMA KillsFair == ASSUME PoolInv, FairInv, NEW s \in Slots, Kills(s) PROVE FairInv'
<1>1. /\ ~Dead /\ ~Closing /\ UNCHANGED <<outcome, history>> /\ prepared[s] # None
      /\ prepared' = [prepared EXCEPT ![s] = prepared[s]] /\ error' = [error EXCEPT ![s] = error[s]]
      /\ process' = [process EXCEPT ![s] = None] /\ child' = [child EXCEPT ![s] = None]
  BY DEF Kills, At, Dead, Closing, Over, PoolInv, TypeOK, PlaceKnown
<1>2. Blamed' = Blamed /\ FailuresAreReal' /\ history' \in [own : SUBSET Jobs, inherited : SUBSET Jobs]
  BY <1>1, RealStays DEF Blamed, FairInv
<1>3. FairSlot(prepared[s], error[s], None, None, prepared[s] \in Blamed') /\ (error[s] \in Faulty => prepared[s] \in Blamed')
  BY <1>1, <1>2 DEF FairSlot, FairInv
<1> QED BY <1>1, <1>2, <1>3, FairMoves

LEMMA ReportsFair == ASSUME PoolInv, FairInv, NEW s \in Slots, Reports(s) PROVE FairInv'
<1> DEFINE j == prepared[s]
<1>1. /\ ~Dead /\ ~Closing /\ UNCHANGED history /\ j \in Jobs /\ process[s] = None /\ child[s] = None
      /\ outcome' = [outcome EXCEPT ![j] = [is |-> error[s], of |-> j]]
      /\ prepared' = [prepared EXCEPT ![s] = None] /\ error' = [error EXCEPT ![s] = None]
      /\ process' = [process EXCEPT ![s] = None] /\ child' = [child EXCEPT ![s] = None]
  <2>1. at = [slot |-> s, step |-> "delete"] /\ j # None /\ process[s] = None /\ child[s] = None
    BY DEF Reports, At, PoolInv, PlaceKnown
  <2> QED BY <2>1 DEF Reports, At, Dead, Closing, Over, PoolInv, TypeOK
<1>2. Blamed' = Blamed /\ history' \in [own : SUBSET Jobs, inherited : SUBSET Jobs]
  BY <1>1 DEF Blamed, FairInv
<1>3. FailuresAreReal'
  <2>1. ASSUME NEW i \in Jobs, outcome'[i] # None, outcome'[i].is \in Faulty PROVE i \in Blamed
    <3>1. CASE i = j
      <4>1. outcome'[i].is = error[s] /\ j # None
        BY <1>1, <3>1, NoneAssumption DEF PoolInv, TypeOK
      <4> QED BY <2>1, <3>1, <4>1 DEF FairInv
    <3>2. CASE i # j
      <4>1. outcome'[i] = outcome[i]
        BY <1>1, <3>2 DEF PoolInv, TypeOK
      <4> QED BY <2>1, <4>1 DEF FairInv, FailuresAreReal, Failed, Faulty, Blamed
    <3> QED BY <3>1, <3>2
  <2> QED BY <1>2, <2>1 DEF FailuresAreReal, Failed, Faulty, Blamed
<1>4. FairSlot(None, None, None, None, None \in Blamed')
  BY DEF FairSlot
<1> QED BY <1>1, <1>2, <1>3, <1>4, FairMoves

\* A worker that is given a job is as new, or what it has left blames the job.
LEMMA BeginFair ==
    ASSUME NEW j \in Jobs, NEW p, NEW q \in Processes, NEW c \in Workers,
           Idle(p, c), WorkerOK(c), ~c.spoiled, c.stderr = 0,
           q.out # <<>>, q.response = <<>>, q.diagnostics = 0
    PROVE  Clean(q, c, j)
<1>1. c.stdout \in Seq(Pieces) /\ c.reply = <<>> /\ c.state = "read" /\ c.logs = 0
  BY Fields DEF Idle, Served, WorkerOK
<1>2. c.stdout = <<>>
  <2>1. \A k \in 1..Len(c.stdout) : FALSE
    BY <1>1 DEF Idle, AllOf, WorkerOK
  <2>2. Len(c.stdout) \in Nat /\ (Len(c.stdout) = 0 => c.stdout = <<>>)
    BY <1>1
  <2>3. Len(c.stdout) # 0 => 1 \in 1..Len(c.stdout)
    BY <2>2
  <2> QED BY <2>1, <2>2, <2>3
<1>3. AllOf(q.response, j) /\ \A v : Saying(q.response, v) /\ Saying(c.stdout, v) /\ Saying(c.reply, v)
  BY <1>1, <1>2 DEF AllOf, Saying
<1>4. Len(q.response) = 0 /\ Len(c.stdout) = 0 /\ Len(c.reply) = 0
  BY <1>1, <1>2
<1>5. Len(q.response) + Len(c.stdout) + Len(c.reply) <= ResponseLimit + 1
  BY <1>4, PoolAssumption
<1>6. q.diagnostics + c.stderr + c.logs <= ResponseLimit + 1
  BY <1>1, PoolAssumption
<1> QED BY <1>1, <1>2, <1>3, <1>5, <1>6 DEF Clean

LEMMA SubmitFair == ASSUME PoolInv, FairInv, Submit PROVE FairInv'
<1>1. ~Dead /\ ~Closing /\ next \in Jobs /\ UNCHANGED outcome
  <2>1. next \in 1..MaxJobs + 1 /\ next <= MaxJobs /\ MaxJobs \in Nat
    BY PoolAssumption DEF Submit, PoolInv, TypeOK
  <2> QED BY <2>1 DEF Submit, Outside, At, Dead, Closing, Over, Jobs
<1>2. PICK s \in Slots \ Active, n \in Requests :
          LET kept == process[s] # None
              p == IF kept THEN process[s] ELSE NewProcess
              c == IF kept THEN child[s] ELSE NewChild
          IN
          /\ prepared' = [prepared EXCEPT ![s] = next]
          /\ \/ /\ ~kept
                /\ error' = [error EXCEPT ![s] = "WorkerFailed"]
                /\ history' = [history EXCEPT !.own = @ \cup {next}]
                /\ UNCHANGED <<process, child>>
             \/ /\ n <= RequestLimit
                /\ process' = [process EXCEPT ![s] = Begin(p, n)] /\ child' = [child EXCEPT ![s] = c]
                /\ history' = IF c.spoiled \/ c.stderr > 0 THEN [history EXCEPT !.inherited = @ \cup {next}]
                              ELSE history
                /\ UNCHANGED error
             \/ /\ process' = [process EXCEPT ![s] = p] /\ child' = [child EXCEPT ![s] = c]
                /\ error' = [error EXCEPT ![s] = "InvalidRequest"]
                /\ history' = [history EXCEPT !.own = @ \cup {next}]
  BY DEF Submit
<1>3. prepared[s] = None /\ error[s] = None /\ n \in Nat /\ SlotKnown(None, None, process[s], child[s])
  BY <1>1, <1>2, PoolAssumption DEF Active, FairInv, PoolInv
<1>4. PICK p \in Processes, c \in Workers :
          /\ p = (IF process[s] # None THEN process[s] ELSE NewProcess)
          /\ c = (IF process[s] # None THEN child[s] ELSE NewChild)
          /\ Idle(p, c) /\ WorkerOK(c)
  <2>1. CASE process[s] # None
    <3>1. process[s] \in Processes /\ child[s] \in Workers /\ child[s] # None
      BY <1>3, <2>1 DEF SlotKnown, PoolInv, TypeOK
    <3>2. Idle(process[s], child[s]) /\ WorkerOK(child[s])
      BY <1>1, <1>3, <2>1, <3>1 DEF SlotKnown, FairInv, FairSlot
    <3> QED BY <2>1, <3>1, <3>2
  <2>2. CASE process[s] = None
    <3>1. NewProcess \in Processes /\ NewChild \in Workers
      BY DEF NewProcess, NewChild, Processes, Workers, Children
    <3>2. Idle(NewProcess, NewChild) /\ WorkerOK(NewChild)
      BY DEF NewProcess, NewChild, Idle, Served, AllOf, WorkerOK
    <3> QED BY <2>2, <3>1, <3>2
  <2> QED BY <2>1, <2>2
<1>5. /\ prepared' = [prepared EXCEPT ![s] = next] /\ next # None
      /\ Blamed \subseteq Blamed' /\ history' \in [own : SUBSET Jobs, inherited : SUBSET Jobs]
  BY <1>1, <1>2, NoneAssumption DEF FairInv, Blamed
<1>6. FailuresAreReal'
  BY <1>1, <1>5, RealStays
<1> DEFINE own == history' = [history EXCEPT !.own = @ \cup {next}]
<1>7. own => next \in Blamed'
  BY DEF FairInv, Blamed
<1>8. CASE /\ own /\ error' = [error EXCEPT ![s] = "WorkerFailed"] /\ UNCHANGED <<process, child>>
  <2>1. process' = [process EXCEPT ![s] = process[s]] /\ child' = [child EXCEPT ![s] = child[s]]
    BY <1>8 DEF PoolInv, TypeOK
  <2>2. "WorkerFailed" # None
    BY NoneAssumption DEF Failures
  <2>3. FairSlot(next, "WorkerFailed", process[s], child[s], next \in Blamed')
    BY <2>2 DEF FairSlot
  <2>4. error' = [error EXCEPT ![s] = "WorkerFailed"] /\ next \in Blamed'
    BY <1>7, <1>8
  <2> HIDE DEF own
  <2> QED BY <1>1, <1>5, <1>6, <2>1, <2>3, <2>4, FairMoves
<1>9. CASE /\ process' = [process EXCEPT ![s] = Begin(p, n)] /\ child' = [child EXCEPT ![s] = c]
           /\ history' = IF c.spoiled \/ c.stderr > 0 THEN [history EXCEPT !.inherited = @ \cup {next}]
                         ELSE history
           /\ UNCHANGED error
  <2>1. Line(next, n, None) \in Seq(Pieces) /\ Line(next, n, None) # <<>> /\ <<>> \in Seq(Pieces)
    BY <1>1, <1>3, NewLine, PoolAssumption DEF Jobs
  <2>2. /\ Begin(p, n) \in Processes /\ Begin(p, n).out = Line(next, n, None)
        /\ Begin(p, n).response = <<>> /\ Begin(p, n).diagnostics = 0
    BY <1>4, <2>1 DEF Begin, Processes
  <2>3. next \notin Blamed' => ~c.spoiled /\ c.stderr = 0
    <3>1. c.stderr \in Nat
      BY DEF Workers
    <3>2. c.spoiled \/ c.stderr > 0 => next \in Blamed'
      BY <1>9 DEF FairInv, Blamed
    <3> QED BY <3>1, <3>2
  <2> DEFINE q == Begin(p, n)
  <2> HIDE DEF q
  <2>4. FairSlot(next, None, q, c, next \in Blamed')
    <3>1. next \notin Blamed' => Clean(q, c, next)
      <4>1. q \in Processes /\ q.out # <<>> /\ q.response = <<>> /\ q.diagnostics = 0
        BY <2>1, <2>2 DEF q
      <4> QED BY <1>1, <1>4, <2>3, <4>1, BeginFair
    <3> QED BY <1>4, <3>1 DEF FairSlot
  <2>5. error' = [error EXCEPT ![s] = None] /\ process' = [process EXCEPT ![s] = q]
    BY <1>3, <1>9 DEF PoolInv, TypeOK, q
  <2>6. child' = [child EXCEPT ![s] = c] /\ (None \in Faulty => next \in Blamed')
    BY <1>9, NoneAssumption DEF Faulty, Failures
  <2> QED BY <1>1, <1>5, <1>6, <2>4, <2>5, <2>6, FairMoves
<1>10. CASE /\ process' = [process EXCEPT ![s] = p] /\ child' = [child EXCEPT ![s] = c]
            /\ error' = [error EXCEPT ![s] = "InvalidRequest"] /\ own
  <2>1. "InvalidRequest" # None
    BY NoneAssumption DEF Failures
  <2>2. FairSlot(next, "InvalidRequest", p, c, next \in Blamed')
    BY <2>1 DEF FairSlot
  <2> QED BY <1>1, <1>5, <1>6, <1>7, <1>10, <2>2, FairMoves
<1> QED BY <1>2, <1>4, <1>8, <1>9, <1>10

-----------------------------------------------------------------------------
(* The rest.                                                               *)

\* A step that changes no slot.
LEMMA NoSlotFair ==
    ASSUME FairInv, UNCHANGED <<prepared, error, process, child, outcome, history>>,
           Dead <=> Dead', ~Closing' => ~Closing
    PROVE  FairInv'
BY DEF FairInv, FairSlot, FailuresAreReal, Failed, Blamed, Clean, WorkerOK, AllOf, Saying, Served

LEMMA ReapsFair == ASSUME PoolInv, FairInv, NEW s \in Slots, Reaps(s) \/ Purges(s) PROVE FairInv'
<1>1. /\ ~Dead /\ UNCHANGED <<outcome, history>> /\ Closing'
      /\ error' = [error EXCEPT ![s] = error[s]]
      /\ process' = [process EXCEPT ![s] = None] /\ child' = [child EXCEPT ![s] = None]
  <2>1. CASE Reaps(s)
    BY <2>1 DEF Reaps, At, Go, Dead, Closing, PoolInv, TypeOK
  <2>2. CASE Purges(s)
    <3>1. process[s] = None /\ child[s] = None
      BY <2>2 DEF Purges, PoolInv, PlaceKnown
    <3>2. Closing'
      BY <2>2 DEF Purges, Go, Closing, Over, At
    <3> QED BY <2>2, <3>1, <3>2 DEF Purges, At, Dead, PoolInv, TypeOK
  <2> QED BY <2>1, <2>2
<1>2. PICK j : j \in {prepared[s], None} /\ prepared' = [prepared EXCEPT ![s] = j]
  BY DEF Reaps, Purges, PoolInv, TypeOK
<1>3. Blamed' = Blamed /\ FailuresAreReal' /\ history' \in [own : SUBSET Jobs, inherited : SUBSET Jobs]
  BY <1>1, RealStays DEF Blamed, FairInv
<1>4. FairSlot(j, error[s], None, None, j \in Blamed') /\ (j # None /\ error[s] \in Faulty => j \in Blamed')
  BY <1>2, <1>3 DEF FairSlot, FairInv
<1> QED BY <1>1, <1>2, <1>3, <1>4, FairMoves

LEMMA TickFair == ASSUME PoolInv, FairInv, Tick PROVE FairInv'
<1>1. UNCHANGED <<prepared, error, child, at, outcome, history>>
  BY DEF Tick
<1>2. ASSUME NEW t \in Slots
      PROVE  process[t] \in Processes => /\ process'[t].response = process[t].response
                                         /\ process'[t].diagnostics = process[t].diagnostics
                                         /\ process'[t].out = process[t].out
  BY DEF Tick, Processes
<1>3. ASSUME ~Dead, NEW t \in Slots
      PROVE  FairSlot(prepared[t], error[t], process'[t], child[t], prepared[t] \in Blamed)
  <2>1. FairSlot(prepared[t], error[t], process[t], child[t], prepared[t] \in Blamed)
    BY <1>3 DEF FairInv
  <2>2. CASE child[t] = None
    BY <2>2 DEF FairSlot
  <2>3. CASE child[t] # None
    <3>1. process[t] \in Processes
      BY <1>3, <2>3 DEF PoolInv, TypeOK
    <3>2. Clean(process[t], child[t], prepared[t]) => Clean(process'[t], child[t], prepared[t])
      BY <1>2, <3>1 DEF Clean, Served
    <3> QED BY <2>1, <3>2 DEF FairSlot
  <2> QED BY <2>2, <2>3
<1>4. ~Dead' => ~Dead
  BY <1>1 DEF Dead, At
<1>5. Blamed' = Blamed /\ FailuresAreReal' /\ (~Closing' => ~Closing)
  BY <1>1, RealStays DEF Blamed, Closing, Over, At
<1>6. ASSUME ~Dead', NEW t \in Slots
      PROVE  FairSlot(prepared[t], error[t], process[t], child[t], prepared[t] \in Blamed)'
  <2>1. FairSlot(prepared'[t], error'[t], process'[t], child'[t], prepared'[t] \in Blamed')
    BY <1>1, <1>3, <1>4, <1>5, <1>6
  <2> QED BY <2>1
<1> QED BY <1>1, <1>5, <1>6 DEF FairInv

LEMMA FairSteps == ASSUME PoolInv, FairInv, [Next]_vars PROVE FairInv'
<1>1. CASE Submit
  BY <1>1, SubmitFair
<1>2. CASE PollBegins \/ Shutdown \/ UNCHANGED vars
  <2>1. UNCHANGED <<prepared, error, process, child, outcome, history>>
    BY <1>2 DEF PollBegins, Shutdown, vars
  <2>2. (Dead <=> Dead') /\ (~Closing' => ~Closing)
    <3>1. CASE PollBegins \/ Shutdown
      BY <3>1 DEF PollBegins, Shutdown, Outside, At, Go, PollAfter, Dead, Closing, Over
    <3>2. CASE UNCHANGED vars
      BY <3>2 DEF vars, Dead, Closing, Over, At
    <3> QED BY <1>2, <3>1, <3>2
  <2> QED BY <2>1, <2>2, NoSlotFair
<1>3. ASSUME NEW s \in Slots,
             \/ PollChecks(s) \/ PollWrites(s) \/ PollErrors(s) \/ PollOutput(s) \/ PollFrames(s)
             \/ Kills(s) \/ Reports(s) \/ Reaps(s) \/ Purges(s)
      PROVE  FairInv'
  BY <1>3, PollChecksFair, PollWritesFair, PollErrorsFair, PollOutputFair, PollFramesFair, KillsFair,
     ReportsFair, ReapsFair
<1>4. CASE HostDies
  <2>1. Dead' /\ UNCHANGED <<outcome, error, history>>
    BY <1>4 DEF HostDies, Dead, At, Go
  <2>2. Blamed \subseteq Blamed' /\ history' \in [own : SUBSET Jobs, inherited : SUBSET Jobs]
    BY <2>1 DEF Blamed, FairInv
  <2>3. \A s \in Slots : prepared'[s] \in {prepared[s], None}
    BY <1>4 DEF HostDies
  <2> QED BY <2>1, <2>2, <2>3, DeadFair
<1>5. CASE Tick
  BY <1>5, TickFair
<1>6. ASSUME NEW s \in Slots, Work(s) \/ Leaves(s) \/ Watches(s) \/ Crashes(s) \/ Strays(s) PROVE FairInv'
  <2>1. CASE ~Dead
    <3>1. ~Leaves(s) /\ ~Watches(s)
      BY <2>1 DEF Leaves, Watches
    <3> QED BY <1>6, <2>1, <3>1, ReadsFair, EncodesFair, LoggingFair, RepliesFair, CrashesFair, StraysFair DEF Work
  <2>2. CASE Dead
    <3>1. ChildOnly
      BY <1>6 DEF Work, Reads, Encodes, Logging, Replies, Leaves, Watches, Crashes, Strays
    <3>2. UNCHANGED history \/ Blame(s)
      BY <1>6 DEF Work, Reads, Encodes, Logging, Replies, Leaves, Watches, Crashes, Strays
    <3>3. Blamed \subseteq Blamed' /\ history' \in [own : SUBSET Jobs, inherited : SUBSET Jobs]
      BY <3>2, BlameGrows DEF Blamed, FairInv
    <3>4. Dead' /\ UNCHANGED <<outcome, error, prepared>>
      BY <2>2, <3>1 DEF ChildOnly, Dead, At
    <3> QED BY <3>3, <3>4, DeadFair
  <2> QED BY <2>1, <2>2
<1> QED BY <1>1, <1>2, <1>3, <1>4, <1>5, <1>6 DEF Next, Poll, Drop, Ended

\* No job fails for a worker's failure or a refused request unless a fault
\* happened to its worker, it is past a limit itself, or an earlier job left
\* its worker spoiled or with diagnostics in the pipe (Process::poll_io and
\* begin): whatever the limits, lengths and interleavings.
THEOREM FailuresStayReal == Spec => []FailuresAreReal
<1>1. FairInv => FailuresAreReal
  BY DEF FairInv
<1>2. PoolInv /\ FairInv /\ [Next]_vars => FairInv'
  BY FairSteps
<1> QED BY <1>1, <1>2, FairStarts, PoolInvariant, PTL DEF Spec
===============================================================================
