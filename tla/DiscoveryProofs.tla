--------------------------- MODULE DiscoveryProofs ---------------------------
(* What holds of the walk for every tree, path, edit and failing call.     *)
EXTENDS DiscoveryProperties, Induction

-----------------------------------------------------------------------------
(* Lookups.  The definitions of Secure and Follows speak of the variable   *)
(* tree; the lemmas are about any tree t, to be used before and after a    *)
(* step.                                                                   *)

Found == Inodes \cup {None}
TreeOf(t) == t \in [Dirs -> [Names -> Found]]
Entry(t, d, n) == IF d \in Dirs THEN t[d][n] ELSE None

Look(t, d, path) ==
    LET at[k \in 0..Len(path)] ==
            IF k = 0 THEN d ELSE (IF at[k - 1] \in Dirs THEN t[at[k - 1]][path[k]] ELSE None)
    IN at[Len(path)]

\* at is what a lookup goes through.
IsLookup(t, d, path, at) ==
    /\ at \in [0..Len(path) -> Found] /\ at[0] = d
    /\ \A k \in 1..Len(path) : at[k] = Entry(t, at[k - 1], path[k])

LEMMA SecureIsLook == \A d, path : Secure(d, path) = Look(tree, d, path) /\ Secure(d, path)' = Look(tree', d, path)
BY DEF Secure, Look, Bound

LEMMA EntryFound == ASSUME NEW t, TreeOf(t), NEW d, NEW n \in Names PROVE Entry(t, d, n) \in Found
BY DEF Entry, TreeOf, Found

\* There is what a lookup goes through, and it ends with the result.
LEMMA LookExists == ASSUME NEW t, TreeOf(t), NEW d \in Found, NEW path \in Seq(Names)
                    PROVE  \E at : IsLookup(t, d, path, at) /\ Look(t, d, path) = at[Len(path)]
<1> DEFINE n == Len(path)
           step == [k \in 1..n |-> [v \in Found |-> Entry(t, v, path[k])]]
           Rec(g) == g = [k \in 0..n |-> IF k = 0 THEN d ELSE (IF g[k - 1] \in Dirs THEN t[g[k - 1]][path[k]] ELSE None)]
           at == CHOOSE g : Rec(g)
<1>1. n \in Nat /\ step \in [1..n -> [Found -> Found]]
  BY EntryFound
<1>2. PICK f \in [0..n -> Found] : f[0] = d /\ \A k \in 1..n : f[k] = step[k][f[k - 1]]
  <2>1. StepsIn(step, n, Found)
    BY <1>1 DEF StepsIn
  <2>2. n \in Nat
    OBVIOUS
  <2> HIDE DEF n, step, Rec, at
  <2>3. PICK f : Recurs(f, n, Found, d, step)
    BY <2>1, <2>2, Recursion
  <2> QED BY <2>3 DEF Recurs
<1>3. \A k \in 1..n : f[k - 1] \in Found /\ f[k] = Entry(t, f[k - 1], path[k])
  BY <1>2
<1>4. Rec(f)
  BY <1>2, <1>3 DEF Entry
<1>5. Rec(at)
  <2> HIDE DEF Rec
  <2> QED BY <1>4
<1>6. Look(t, d, path) = at[n]
  BY DEF Look
<1> HIDE DEF at
<1>7. at[0] = d /\ \A k \in 1..n : at[k] = Entry(t, at[k - 1], path[k])
  BY <1>5, <1>1 DEF Entry
<1>8. at = [k \in 0..n |-> at[k]]
  BY <1>5
<1> DEFINE S == {k \in Nat : k <= n => at[k] \in Found}
<1>9. 0 \in S
  BY <1>7
<1>10. ASSUME NEW k \in Nat, k \in S PROVE k + 1 \in S
  <2>1. CASE k + 1 <= n
    <3>1. k + 1 \in 1..n /\ (k + 1) - 1 = k /\ path[k + 1] \in Names
      BY <1>1, <2>1
    <3>2. at[k + 1] = Entry(t, at[k], path[k + 1])
      BY <3>1, <1>7
    <3> QED BY <3>1, <3>2, EntryFound
  <2> QED BY <2>1
<1>11. Nat \subseteq S
  <2> HIDE DEF S
  <2> QED BY <1>9, <1>10, SetInduction
<1>12. at \in [0..n -> Found]
  BY <1>8, <1>11
<1> QED BY <1>6, <1>7, <1>12 DEF IsLookup

\* Two paths agree on their first m components, and so do lookups of them.
Agree(p, q, m) == m <= Len(p) /\ m <= Len(q) /\ \A k \in 1..m : p[k] = q[k]

LEMMA LookupsAgree ==
    ASSUME NEW t, NEW d, NEW p \in Seq(Names), NEW q \in Seq(Names), NEW f, NEW g,
           IsLookup(t, d, p, f), IsLookup(t, d, q, g),
           NEW m \in Nat, Agree(p, q, m)
    PROVE  f[m] = g[m]
<1> USE DEF Agree
<1> DEFINE S == {k \in Nat : k <= m => f[k] = g[k]}
<1>1. 0 \in S
  BY DEF IsLookup
<1>2. ASSUME NEW k \in Nat, k \in S PROVE k + 1 \in S
  <2>1. CASE k + 1 <= m
    <3>1. k + 1 \in 1..Len(p) /\ k + 1 \in 1..Len(q) /\ k + 1 \in 1..m /\ (k + 1) - 1 = k
      BY <2>1
    <3>2. f[k + 1] = Entry(t, f[k], p[k + 1]) /\ g[k + 1] = Entry(t, g[k], q[k + 1])
      BY <3>1 DEF IsLookup
    <3> QED BY <1>2, <3>1, <3>2
  <2> QED BY <2>1
<1> HIDE DEF S
<1>3. m \in S
  BY <1>1, <1>2, SetInduction
<1> QED BY <1>3 DEF S

LEMMA LookEmpty == ASSUME NEW t, TreeOf(t), NEW d \in Found PROVE Look(t, d, <<>>) = d
<1>1. <<>> \in Seq(Names) /\ Len(<<>>) = 0
  OBVIOUS
<1>2. PICK at : IsLookup(t, d, <<>>, at) /\ Look(t, d, <<>>) = at[Len(<<>>)]
  BY <1>1, LookExists
<1> QED BY <1>1, <1>2 DEF IsLookup

\* One more component is one more entry.
LEMMA LookAppend == ASSUME NEW t, TreeOf(t), NEW d \in Found, NEW path \in Seq(Names), NEW n \in Names
                    PROVE  Look(t, d, Append(path, n)) = Entry(t, Look(t, d, path), n)
<1> DEFINE q == Append(path, n)  m == Len(path)
<1>1. /\ q \in Seq(Names) /\ m \in Nat /\ Len(q) = m + 1 /\ q[m + 1] = n
      /\ \A k \in 1..m : q[k] = path[k]
  OBVIOUS
<1> HIDE DEF q
<1>2. PICK f : IsLookup(t, d, path, f) /\ Look(t, d, path) = f[Len(path)]
  BY LookExists
<1>3. PICK g : IsLookup(t, d, q, g) /\ Look(t, d, q) = g[Len(q)]
  BY <1>1, LookExists
<1>4. f[m] = g[m]
  <2>1. Agree(path, q, m)
    BY <1>1 DEF Agree
  <2> HIDE DEF m
  <2> QED BY <1>1, <1>2, <1>3, <2>1, LookupsAgree
<1>5. g[m + 1] = Entry(t, g[m], n)
  <2>1. m + 1 \in 1..Len(q) /\ (m + 1) - 1 = m
    BY <1>1
  <2> QED BY <1>1, <1>3, <2>1 DEF IsLookup
<1> QED BY <1>1, <1>2, <1>3, <1>4, <1>5 DEF q

LEMMA LookFound == ASSUME NEW t, TreeOf(t), NEW d \in Found, NEW path \in Seq(Names)
                   PROVE  Look(t, d, path) \in Found
<1>1. PICK at : IsLookup(t, d, path, at) /\ Look(t, d, path) = at[Len(path)]
  BY LookExists
<1> QED BY <1>1 DEF IsLookup

\* The first k components of a path.
Upto(path, k) == SubSeq(path, 1, k)

LEMMA UptoFacts ==
    ASSUME NEW path \in Seq(Names)
    PROVE  /\ Upto(path, 0) = <<>> /\ Upto(path, Len(path)) = path
           /\ \A k \in 0..Len(path) : Upto(path, k) \in Seq(Names) /\ Len(Upto(path, k)) = k
           /\ \A k \in 1..Len(path) : path[k] \in Names /\ Upto(path, k) = Append(Upto(path, k - 1), path[k])
           /\ \A k \in 0..Len(path), j \in Nat : j <= k => Upto(Upto(path, k), j) = Upto(path, j)
           /\ \A k \in 0..Len(path) : \A j \in 1..k : Upto(path, k)[j] = path[j]
<1>1. \A k \in 0..Len(path) : Upto(path, k) \in Seq(Names) /\ Len(Upto(path, k)) = k
                              /\ \A j \in 1..k : Upto(path, k)[j] = path[j]
  BY DEF Upto
<1>2. Upto(path, 0) = <<>> /\ Upto(path, Len(path)) = path
  BY DEF Upto
<1>3. ASSUME NEW k \in 1..Len(path)
      PROVE  path[k] \in Names /\ Upto(path, k) = Append(Upto(path, k - 1), path[k])
  <2>1. k - 1 \in 0..Len(path) /\ k \in 0..Len(path) /\ path[k] \in Names
    OBVIOUS
  <2> DEFINE a == Append(Upto(path, k - 1), path[k])
  <2>2. a \in Seq(Names) /\ Len(a) = k /\ \A j \in 1..k : a[j] = path[j]
    BY <1>1, <2>1
  <2> HIDE DEF a
  <2>3. Upto(path, k) = a
    BY <1>1, <2>1, <2>2
  <2> QED BY <2>1, <2>3 DEF a
<1>4. ASSUME NEW k \in 0..Len(path), NEW j \in Nat, j <= k
      PROVE  Upto(Upto(path, k), j) = Upto(path, j)
  BY <1>4 DEF Upto
<1> QED BY <1>1, <1>2, <1>3, <1>4

\* A lookup goes on from each prefix of its path.
LEMMA LookOn == ASSUME NEW t, TreeOf(t), NEW d \in Found, NEW path \in Seq(Names), NEW k \in 1..Len(path)
                PROVE  Look(t, d, Upto(path, k)) = Entry(t, Look(t, d, Upto(path, k - 1)), path[k])
<1>1. Upto(path, k - 1) \in Seq(Names) /\ path[k] \in Names
      /\ Upto(path, k) = Append(Upto(path, k - 1), path[k])
  BY UptoFacts
<1> QED BY <1>1, LookAppend

\* What is found at the end was found all along: in directories.
LEMMA DirsAllAlong ==
    ASSUME NEW t, TreeOf(t), NEW d \in Found, NEW path \in Seq(Names),
           Look(t, d, path) # None
    PROVE  \A k \in 0..Len(path) : /\ Look(t, d, Upto(path, k)) # None
                                   /\ k < Len(path) => Look(t, d, Upto(path, k)) \in Dirs
<1> DEFINE n == Len(path)
           pre(j) == Look(t, d, Upto(path, j))
           S == {k \in Nat : k <= n => pre(n - k) # None}
<1>1. n \in Nat /\ pre(n) = Look(t, d, path)
  BY UptoFacts
<1>2. \A k \in 1..n : pre(k) = Entry(t, pre(k - 1), path[k])
  BY LookOn
<1> HIDE DEF pre, n
<1>3. 0 \in S
  <2>1. n - 0 = n
    BY <1>1
  <2> QED BY <1>1, <2>1
<1>4. ASSUME NEW k \in 1..n, pre(k) # None PROVE pre(k - 1) \in Dirs
  BY <1>2, <1>4 DEF Entry
<1>5. ASSUME NEW k \in Nat, k \in S PROVE k + 1 \in S
  <2>1. CASE k + 1 <= n
    <3>1. n - k \in 1..n /\ (n - k) - 1 = n - (k + 1) /\ k <= n
      BY <1>1, <2>1
    <3>2. pre(n - (k + 1)) \in Dirs
      BY <1>4, <1>5, <3>1
    <3>3. None \notin Dirs
      BY DiscoveryAssumption DEF Inodes
    <3> QED BY <3>2, <3>3
  <2> QED BY <2>1
<1>6. \A k \in Nat : k \in S
  <2> HIDE DEF S
  <2> QED BY <1>3, <1>5, SetInduction
<1>7. ASSUME NEW k \in 0..n PROVE pre(k) # None
  <2>1. n - k \in S /\ n - k <= n /\ n - (n - k) = k
    <3>1. n - k \in Nat /\ n - k <= n /\ n - (n - k) = k
      BY <1>1
    <3> HIDE DEF S
    <3> QED BY <3>1, <1>6
  <2> QED BY <2>1
<1>8. ASSUME NEW k \in 0..n, k < n PROVE pre(k) \in Dirs
  <2>1. k + 1 \in 1..n /\ (k + 1) - 1 = k /\ k + 1 \in 0..n
    BY <1>1, <1>8
  <2> QED BY <1>4, <1>7, <2>1
<1> QED BY <1>7, <1>8 DEF pre, n

\* The entries a path leads through are the same in two trees that differ only
\* in entries of m, none of which the path leads through.
SameBut(m, t, u) == \A d \in Dirs, n \in Names : <<d, n>> \notin m => u[d][n] = t[d][n]
Avoids(m, u, path) == \A k \in 1..Len(path) : <<Look(u, Root, Upto(path, k - 1)), path[k]>> \notin m

LEMMA StableLookup ==
    ASSUME NEW t, TreeOf(t), NEW u, TreeOf(u), NEW m, NEW path \in Seq(Names),
           SameBut(m, t, u), Avoids(m, u, path)
    PROVE  \A k \in 0..Len(path) : Look(u, Root, Upto(path, k)) = Look(t, Root, Upto(path, k))
<1> USE DEF SameBut, Avoids
<1> DEFINE n == Len(path)
           old(j) == Look(t, Root, Upto(path, j))
           new(j) == Look(u, Root, Upto(path, j))
           S == {k \in Nat : k <= n => new(k) = old(k)}
<1>1. Root \in Found /\ n \in Nat
  BY DiscoveryAssumption DEF Found, Inodes
<1>2. 0 \in S
  <2>1. Upto(path, 0) = <<>>
    BY UptoFacts
  <2>2. old(0) = Root /\ new(0) = Root
    BY <1>1, <2>1, LookEmpty
  <2> QED BY <2>2
<1>3. ASSUME NEW k \in Nat, k \in S PROVE k + 1 \in S
  <2>1. CASE k + 1 <= n
    <3>1. k + 1 \in 1..n /\ (k + 1) - 1 = k /\ path[k + 1] \in Names
      BY <2>1
    <3>2. old(k + 1) = Entry(t, old(k), path[k + 1]) /\ new(k + 1) = Entry(u, new(k), path[k + 1])
      BY <1>1, <3>1, LookOn
    <3>3. new(k) = old(k) /\ <<new(k), path[k + 1]>> \notin m
      BY <1>3, <2>1, <3>1
    <3> HIDE DEF old, new
    <3>4. Entry(u, new(k), path[k + 1]) = Entry(t, old(k), path[k + 1])
      BY <3>1, <3>3 DEF Entry
    <3> QED BY <3>2, <3>4
  <2> QED BY <2>1
<1>4. \A k \in Nat : k \in S
  <2> HIDE DEF S
  <2> QED BY <1>2, <1>3, SetInduction
<1> QED BY <1>4

\* Below a directory of the tree there is nothing outside.
LEMMA LookStaysInside ==
    ASSUME NEW t, TreeOf(t), \A d \in Dirs \ Outside, n \in Names : t[d][n] \notin Outside,
           NEW path \in Seq(Names)
    PROVE  Look(t, Root, path) \notin Outside
<1> DEFINE n == Len(path)
           at(j) == Look(t, Root, Upto(path, j))
           S == {k \in Nat : k <= n => at(k) \notin Outside}
<1>1. Root \in Found /\ Root \notin Outside /\ None \notin Outside /\ n \in Nat
  BY DiscoveryAssumption DEF Found, Inodes
<1>2. 0 \in S
  <2>1. Upto(path, 0) = <<>>
    BY UptoFacts
  <2> QED BY <1>1, <2>1, LookEmpty
<1>3. ASSUME NEW k \in Nat, k \in S PROVE k + 1 \in S
  <2>1. CASE k + 1 <= n
    <3>1. k + 1 \in 1..n /\ (k + 1) - 1 = k /\ path[k + 1] \in Names
      BY <2>1
    <3>2. at(k + 1) = Entry(t, at(k), path[k + 1])
      BY <1>1, <3>1, LookOn
    <3>3. at(k) \notin Outside
      BY <1>3, <2>1
    <3> HIDE DEF at
    <3> QED BY <1>1, <3>1, <3>2, <3>3 DEF Entry
  <2> QED BY <2>1
<1>4. n \in S
  <2> HIDE DEF S
  <2> QED BY <1>1, <1>2, <1>3, SetInduction
<1>5. Upto(path, n) = path
  BY UptoFacts
<1> QED BY <1>1, <1>4, <1>5

\* A lookup that crosses links finds what one that refuses them does.
LEMMA FollowsFindsSame ==
    ASSUME TreeOf(tree), NEW path \in Seq(Names), Secure(Root, path) # None
    PROVE  Follows(path) = Secure(Root, path)
<1> DEFINE n == Len(path)
           cross(i) == IF i \in Links THEN Target ELSE i
           Rec(g) == g = [k \in 0..n |-> IF k = 0 THEN Root ELSE Bound(IF g[k - 1] \in Links THEN Target ELSE g[k - 1], path[k])]
           at == CHOOSE g : Rec(g)
<1>1. Root \in Found /\ n \in Nat /\ Dirs \cap Links = {}
  BY DiscoveryAssumption DEF Found, Inodes
<1>2. PICK f : IsLookup(tree, Root, path, f) /\ Look(tree, Root, path) = f[n]
  BY <1>1, LookExists
<1>3. \A k \in 1..n : f[k - 1] \in Dirs
  <2>1. ASSUME NEW k \in 0..n PROVE f[k] = Look(tree, Root, Upto(path, k))
    <3>1. Upto(path, k) \in Seq(Names) /\ Agree(path, Upto(path, k), k) /\ Len(Upto(path, k)) = k
      BY UptoFacts DEF Agree
    <3>2. PICK g : IsLookup(tree, Root, Upto(path, k), g) /\ Look(tree, Root, Upto(path, k)) = g[k]
      BY <1>1, <3>1, LookExists
    <3> QED BY <1>2, <3>1, <3>2, LookupsAgree
  <2>2. \A k \in 0..n : k < n => Look(tree, Root, Upto(path, k)) \in Dirs
    BY <1>1, SecureIsLook, DirsAllAlong
  <2>3. ASSUME NEW k \in 1..n PROVE f[k - 1] \in Dirs
    <3>1. k - 1 \in 0..n /\ k - 1 < n
      OBVIOUS
    <3> QED BY <2>1, <2>2, <3>1
  <2> QED BY <2>3
<1>4. Rec(f)
  <2>1. f = [k \in 0..n |-> f[k]] /\ f[0] = Root
    BY <1>2 DEF IsLookup
  <2>2. ASSUME NEW k \in 1..n PROVE f[k] = Bound(cross(f[k - 1]), path[k])
    <3>1. f[k] = Entry(tree, f[k - 1], path[k]) /\ f[k - 1] \in Dirs /\ f[k - 1] \notin Links
      BY <1>1, <1>2, <1>3 DEF IsLookup
    <3> QED BY <3>1 DEF Entry, Bound
  <2> QED BY <2>1, <2>2
<1>5. Rec(at)
  <2> HIDE DEF Rec
  <2> QED BY <1>4
<1>6. Follows(path) = at[n]
  BY DEF Follows
<1> HIDE DEF at
<1> DEFINE S == {k \in Nat : k <= n => at[k] = f[k]}
<1>7. 0 \in S
  BY <1>1, <1>4, <1>5
<1>8. ASSUME NEW k \in Nat, k \in S PROVE k + 1 \in S
  <2>1. CASE k + 1 <= n
    <3>1. k + 1 \in 0..n /\ k + 1 # 0 /\ (k + 1) - 1 = k /\ k <= n
      BY <1>1, <2>1
    <3>2. at[k + 1] = Bound(cross(at[k]), path[k + 1])
      BY <1>5, <3>1
    <3>3. f[k + 1] = Bound(cross(f[k]), path[k + 1])
      BY <1>4, <3>1
    <3> QED BY <1>8, <3>1, <3>2, <3>3
  <2> QED BY <2>1
<1>9. n \in S
  <2> HIDE DEF S
  <2> QED BY <1>1, <1>7, <1>8, SetInduction
<1> QED BY <1>1, <1>2, <1>6, <1>9, SecureIsLook

-----------------------------------------------------------------------------
(* Types.                                                                  *)

Path == Seq(Names)
DirRecord == [path : Path, ino : Dirs \cup {None}, must : SUBSET Names, may : SUBSET Names]
State == {"unlisted", "skipped", "unseen"}

\* TypeOK, and what it needs: what is kept is paths, and nothing outside was
\* listed nor is in the tree.
TypeInv ==
    /\ TreeOf(tree)
    /\ \A d \in Dirs \ Outside, n \in Names : tree[d][n] \notin Outside
    /\ stack \in Seq(Path) /\ child \in Path /\ files \in Seq(Path)
    /\ records \in Seq([path : Path, state : State])
    /\ dir \in DirRecord /\ dir.must \subseteq dir.may
    /\ visited \subseteq Dirs \cup Regulars
    /\ discovered = Len(files) + Len(records)
    /\ opened \in Seq(Dirs \ Outside)

\* What is listed is dir.path as it was found, as far as nobody touched it.
ListsItsPath ==
    pc \in {"read", "stat"} /\ Untouched(dir.path) => dir.ino = Secure(Root, dir.path)

EndsEmpty == pc = "done" => stack = <<>>

\* A prefix of path, but not all of it, is a directory to be listed, or being
\* listed with the next entry of path still to come.
Pending(path) ==
    \E j \in 0..Len(path) - 1 :
        \/ \E k \in DOMAIN stack : stack[k] = Upto(path, j)
        \/ /\ dir.path = Upto(path, j)
           /\ \/ pc = "open"
              \/ pc \in {"read", "stat"} /\ path[j + 1] \in dir.must
              \/ pc = "stat" /\ child = Upto(path, j + 1)

Settled(path) ==
    \/ /\ Secure(Root, path) \in Regulars => \E k \in DOMAIN files : files[k] = path
       /\ Secure(Root, path) \in Links => HasRecord(path, "skipped")
    \/ \E k \in 1..Len(path) : HasRecord(Upto(path, k), "unseen")

\* As long as the inventory is complete, a file or link nobody touched is on
\* its way or has arrived.
NothingSkipped ==
    complete /\ pc \notin {"failed", "cancelled"} =>
        \A path \in Path :
            Untouched(path) /\ Included(path) /\ Secure(Root, path) \in Regulars \cup Links =>
                Pending(path) \/ Settled(path)

\* A directory or a file of the tree is opened, or nothing.
LEMMA OpensWhatIsThere ==
    ASSUME TypeInv, NEW path \in Path
    PROVE  OpenSecure(path) \in (Dirs \ Outside) \cup Regulars \cup {None}
<1>1. Root \in Found
  BY DiscoveryAssumption DEF Found, Inodes
<1>2. Secure(Root, path) \in Found \ Outside
  BY <1>1, SecureIsLook, LookFound, LookStaysInside DEF TypeInv, Path
<1> QED BY <1>2 DEF OpenSecure, Found, Inodes

\* A directory that cannot be listed.
LEMMA UnlistedTyped == ASSUME TypeInv, Unlisted, dir'.path \in Path
                       PROVE  /\ files' \in Seq(Path) /\ records' \in Seq([path : Path, state : State])
                              /\ discovered' = Len(files') + Len(records')
<1>1. CASE UNCHANGED found
  BY <1>1 DEF found, TypeInv
<1>2. CASE Counted(dir'.path, "unlisted") /\ UNCHANGED files
  <2>1. [path |-> dir'.path, state |-> "unlisted"] \in [path : Path, state : State]
    BY DEF State
  <2> QED BY <1>2, <2>1 DEF Counted, TypeInv
<1> QED BY <1>1, <1>2 DEF Unlisted

\* Other programs keep the tree a tree, and the outside out of it.
LEMMA EditsTyped ==
    ASSUME TypeInv, Creates \/ Removes \/ Moves
    PROVE  /\ TreeOf(tree') /\ \A d \in Dirs \ Outside, n \in Names : tree'[d][n] \notin Outside
           /\ \E s : Edit(s) /\ SameBut(s, tree, tree')
<1> USE DEF SameBut, TypeInv, TreeOf, Found
<1>1. None \notin Outside /\ Regulars \cap Outside = {} /\ Links \cap Outside = {}
  BY DiscoveryAssumption DEF Inodes
<1>2. CASE Creates
  <2>1. PICK d \in Dirs \ Outside, n \in Names, i \in (Regulars \cup Links) \ Placed :
            tree' = [tree EXCEPT ![d][n] = i] /\ Edit({<<d, n>>})
    BY <1>2 DEF Creates
  <2>2. i \in Inodes \cup {None} /\ i \notin Outside
    BY <1>1, <2>1 DEF Inodes
  <2> QED BY <2>1, <2>2
<1>3. CASE Removes
  <2>1. PICK d \in Dirs \ Outside, n \in Names :
            tree' = [tree EXCEPT ![d][n] = None] /\ Edit({<<d, n>>})
    BY <1>3 DEF Removes
  <2> QED BY <1>1, <2>1
<1>4. CASE Moves
  <2>1. PICK d \in Dirs \ Outside, e \in Dirs \ Outside, n \in Names, m \in Names :
            /\ tree' = [tree EXCEPT ![e][m] = tree[d][n], ![d][n] = None]
            /\ Edit({<<d, n>>, <<e, m>>})
    BY <1>4 DEF Moves
  <2> DEFINE u == [tree EXCEPT ![e][m] = tree[d][n]]
  <2>2. /\ TreeOf(u) /\ \A c \in Dirs \ Outside, k \in Names : u[c][k] \notin Outside
        /\ \A c \in Dirs, k \in Names : <<c, k>> # <<e, m>> => u[c][k] = tree[c][k]
    OBVIOUS
  <2>3. tree' = [u EXCEPT ![d][n] = None]
    BY <2>1
  <2> HIDE DEF u
  <2>4. TreeOf(tree') /\ \A c \in Dirs \ Outside, k \in Names : tree'[c][k] \notin Outside
    BY <1>1, <2>2, <2>3
  <2>5. \A c \in Dirs, k \in Names : <<c, k>> # <<d, n>> => tree'[c][k] = u[c][k]
    BY <2>2, <2>3
  <2>6. \A c \in Dirs, k \in Names : <<c, k>> \notin {<<d, n>>, <<e, m>>} => tree'[c][k] = tree[c][k]
    BY <2>2, <2>5
  <2> QED BY <2>1, <2>4, <2>6
<1> QED BY <1>2, <1>3, <1>4

LEMMA TypeStep == TypeInv /\ [Next]_vars => TypeInv'
<1> SUFFICES ASSUME TypeInv, [Next]_vars PROVE TypeInv'
  OBVIOUS
<1> USE DEF world, found
<1>1. CASE Stops \/ ReadFails \/ Completes \/ Cancels \/ UNCHANGED vars
  <2>1. UNCHANGED <<tree, stack, child, files, records, dir, visited, discovered, opened>>
    BY <1>1 DEF Stops, ReadFails, Completes, Cancels, Ends, vars
  <2> QED BY <2>1 DEF TypeInv
<1>2. CASE Pops
  <2>1. Last(stack) \in Path /\ Front(stack) \in Seq(Path)
    BY <1>2 DEF TypeInv, Pops, Last, Front
  <2>2. dir' \in DirRecord /\ dir'.path = Last(stack) /\ dir'.must = {} /\ dir'.may = {}
    BY <1>2, <2>1 DEF Pops, DirRecord, Empty
  <2>3. visited' \subseteq Dirs \cup Regulars
    BY <1>2, <2>1, OpensWhatIsThere DEF Pops, TypeInv
  <2>4. /\ files' \in Seq(Path) /\ records' \in Seq([path : Path, state : State])
        /\ discovered' = Len(files') + Len(records')
    <3>1. CASE UNCHANGED found
      BY <3>1 DEF TypeInv
    <3>2. CASE Unlisted
      BY <2>1, <2>2, <3>2, UnlistedTyped
    <3> QED BY <1>2, <3>1, <3>2 DEF Pops
  <2>5. UNCHANGED <<tree, child, opened>> /\ stack' = Front(stack)
    BY <1>2 DEF Pops
  <2> QED BY <2>1, <2>2, <2>3, <2>4, <2>5 DEF TypeInv
<1>3. CASE Opens
  <2> DEFINE i == OpenSecure(dir.path)
  <2>1. dir.path \in Path
    BY DEF TypeInv, DirRecord
  <2>2. i \in (Dirs \ Outside) \cup Regulars \cup {None}
    BY <2>1, OpensWhatIsThere
  <2>3. UNCHANGED <<tree, stack, child, visited>>
    BY <1>3 DEF Opens
  <2>4. CASE i \in Dirs /\ opened' = Append(opened, i) /\ UNCHANGED found
              /\ dir' = [dir EXCEPT !.ino = i, !.must = {n \in Names : tree[i][n] # None},
                                                !.may = {n \in Names : tree[i][n] # None}]
    <3>1. i \in Dirs \ Outside
      BY <2>2, <2>4, DiscoveryAssumption DEF Inodes
    <3> HIDE DEF i
    <3>2. opened' \in Seq(Dirs \ Outside)
      BY <2>4, <3>1 DEF TypeInv
    <3>3. dir' \in DirRecord /\ dir'.must \subseteq dir'.may
      BY <2>4, <3>1 DEF TypeInv, DirRecord
    <3> QED BY <2>3, <2>4, <3>2, <3>3 DEF TypeInv
  <2>5. CASE UNCHANGED <<dir, opened>> /\ Unlisted
    <3>1. dir'.path \in Path
      BY <2>1, <2>5
    <3>2. /\ files' \in Seq(Path) /\ records' \in Seq([path : Path, state : State])
          /\ discovered' = Len(files') + Len(records')
      BY <2>5, <3>1, UnlistedTyped
    <3> QED BY <2>3, <2>5, <3>2 DEF TypeInv
  <2> QED BY <1>3, <2>4, <2>5 DEF Opens
<1>4. CASE ReadsEntry
  <2>1. PICK n \in dir.may : /\ dir' = [dir EXCEPT !.must = @ \ {n}, !.may = @ \ {n}]
                             /\ child' = Append(dir.path, n)
    BY <1>4 DEF ReadsEntry
  <2>2. dir' \in DirRecord /\ dir'.must \subseteq dir'.may
    BY <2>1 DEF TypeInv, DirRecord
  <2>3. child' \in Path
    <3>1. dir.path \in Path /\ n \in Names
      BY DEF TypeInv, DirRecord
    <3> QED BY <2>1, <3>1 DEF Path
  <2>4. UNCHANGED <<tree, stack, visited, files, records, discovered, opened>>
    BY <1>4 DEF ReadsEntry
  <2> QED BY <2>2, <2>3, <2>4 DEF TypeInv
<1>5. CASE ReadsAll
  <2>1. dir' \in DirRecord /\ dir'.must \subseteq dir'.may /\ child' \in Path
    BY <1>5 DEF ReadsAll, DirRecord, Empty, Path
  <2>2. UNCHANGED <<tree, stack, visited, files, records, discovered, opened>>
    BY <1>5 DEF ReadsAll
  <2> QED BY <2>1, <2>2 DEF TypeInv
<1>6. CASE Classifies
  <2>1. UNCHANGED <<tree, visited, dir, child, opened>>
    BY <1>6 DEF Classifies
  <2>2. \/ stack' = Append(stack, child) /\ UNCHANGED <<files, records, discovered>>
        \/ files' = Append(files, child) /\ discovered' = discovered + 1 /\ UNCHANGED <<stack, records>>
        \/ \E state \in State : Counted(child, state) /\ UNCHANGED <<stack, files>>
    BY <1>6 DEF Classifies, State
  <2>3. CASE stack' = Append(stack, child) /\ UNCHANGED <<files, records, discovered>>
    BY <2>1, <2>3 DEF TypeInv
  <2>4. CASE files' = Append(files, child) /\ discovered' = discovered + 1 /\ UNCHANGED <<stack, records>>
    BY <2>1, <2>4 DEF TypeInv
  <2>5. ASSUME NEW state \in State, Counted(child, state) /\ UNCHANGED <<stack, files>> PROVE TypeInv'
    <3>1. [path |-> child, state |-> state] \in [path : Path, state : State]
      BY DEF TypeInv
    <3>2. records' \in Seq([path : Path, state : State]) /\ discovered' = Len(files') + Len(records')
      BY <2>5, <3>1 DEF Counted, TypeInv
    <3> QED BY <2>1, <2>5, <3>2 DEF TypeInv
  <2> QED BY <2>2, <2>3, <2>4, <2>5
<1>7. CASE Creates \/ Removes \/ Moves
  <2>1. TreeOf(tree') /\ \A d \in Dirs \ Outside, n \in Names : tree'[d][n] \notin Outside
    BY <1>7, EditsTyped
  <2>2. PICK s : Edit(s)
    BY <1>7, EditsTyped
  <2>3. UNCHANGED <<stack, child, files, records, visited, discovered, opened>> /\ Notices(s)
    BY <2>2 DEF Edit
  <2>4. dir' \in DirRecord /\ dir'.must \subseteq dir'.may
    BY <2>3 DEF Notices, TypeInv, DirRecord
  <2> QED BY <2>1, <2>3, <2>4 DEF TypeInv
<1> QED BY <1>1, <1>2, <1>3, <1>4, <1>5, <1>6, <1>7 DEF Next, Walk, Other

LEMMA TypeInit == Init => TypeInv
<1> SUFFICES ASSUME Init PROVE TypeInv
  OBVIOUS
<1>1. tree \in Trees /\ TreeOf(tree) /\ \A d \in Dirs \ Outside, n \in Names : tree[d][n] \notin Outside
  BY DiscoveryAssumption DEF Init, TreeOf, Found
<1>2. dir \in DirRecord /\ dir.must = {} /\ dir.may = {}
  BY DEF Init, DirRecord, Empty, Path
<1> QED BY <1>1, <1>2 DEF Init, TypeInv, Path

\* The walk's state stays well typed, whatever the tree becomes, and every
\* discovered path is a file to encode or has its record.
THEOREM WalkTyped == Spec => []TypeOK
<1>1. TypeInv => TypeOK
  BY DEF TypeInv, TypeOK, TreeOf, Found, DirRecord
<1> QED BY <1>1, TypeInit, TypeStep, PTL DEF Spec

\* No directory outside the tree is opened for listing, whatever names are
\* rebound to symbolic links between a lookup and an opening (open_secure).
\* It says nothing of what is recorded: lstat follows links in the middle of a
\* path (engine.rs:316), and may find an entry outside.
THEOREM StaysInside == Spec => []NeverOutside
<1>1. TypeInv => NeverOutside
  BY DEF TypeInv, NeverOutside
<1> QED BY <1>1, TypeInit, TypeStep, PTL DEF Spec

-----------------------------------------------------------------------------
(* Nothing is left out of a complete inventory.                            *)

\* The definition of Untouched, by positions.
LEMMA UntouchedIs ==
    \A path : /\ Untouched(path) <=> Avoids(moved, tree, path)
              /\ Untouched(path)' <=> Avoids(moved', tree', path)
<1>1. \A path : Steps(path) = {<<Look(tree, Root, Upto(path, k - 1)), path[k]>> : k \in 1..Len(path)}
  BY SecureIsLook DEF Steps, Upto
<1>2. \A path : Steps(path)' = {<<Look(tree', Root, Upto(path, k - 1)), path[k]>> : k \in 1..Len(path)}
  BY SecureIsLook DEF Steps, Upto
<1> QED BY <1>1, <1>2 DEF Untouched, Avoids

\* What is above an untouched path is untouched.
LEMMA UntouchedAbove == ASSUME NEW path \in Path, Untouched(path), NEW j \in 0..Len(path)
                        PROVE  Untouched(Upto(path, j))
<1>1. Len(Upto(path, j)) = j /\ j <= Len(path)
  BY UptoFacts DEF Path
<1>2. ASSUME NEW k \in 1..j
      PROVE  Upto(Upto(path, j), k - 1) = Upto(path, k - 1) /\ Upto(path, j)[k] = path[k]
  BY UptoFacts DEF Path
<1> QED BY <1>1, <1>2, UntouchedIs DEF Avoids

\* What is untouched after a step was so before, and was bound to the same.
LEMMA UntouchedBefore ==
    ASSUME TypeInv, [Next]_vars, NEW path \in Path, Untouched(path)'
    PROVE  /\ Untouched(path)
           /\ \A k \in 0..Len(path) : Look(tree', Root, Upto(path, k)) = Look(tree, Root, Upto(path, k))
<1>1. /\ TreeOf(tree) /\ TreeOf(tree') /\ moved \subseteq moved'
      /\ SameBut(moved', tree, tree')
  <2>1. CASE UNCHANGED <<tree, moved>>
    BY <2>1 DEF TypeInv, SameBut
  <2>2. CASE Creates \/ Removes \/ Moves
    BY <2>2, EditsTyped DEF Edit, TypeInv, SameBut
  <2>3. UNCHANGED <<tree, moved>> \/ Creates \/ Removes \/ Moves
    BY DEF Next, Walk, Other, vars, world, Stops, Ends, Pops, Opens, ReadsEntry, ReadFails, ReadsAll,
           Classifies, Completes, Cancels
  <2> QED BY <2>1, <2>2, <2>3
<1>2. Avoids(moved', tree', path)
  BY UntouchedIs
<1>3. \A k \in 0..Len(path) : Look(tree', Root, Upto(path, k)) = Look(tree, Root, Upto(path, k))
  BY <1>1, <1>2, StableLookup DEF Path
<1>4. ASSUME NEW k \in 1..Len(path) PROVE <<Look(tree, Root, Upto(path, k - 1)), path[k]>> \notin moved
  <2>1. k - 1 \in 0..Len(path)
    BY DEF Path
  <2> QED BY <1>1, <1>2, <1>3, <2>1 DEF Avoids
<1> QED BY <1>3, <1>4, UntouchedIs DEF Avoids

LEMMA ListsStep == TypeInv /\ ListsItsPath /\ [Next]_vars => ListsItsPath'
<1> SUFFICES ASSUME TypeInv, ListsItsPath, [Next]_vars, (pc \in {"read", "stat"})', Untouched(dir.path)'
             PROVE  dir'.ino = Look(tree', Root, dir'.path)
  BY SecureIsLook DEF ListsItsPath
<1>1. dir'.path \in Path /\ dir.path \in Path
  BY TypeStep DEF TypeInv, DirRecord
<1>2. ASSUME dir'.path = dir.path
      PROVE  Untouched(dir.path) /\ Look(tree', Root, dir.path) = Look(tree, Root, dir.path)
  <2>1. Upto(dir.path, Len(dir.path)) = dir.path /\ Len(dir.path) \in 0..Len(dir.path)
    BY <1>1, UptoFacts DEF Path
  <2> QED BY <1>1, <1>2, <2>1, UntouchedBefore, UntouchedIs
<1>3. CASE UNCHANGED <<dir>> /\ pc \in {"read", "stat"}
  BY <1>2, <1>3, SecureIsLook DEF ListsItsPath
<1>4. CASE Opens
  <2>1. OpenSecure(dir.path) \in Dirs /\ dir'.ino = OpenSecure(dir.path) /\ dir'.path = dir.path
    BY <1>1, <1>4 DEF Opens, Unlisted, TypeInv, DirRecord
  <2>2. dir'.ino = Secure(Root, dir.path)
    BY <2>1, DiscoveryAssumption DEF OpenSecure, Inodes
  <2>3. tree' = tree
    BY <1>4 DEF Opens, world
  <2> QED BY <2>1, <2>2, <2>3, SecureIsLook
<1>5. CASE ReadsEntry
  <2>1. dir'.ino = dir.ino /\ dir'.path = dir.path /\ pc = "read"
    BY <1>5 DEF ReadsEntry, TypeInv, DirRecord
  <2> QED BY <1>2, <2>1, SecureIsLook DEF ListsItsPath
<1>6. CASE Creates \/ Removes \/ Moves
  <2>1. PICK s : Edit(s)
    BY <1>6, EditsTyped
  <2>2. dir'.ino = dir.ino /\ dir'.path = dir.path /\ pc \in {"read", "stat"}
    BY <2>1 DEF Edit, Notices, TypeInv, DirRecord
  <2> QED BY <1>2, <2>2, SecureIsLook DEF ListsItsPath
<1>7. CASE Classifies \/ Cancels \/ UNCHANGED vars
  BY <1>3, <1>7 DEF Classifies, Cancels, vars
<1>8. CASE Stops \/ Pops \/ ReadFails \/ ReadsAll \/ Completes
  BY <1>8 DEF Stops, Pops, ReadFails, ReadsAll, Completes, Ends, Unlisted
<1> QED BY <1>3, <1>4, <1>5, <1>6, <1>7, <1>8 DEF Next, Walk, Other

Keeps(u, s) == \A k \in DOMAIN s : k \in DOMAIN u /\ u[k] = s[k]
Holds(u, e) == \E k \in DOMAIN u : u[k] = e

LEMMA Appended == ASSUME NEW S, NEW s \in Seq(S), NEW e \in S
                  PROVE  Keeps(Append(s, e), s) /\ Holds(Append(s, e), e)
<1>1. /\ Append(s, e) \in Seq(S) /\ Len(Append(s, e)) = Len(s) + 1 /\ Append(s, e)[Len(s) + 1] = e
      /\ \A k \in 1..Len(s) : Append(s, e)[k] = s[k]
  OBVIOUS
<1>2. Len(s) + 1 \in DOMAIN Append(s, e) /\ \A k \in DOMAIN s : k \in DOMAIN Append(s, e) /\ k \in 1..Len(s)
  BY <1>1
<1> QED BY <1>1, <1>2 DEF Keeps, Holds

LEMMA Recorded == ASSUME TypeInv, NEW p \in Path, NEW s \in State, Counted(p, s)
                  PROVE  Keeps(records', records) /\ HasRecord(p, s)'
<1>1. [path |-> p, state |-> s] \in [path : Path, state : State]
  OBVIOUS
<1>2. Keeps(records', records) /\ Holds(records', [path |-> p, state |-> s])
  BY <1>1, Appended DEF TypeInv, Counted
<1> QED BY <1>2 DEF HasRecord, Holds

\* What has arrived stays.
LEMMA SettledStays ==
    ASSUME TypeInv, NEW path \in Path, Settled(path), Look(tree', Root, path) = Look(tree, Root, path),
           \/ UNCHANGED <<files, records>>
           \/ \E p \in Path : files' = Append(files, p) /\ UNCHANGED records
           \/ \E p \in Path, s \in State : Counted(p, s) /\ UNCHANGED files
    PROVE  Settled(path)'
<1>1. Keeps(files', files)
  <2>1. ASSUME NEW p \in Path, files' = Append(files, p) PROVE Keeps(files', files)
    BY <2>1, Appended DEF TypeInv
  <2> QED BY <2>1 DEF Keeps
<1>2. Keeps(records', records)
  <2>1. ASSUME UNCHANGED records PROVE Keeps(records', records)
    BY <2>1 DEF Keeps
  <2> QED BY <2>1, Recorded
<1>3. \A p, s : HasRecord(p, s) => HasRecord(p, s)'
  BY <1>2 DEF HasRecord, Keeps
<1> QED BY <1>1, <1>3, SecureIsLook DEF Settled, Keeps

\* Only a listing that fails clears complete, and only Opens and Pops may fail so.
LEMMA FoundGrows ==
    ASSUME TypeInv, [Next]_vars
    PROVE  \/ UNCHANGED <<files, records, complete>>
           \/ complete' = FALSE
           \/ Classifies /\ complete' = complete
<1>1. CASE Pops \/ Opens
  BY <1>1 DEF Pops, Opens, found, Unlisted
<1>2. CASE Classifies
  BY <1>2 DEF Classifies, found, Counted
<1>3. CASE Creates \/ Removes \/ Moves
  BY <1>3, EditsTyped DEF Edit, found
<1>4. CASE Stops \/ ReadsEntry \/ ReadFails \/ ReadsAll \/ Completes \/ Cancels \/ UNCHANGED vars
  BY <1>4 DEF vars, found, Stops, Ends, ReadsEntry, ReadFails, ReadsAll, Completes, Cancels
<1> QED BY <1>1, <1>2, <1>3, <1>4 DEF Next, Walk, Other

\* A prefix of path is pending: it ends with the j-th component.
PendingAt(path, j) ==
    \/ \E k \in DOMAIN stack : stack[k] = Upto(path, j)
    \/ /\ dir.path = Upto(path, j)
       /\ \/ pc = "open"
          \/ pc \in {"read", "stat"} /\ path[j + 1] \in dir.must
          \/ pc = "stat" /\ child = Upto(path, j + 1)

\* The next entry of an untouched path was there when its directory was listed.
LEMMA EntryIsListed ==
    ASSUME TypeInv, NEW path \in Path, Secure(Root, path) # None, NEW j \in 0..Len(path) - 1
    PROVE  /\ Upto(path, j) \in Path /\ path[j + 1] \in Names
           /\ Upto(path, j + 1) = Append(Upto(path, j), path[j + 1])
           /\ Secure(Root, Upto(path, j)) \in Dirs
           /\ OpenSecure(Upto(path, j)) = Secure(Root, Upto(path, j))
           /\ tree[Secure(Root, Upto(path, j))][path[j + 1]] = Secure(Root, Upto(path, j + 1))
           /\ Secure(Root, Upto(path, j + 1)) # None
<1>1. /\ j \in 0..Len(path) /\ j + 1 \in 0..Len(path) /\ j + 1 \in 1..Len(path) /\ (j + 1) - 1 = j /\ j < Len(path)
      /\ Root \in Found
  BY DiscoveryAssumption DEF Path, Found, Inodes
<1>2. Upto(path, j) \in Path /\ path[j + 1] \in Names /\ Upto(path, j + 1) = Append(Upto(path, j), path[j + 1])
  BY <1>1, UptoFacts DEF Path
<1>3. /\ Look(tree, Root, Upto(path, j)) \in Dirs /\ Look(tree, Root, Upto(path, j + 1)) # None
  BY <1>1, DirsAllAlong, SecureIsLook DEF Path, TypeInv
<1>4. Look(tree, Root, Upto(path, j + 1)) = tree[Look(tree, Root, Upto(path, j))][path[j + 1]]
  BY <1>1, <1>3, LookOn DEF Path, TypeInv, Entry
<1>5. Look(tree, Root, Upto(path, j)) \notin Links
  BY <1>3, DiscoveryAssumption
<1> QED BY <1>2, <1>3, <1>4, <1>5, SecureIsLook DEF OpenSecure

\* A pending prefix stays pending, or a longer one is, or the path has arrived.
LEMMA PendingStep ==
    ASSUME TypeInv, ListsItsPath, [Next]_vars, complete', (pc \notin {"failed", "cancelled"})',
           NEW path \in Path, Untouched(path)', Untouched(path), Included(path),
           Secure(Root, path) \in Regulars \cup Links,
           Look(tree', Root, path) = Look(tree, Root, path),
           NEW j \in 0..Len(path) - 1, PendingAt(path, j)
    PROVE  Pending(path)' \/ Settled(path)'
<1> DEFINE q == Upto(path, j)  n == path[j + 1]
<1>1. Secure(Root, path) # None
  BY DiscoveryAssumption DEF Inodes
<1>2. /\ q \in Path /\ n \in Names /\ Upto(path, j + 1) = Append(q, n)
      /\ Secure(Root, q) \in Dirs /\ OpenSecure(q) = Secure(Root, q)
      /\ tree[Secure(Root, q)][n] = Secure(Root, Upto(path, j + 1))
      /\ Secure(Root, Upto(path, j + 1)) # None
  BY <1>1, EntryIsListed
<1>3. PendingAt(path, j)' => Pending(path)'
  BY DEF PendingAt, Pending
<1>4. /\ j \in 0..Len(path) /\ j + 1 \in 1..Len(path) /\ (j + 1) - 1 = j
  BY DEF Path
<1> HIDE DEF q, n
<1>5. CASE Stops \/ ReadFails \/ Completes
  <2>1. Completes
    BY <1>5 DEF Stops, ReadFails, Ends
  <2> QED BY <2>1 DEF Completes, PendingAt
<1>6. CASE Cancels \/ UNCHANGED vars
  <2>1. UNCHANGED <<pc, stack, dir, child>>
    BY <1>6 DEF Cancels, vars
  <2> QED BY <1>3, <2>1 DEF PendingAt
<1>7. CASE Pops
  <2>1. PICK k \in DOMAIN stack : stack[k] = q
    BY <1>7 DEF Pops, PendingAt, q
  <2>2. stack' = Front(stack) /\ dir'.path = Last(stack) /\ pc' = "open"
    BY <1>7 DEF Pops, Empty, Unlisted
  <2>3. CASE k = Len(stack)
    BY <1>3, <2>1, <2>2, <2>3 DEF PendingAt, q, Last
  <2>4. CASE k # Len(stack)
    <3>1. k \in DOMAIN stack' /\ stack'[k] = q
      BY <2>1, <2>2, <2>4 DEF TypeInv, Front
    <3> QED BY <1>3, <3>1 DEF PendingAt, q
  <2> QED BY <2>3, <2>4
<1>8. CASE Opens
  <2>1. UNCHANGED stack /\ pc = "open" /\ pc' = "read"
    BY <1>8 DEF Opens, Unlisted
  <2>2. /\ dir'.path = dir.path
        /\ dir'.must = {m \in Names : tree[OpenSecure(dir.path)][m] # None}
    BY <1>8, <2>1 DEF Opens, Unlisted, TypeInv, DirRecord
  <2>3. CASE dir.path = q
    <3>1. n \in dir'.must
      BY <1>2, <2>2, <2>3
    <3> QED BY <1>3, <2>1, <2>2, <2>3, <3>1 DEF PendingAt, q, n
  <2>4. CASE dir.path # q
    BY <1>3, <2>1, <2>4 DEF PendingAt, q
  <2> QED BY <2>3, <2>4
<1>9. CASE ReadsEntry
  <2>1. PICK m \in dir.may : /\ dir' = [dir EXCEPT !.must = @ \ {m}, !.may = @ \ {m}]
                             /\ child' = Append(dir.path, m)
                             /\ pc' = IF \E x \in Excluded : IsPrefix(x, child') THEN "read" ELSE "stat"
    BY <1>9 DEF ReadsEntry
  <2>2. UNCHANGED stack /\ pc = "read" /\ pc' \in {"read", "stat"}
    BY <1>9, <2>1 DEF ReadsEntry
  <2>3. dir'.path = dir.path /\ dir'.must = dir.must \ {m}
    BY <2>1 DEF TypeInv, DirRecord
  <2>4. CASE dir.path = q /\ n \in dir.must /\ n = m
    <3>1. child' = Upto(path, j + 1)
      BY <1>2, <2>1, <2>4
    <3>2. ASSUME NEW x \in Excluded, IsPrefix(x, child') PROVE IsPrefix(x, path)
      <4>1. x \in Seq(Names) /\ path \in Seq(Names) /\ j + 1 \in 0..Len(path)
        BY <1>4, DiscoveryAssumption DEF Path
      <4>2. Len(x) <= j + 1 /\ SubSeq(x, 1, Len(x)) = Upto(Upto(path, j + 1), Len(x))
        BY <3>1, <3>2, <4>1, UptoFacts DEF IsPrefix, Upto
      <4>3. Upto(Upto(path, j + 1), Len(x)) = Upto(path, Len(x))
        BY <4>1, <4>2, UptoFacts
      <4> QED BY <4>1, <4>2, <4>3 DEF IsPrefix, Upto
    <3>3. pc' = "stat"
      BY <2>1, <3>2 DEF Included
    <3> QED BY <1>3, <2>3, <2>4, <3>1, <3>3 DEF PendingAt, q
  <2>5. CASE ~(dir.path = q /\ n \in dir.must /\ n = m)
    BY <1>3, <2>2, <2>3, <2>5 DEF PendingAt, q, n
  <2> QED BY <2>4, <2>5
<1>10. CASE ReadsAll
  <2>1. UNCHANGED stack /\ pc = "read" /\ dir.must = {}
    BY <1>10 DEF ReadsAll
  <2> QED BY <1>3, <2>1 DEF PendingAt
<1>11. CASE Classifies
  <2>1. UNCHANGED <<tree, dir, child>> /\ pc = "stat" /\ pc' = "read"
    BY <1>11 DEF Classifies, world
  <2>2. Keeps(stack', stack)
    <3>1. ASSUME stack' = Append(stack, child) PROVE Keeps(stack', stack)
      BY <3>1, Appended DEF TypeInv
    <3>2. ASSUME UNCHANGED stack PROVE Keeps(stack', stack)
      BY <3>2 DEF Keeps
    <3> QED BY <1>11, <3>1, <3>2 DEF Classifies
  <2>3. CASE dir.path = q /\ child = Upto(path, j + 1)
    <3>1. child \in Path /\ Secure(Root, child) # None /\ Follows(child) = Secure(Root, child)
      BY <1>2, <2>3, FollowsFindsSame DEF TypeInv, Path
    <3>2. CASE Counted(child, "unseen")
      <4>1. HasRecord(Upto(path, j + 1), "unseen")'
        BY <2>1, <2>3, <3>1, <3>2, Recorded DEF HasRecord, State
      <4> QED BY <1>4, <4>1 DEF Settled
    <3>3. CASE j + 1 = Len(path)
      <4>1. child = path
        BY <2>3, <3>3, UptoFacts DEF Path
      <4>2. Secure(Root, path)' = Secure(Root, path) /\ Regulars \cap Links = {} /\ Dirs \cap Regulars = {}
            /\ Dirs \cap Links = {}
        BY SecureIsLook, DiscoveryAssumption
      <4>3. CASE Secure(Root, path) \in Regulars /\ files' = Append(files, child)
        <5>1. Holds(files', path)
          BY <4>1, <4>3, Appended DEF TypeInv
        <5> QED BY <4>2, <4>3, <5>1 DEF Settled, Holds
      <4>4. CASE Secure(Root, path) \in Links /\ Counted(child, "skipped")
        <5>1. HasRecord(path, "skipped")'
          BY <4>1, <4>4, Recorded DEF HasRecord, State
        <5> QED BY <4>2, <4>4, <5>1 DEF Settled
      <4> QED BY <1>11, <3>1, <3>2, <4>1, <4>2, <4>3, <4>4 DEF Classifies
    <3>4. CASE j + 1 # Len(path)
      <4>1. j + 1 \in 0..Len(path) - 1
        BY <1>4, <3>4 DEF Path
      <4>2. Secure(Root, child) \in Dirs
        BY <1>1, <2>3, <4>1, EntryIsListed
      <4>3. CASE stack' = Append(stack, child)
        <5>1. Holds(stack', child)
          BY <3>1, <4>3, Appended DEF TypeInv
        <5>2. PendingAt(path, j + 1)'
          BY <2>3, <5>1 DEF PendingAt, Holds
        <5> QED BY <4>1, <5>2 DEF Pending, PendingAt
      <4>4. Secure(Root, child) \notin Regulars \cup Links
        BY <4>2, DiscoveryAssumption
      <4> QED BY <1>11, <3>1, <3>2, <4>3, <4>4 DEF Classifies
    <3> QED BY <3>3, <3>4
  <2>4. CASE ~(dir.path = q /\ child = Upto(path, j + 1))
    BY <1>3, <2>1, <2>2, <2>4 DEF PendingAt, q, Keeps
  <2> QED BY <2>3, <2>4
<1>12. CASE Creates \/ Removes \/ Moves
  <2>1. PICK s : Edit(s)
    BY <1>12, EditsTyped
  <2>2. /\ UNCHANGED <<pc, stack, child>> /\ dir'.path = dir.path /\ s \subseteq moved'
        /\ dir'.must = dir.must \ {m \in Names : <<dir.ino, m>> \in s}
    BY <2>1 DEF Edit, Notices, TypeInv, DirRecord
  <2>3. CASE dir.path = q /\ pc \in {"read", "stat"} /\ n \in dir.must
    <3>1. dir.ino = Secure(Root, q)
      BY <1>4, <2>3, UntouchedAbove DEF ListsItsPath, q
    <3>2. <<Look(tree', Root, q), n>> \notin moved'
      BY <1>4, UntouchedIs DEF Avoids, q, n
    <3>3. Look(tree', Root, q) = Secure(Root, q)
      BY <1>4, UntouchedBefore, SecureIsLook DEF q
    <3>4. n \in dir'.must
      BY <2>2, <2>3, <3>1, <3>2, <3>3
    <3> QED BY <1>3, <2>2, <2>3, <3>4 DEF PendingAt, q, n
  <2>4. CASE ~(dir.path = q /\ pc \in {"read", "stat"} /\ n \in dir.must)
    BY <1>3, <2>2, <2>4 DEF PendingAt, q, n
  <2> QED BY <2>3, <2>4
<1> QED BY <1>5, <1>6, <1>7, <1>8, <1>9, <1>10, <1>11, <1>12 DEF Next, Walk, Other

LEMMA NothingSkippedStep == TypeInv /\ ListsItsPath /\ NothingSkipped /\ [Next]_vars => NothingSkipped'
<1> SUFFICES ASSUME TypeInv, ListsItsPath, NothingSkipped, [Next]_vars,
                    complete', (pc \notin {"failed", "cancelled"})',
                    NEW path \in Path, Untouched(path)', Included(path),
                    (Secure(Root, path) \in Regulars \cup Links)'
             PROVE  Pending(path)' \/ Settled(path)'
  BY DEF NothingSkipped, Included
<1>1. Len(path) \in 0..Len(path) /\ Upto(path, Len(path)) = path
  BY UptoFacts DEF Path
<1>2. Untouched(path) /\ Look(tree', Root, path) = Look(tree, Root, path)
  BY <1>1, UntouchedBefore
<1>3. Secure(Root, path) \in Regulars \cup Links
  BY <1>2, SecureIsLook
<1>4. complete /\ pc \notin {"failed", "cancelled"}
  <2>1. complete
    BY FoundGrows DEF Classifies, Counted
  <2>2. ASSUME pc \in {"failed", "cancelled"} PROVE pc' = pc
    BY <2>2 DEF Next, Over, vars
  <2> QED BY <2>1, <2>2
<1>5. CASE Settled(path)
  <2>1. \/ UNCHANGED <<files, records>>
        \/ \E p \in Path : files' = Append(files, p) /\ UNCHANGED records
        \/ \E p \in Path, s \in State : Counted(p, s) /\ UNCHANGED files
    <3>1. CASE Classifies
      BY <3>1 DEF Classifies, found, TypeInv, State
    <3> QED BY <3>1, FoundGrows
  <2> QED BY <1>2, <1>5, <2>1, SettledStays
<1>6. CASE Pending(path)
  <2>1. PICK j \in 0..Len(path) - 1 : PendingAt(path, j)
    BY <1>6 DEF Pending, PendingAt
  <2> QED BY <1>2, <1>3, <2>1, PendingStep
<1> QED BY <1>2, <1>3, <1>4, <1>5, <1>6 DEF NothingSkipped

LEMMA NothingSkippedInit == Init => NothingSkipped
<1> SUFFICES ASSUME Init, NEW path \in Path, Secure(Root, path) \in Regulars \cup Links PROVE Pending(path)
  BY DEF NothingSkipped
<1>1. path # <<>>
  <2>1. TreeOf(tree) /\ Root \in Found
    BY TypeInit, DiscoveryAssumption DEF TypeInv, Found, Inodes
  <2>2. Secure(Root, <<>>) = Root
    BY <2>1, LookEmpty, SecureIsLook
  <2> QED BY <2>2, DiscoveryAssumption
<1>2. 0 \in 0..Len(path) - 1 /\ Upto(path, 0) = <<>>
  BY <1>1, UptoFacts DEF Path
<1>3. 1 \in DOMAIN stack /\ stack[1] = <<>>
  BY DEF Init
<1> QED BY <1>2, <1>3 DEF Pending

LEMMA EndsEmptyStep == EndsEmpty /\ [Next]_vars => EndsEmpty'
<1> SUFFICES ASSUME EndsEmpty, [Next]_vars, pc' = "done" PROVE stack' = <<>>
  BY DEF EndsEmpty
<1>1. CASE Completes \/ UNCHANGED vars
  BY <1>1 DEF Completes, Ends, EndsEmpty, vars
<1>2. CASE ~Over /\ Other
  BY <1>2 DEF Over, Other, Cancels, Creates, Removes, Moves, Edit
<1>3. CASE Stops \/ Pops \/ Opens \/ ReadsEntry \/ ReadFails \/ ReadsAll \/ Classifies
  BY <1>3 DEF Stops, Pops, Opens, ReadsEntry, ReadFails, ReadsAll, Classifies, Ends, Unlisted
<1> QED BY <1>1, <1>2, <1>3 DEF Next, Walk

\* A file or link that was to be found, when the walk is done.
LEMMA DoneIsSettled ==
    ASSUME NothingSkipped, EndsEmpty, pc = "done", complete, NEW path \in Path, Untouched(path), Included(path),
           Secure(Root, path) \in Regulars \cup Links
    PROVE  Settled(path)
<1>1. Pending(path) \/ Settled(path)
  BY DEF NothingSkipped
<1>2. DOMAIN stack = {}
  BY DEF EndsEmpty
<1> QED BY <1>1, <1>2 DEF Pending

\* An inventory that is called complete has every file nobody touched, whatever
\* was moved around it and whatever calls failed.
THEOREM NoFileIsMissed == Spec => []CompleteMeansCovered
<1>1. Init => ListsItsPath
  BY DEF Init, ListsItsPath
<1>2. ASSUME NothingSkipped, EndsEmpty, pc = "done", complete, NEW path \in Paths, Untouched(path), Included(path)
      PROVE  \/ /\ Secure(Root, path) \in Regulars => \E k \in DOMAIN files : files[k] = path
                /\ Secure(Root, path) \in Links => HasRecord(path, "skipped")
             \/ \E k \in 1..Len(path) : HasRecord(SubSeq(path, 1, k), "unseen")
  <2>1. path \in Path
    BY DEF Paths, Path
  <2> QED BY <1>2, <2>1, DoneIsSettled DEF Settled, Upto
<1>3. NothingSkipped /\ EndsEmpty => CompleteMeansCovered
  BY <1>2 DEF CompleteMeansCovered
<1>4. Init => EndsEmpty
  BY DEF Init, EndsEmpty
<1> QED BY <1>1, <1>3, <1>4, TypeInit, TypeStep, ListsStep, NothingSkippedInit, NothingSkippedStep,
           EndsEmptyStep, PTL DEF Spec

-----------------------------------------------------------------------------
(* No directory is listed twice.                                           *)

\* While nobody has edited the tree, a directory opened for its identity is
\* found again when it is opened for listing; what was listed was visited.
WalkInv ==
    /\ opened \in Seq(Dirs)
    /\ moved = {} =>
          /\ IsInjective(opened)
          /\ \A k \in DOMAIN opened : opened[k] \in visited
          /\ pc = "open" => /\ OpenSecure(dir.path) \in visited
                            /\ \A k \in DOMAIN opened : opened[k] # OpenSecure(dir.path)

\* An edit changes an entry at least.
LEMMA EditsMove == ASSUME Creates \/ Removes \/ Moves PROVE moved' # {} /\ UNCHANGED <<visited, opened>>
<1>1. ASSUME NEW s, NEW e \in s, Edit(s) PROVE moved' # {} /\ UNCHANGED <<visited, opened>>
  BY <1>1 DEF Edit, found
<1> QED BY <1>1 DEF Creates, Removes, Moves

\* The lookup depends on the tree and the path alone.
LEMMA SameLookup == ASSUME tree' = tree, dir'.path = dir.path
                    PROVE  OpenSecure(dir.path)' = OpenSecure(dir.path)
BY DEF OpenSecure, Secure, Bound

LEMMA WalkStep == WalkInv /\ [Next]_vars => WalkInv'
<1> SUFFICES ASSUME WalkInv, [Next]_vars PROVE WalkInv'
  OBVIOUS
<1> USE DEF WalkInv
<1>1. CASE Stops \/ ReadFails \/ Completes
  BY <1>1 DEF Stops, ReadFails, Completes, Ends, world
<1>2. CASE Pops
  <2> DEFINE i == OpenSecure(Last(stack))
  <2>1. /\ UNCHANGED <<tree, moved, opened>> /\ pc = "pop"
        /\ dir' = [Empty EXCEPT !.path = Last(stack)]
    BY <1>2 DEF Pops, world
  <2>2. \/ i \notin visited /\ visited' = visited \cup {i} /\ pc' = "open"
        \/ UNCHANGED visited /\ pc' \in {"pop", "failed"}
    BY <1>2 DEF Pops, Unlisted
  <2>3. dir'.path = Last(stack)
    BY <2>1 DEF Empty
  <2>4. OpenSecure(dir.path)' = i
    BY <2>1, <2>3 DEF OpenSecure, Secure, Bound
  <2> HIDE DEF i
  <2> QED BY <2>1, <2>2, <2>4
<1>3. CASE Opens
  <2> DEFINE i == OpenSecure(dir.path)
  <2>1. UNCHANGED <<tree, moved, visited>> /\ pc = "open" /\ pc' \in {"read", "pop", "failed"}
    BY <1>3 DEF Opens, world, Unlisted
  <2>2. \/ i \in Dirs /\ opened' = Append(opened, i)
        \/ UNCHANGED opened
    BY <1>3 DEF Opens
  <2> HIDE DEF i
  <2>3. CASE UNCHANGED opened
    BY <2>1, <2>3
  <2>4. CASE i \in Dirs /\ opened' = Append(opened, i)
    <3>1. /\ opened' \in Seq(Dirs) /\ DOMAIN opened' = DOMAIN opened \cup {Len(opened) + 1}
          /\ opened'[Len(opened) + 1] = i /\ \A k \in DOMAIN opened : opened'[k] = opened[k]
      BY <2>4
    <3>2. moved = {} => i \in visited /\ \A k \in DOMAIN opened : opened[k] # i
      BY <2>1 DEF i
    <3>3. moved = {} => IsInjective(opened')
      BY <3>1, <3>2 DEF IsInjective
    <3>4. ASSUME moved = {}, NEW k \in DOMAIN opened' PROVE opened'[k] \in visited'
      BY <2>1, <3>1, <3>2, <3>4
    <3> QED BY <2>1, <3>1, <3>3, <3>4
  <2> QED BY <2>2, <2>3, <2>4
<1>4. CASE ReadsEntry \/ ReadsAll \/ Classifies
  BY <1>4 DEF ReadsEntry, ReadsAll, Classifies, world
<1>5. CASE Cancels \/ UNCHANGED vars
  <2>1. UNCHANGED <<tree, moved, visited, opened, dir, pc>>
    BY <1>5 DEF Cancels, vars, world
  <2> QED BY <2>1, SameLookup
<1>6. CASE Creates \/ Removes \/ Moves
  BY <1>6, EditsMove
<1> QED BY <1>1, <1>2, <1>3, <1>4, <1>5, <1>6 DEF Next, Walk, Other

\* As long as nobody edits the tree no directory is listed twice, however often
\* it is mounted, or below itself, and whatever calls fail.
THEOREM NoneIsListedTwice == Spec => []ListedOnce
<1>1. Init => WalkInv
  BY DEF Init, WalkInv, IsInjective
<1>2. WalkInv => ListedOnce
  BY DEF WalkInv, ListedOnce
<1> QED BY <1>1, <1>2, WalkStep, PTL DEF Spec
==============================================================================
