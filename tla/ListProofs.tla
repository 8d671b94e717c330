----------------------------- MODULE ListProofs -----------------------------
(***************************************************************************)
(* Proofs about NotificationList and Listings as parts of Parts, for any    *)
(* number of rows and reloads and every size of a page. ListInv and         *)
(* ListingInv are the inductive invariants.                                 *)
(***************************************************************************)
EXTENDS Parts, Integers, Sequences, SequencesExt, FiniteSetTheorems, WellFoundedInduction, TLAPS

Falling(s) == \A i, j \in DOMAIN s : i < j => s[i] > s[j]

\* A set of numbers in falling order, each once.
Enumerates(s, W) ==
  /\ s \in [1..Cardinality(W) -> W]
  /\ Falling(s)

\* The least-number principle for sets.
LEMMA Smallest == ASSUME NEW W \in SUBSET Nat, W # {} PROVE \E m \in W : \A k \in W : m <= k
<1>1. PICK m \in W : \A k \in W : ~(<<k, m>> \in OpToRel(<, Nat))
  BY WFMin, NatLessThanWellFounded
<1>2. OpToRel(<, Nat) = {pair \in Nat \X Nat : pair[1] < pair[2]}
  BY Zenon DEF OpToRel
<1>3. ASSUME NEW k \in W PROVE m <= k
  <2>1. <<k, m>> \in Nat \X Nat
    OBVIOUS
  <2>2. <<k, m>> \notin {pair \in Nat \X Nat : pair[1] < pair[2]}
    BY <1>1, <1>2
  <2>3. QED
    BY <2>1, <2>2
<1>4. QED
  BY <1>3

\* A finite set of numbers has a falling enumeration: of the sizes without
\* one there would be a smallest.
LEMMA Sorting ==
  ASSUME NEW W \in SUBSET Nat, IsFiniteSet(W)
  PROVE  \E s : Enumerates(s, W)
<1> DEFINE Bad == {n \in Nat : \E Q \in SUBSET Nat :
                     IsFiniteSet(Q) /\ Cardinality(Q) = n /\ ~(\E s : Enumerates(s, Q))}
<1>1. SUFFICES ASSUME Bad # {} PROVE FALSE
  <2>1. Cardinality(W) \in Nat
    BY FS_CardinalityType
  <2>2. QED
    BY <2>1
<1>2. PICK n \in Bad : \A k \in Bad : n <= k
  BY <1>1, Smallest
<1>3. PICK Q \in SUBSET Nat : IsFiniteSet(Q) /\ Cardinality(Q) = n /\ ~(\E s : Enumerates(s, Q))
  OBVIOUS
<1>4. Q # {}
  <2>1. SUFFICES ASSUME Q = {} PROVE FALSE
    OBVIOUS
  <2>2. n = 0
    BY <1>3, <2>1, FS_EmptySet
  <2>3. Cardinality(Q) = 0
    BY <1>3, <2>2
  <2>4. [i \in 1..0 |-> 0] \in [1..0 -> {}] /\ Falling([i \in 1..0 |-> 0])
    BY DEF Falling
  <2>5. Enumerates([i \in 1..0 |-> 0], Q)
    BY <2>1, <2>3, <2>4 DEF Enumerates
  <2>6. QED
    BY <1>3, <2>5
<1>5. PICK m \in Q : \A k \in Q : m <= k
  BY <1>4, Smallest
<1>6. /\ IsFiniteSet(Q \ {m}) /\ Cardinality(Q \ {m}) = n - 1 /\ n - 1 \in Nat
  <2>1. IsFiniteSet(Q \ {m}) /\ Cardinality(Q \ {m}) = n - 1
    BY <1>3, FS_RemoveElement
  <2>2. Cardinality(Q \ {m}) \in Nat
    BY <2>1, FS_CardinalityType
  <2>3. QED
    BY <2>1, <2>2
<1>7. n - 1 \notin Bad
  <2>1. n \in Nat
    OBVIOUS
  <2>2. ~(n <= n - 1)
    BY <2>1
  <2>3. QED
    BY <1>2, <2>2
<1>8. PICK s : Enumerates(s, Q \ {m})
  BY <1>6, <1>7
<1> DEFINE t == [i \in 1..n |-> IF i = n THEN m ELSE s[i]]
<1>9. s \in [1..n - 1 -> Q \ {m}] /\ \A i, j \in 1..n - 1 : i < j => s[i] > s[j]
  BY <1>6, <1>8 DEF Enumerates, Falling
<1>10. t \in [1..n -> Q]
  BY <1>5, <1>6, <1>9
<1>11. ASSUME NEW i \in 1..n, NEW j \in 1..n, i < j PROVE t[i] > t[j]
  <2>1. t[i] = s[i] /\ s[i] \in Q \ {m} /\ i \in 1..n - 1
    BY <1>6, <1>9, <1>11
  <2>2. CASE j = n
    <3>1. t[j] = m /\ m \in Nat
      BY <2>2
    <3>2. s[i] \in Nat /\ m <= s[i] /\ s[i] # m
      BY <1>5, <2>1
    <3>3. QED
      BY <2>1, <3>1, <3>2
  <2>3. CASE j # n
    BY <1>6, <1>9, <1>11, <2>1, <2>3
  <2>4. QED
    BY <2>2, <2>3
<1>12. Enumerates(t, Q)
  BY <1>3, <1>10, <1>11 DEF Enumerates, Falling
<1>13. QED
  BY <1>3, <1>12

LEMMA Counted == \A Q : N!Cardinality(Q) = Cardinality(Q)
BY DEF N!Cardinality, Cardinality

\* A falling sequence names nothing twice.
LEMMA FallingOnce ==
  ASSUME NEW s \in Seq(Nat), Falling(s), NEW i \in DOMAIN s, NEW j \in DOMAIN s, s[i] = s[j]
  PROVE  i = j
<1>1. DOMAIN s \subseteq Nat /\ s[i] \in Nat
  OBVIOUS
<1>2. ~(i < j) /\ ~(j < i)
  BY <1>1 DEF Falling
<1>3. QED
  BY <1>1, <1>2

LEMMA NewestFirst ==
  ASSUME NEW W \in SUBSET Nat, IsFiniteSet(W)
  PROVE  /\ N!NewestFirst(W) \in Seq(W) /\ N!NewestFirst(W) \in Seq(Nat)
         /\ Len(N!NewestFirst(W)) = Cardinality(W)
         /\ Falling(N!NewestFirst(W))
         /\ ToSet(N!NewestFirst(W)) = W
<1>1. PICK n : n = Cardinality(W) /\ n = N!Cardinality(W) /\ n \in Nat
  BY FS_CardinalityType, Counted
<1>2. \E s \in [1..n -> W] : \A i, j \in DOMAIN s : i < j => s[i] > s[j]
  BY <1>1, Sorting DEF Enumerates, Falling
<1>3. N!NewestFirst(W) = CHOOSE s \in [1..n -> W] : \A i, j \in DOMAIN s : i < j => s[i] > s[j]
  BY <1>1, Zenon DEF N!NewestFirst
<1>4. PICK s : s = N!NewestFirst(W)
  OBVIOUS
<1>5. s \in [1..n -> W] /\ Falling(s)
  BY <1>2, <1>3, <1>4, Zenon DEF Falling
<1>6. s \in Seq(W) /\ s \in Seq(Nat) /\ Len(s) = n /\ DOMAIN s = 1..n
  <2>1. s \in [1..n -> W] /\ s \in [1..n -> Nat] /\ n \in Nat
    BY <1>1, <1>5
  <2>2. s \in Seq(W) /\ DOMAIN s = 1..n
    BY <2>1
  <2>3. s \in Seq(Nat)
    BY <2>1
  <2>4. QED
    BY <2>1, <2>2, <2>3
<1>7. s \in Injection(1..n, W)
  BY <1>5, <1>6, FallingOnce DEF Injection, IsInjective
<1>8. Cardinality(1..n) = n /\ IsFiniteSet(1..n)
  BY <1>1, FS_Interval
<1>9. s \in Surjection(1..n, W)
  BY <1>1, <1>7, <1>8, FS_Injection
<1>10. ToSet(s) = W
  BY <1>5, <1>6, <1>9 DEF Surjection, ToSet
<1>11. QED
  BY <1>1, <1>4, <1>5, <1>6, <1>10

-----------------------------------------------------------------------------
(* Chunks, and lists with rows taken out and added                           *)

\* Every row is in the chunk, or older than the last row of a chunk that says
\* that there are more.
Covers(items, more, Q) ==
  \A r \in Q : r \in ToSet(items) \/ (more /\ items # <<>> /\ r < items[Len(items)])

\* Rows are left, and no "Load more" to reach them by.
Dead(items, more) == more /\ items = <<>>

LEMMA ChunkFacts ==
  ASSUME NEW W \in SUBSET Nat, IsFiniteSet(W)
  PROVE  LET chunk == N!Chunk(W)
         IN  /\ chunk.items \in Seq(Nat) /\ Falling(chunk.items)
             /\ ToSet(chunk.items) \subseteq W
             /\ chunk.more \in BOOLEAN
             /\ Covers(chunk.items, chunk.more, W) /\ ~Dead(chunk.items, chunk.more)
<1>1. PICK s : s = N!NewestFirst(W)
  OBVIOUS
<1>2. PICK n : n = Cardinality(W) /\ n = N!Cardinality(W) /\ n \in Nat
  BY FS_CardinalityType, Counted
<1>3. PICK items : items = IF n > PageSize THEN SubSeq(s, 1, PageSize) ELSE s
  OBVIOUS
<1>4. N!Chunk(W).items = items /\ N!Chunk(W).more = (n > PageSize)
  BY <1>1, <1>2, <1>3 DEF N!Chunk
<1>5. s \in Seq(W) /\ s \in Seq(Nat) /\ Len(s) = n /\ Falling(s) /\ ToSet(s) = W
  BY <1>1, <1>2, NewestFirst
<1>6. items \in Seq(Nat) /\ Falling(items) /\ ToSet(items) \subseteq W /\ Covers(items, n > PageSize, W)
      /\ ~Dead(items, n > PageSize)
  <2>1. CASE ~(n > PageSize)
    BY <1>3, <1>5, <2>1 DEF Covers, Dead
  <2>2. CASE n > PageSize
    <3>1. PageSize \in Nat \ {0}
      BY ListAssumption
    <3>2. items = SubSeq(s, 1, PageSize)
      BY <1>3, <2>2
    <3>3. items \in Seq(Nat) /\ Len(items) = PageSize /\ \A i \in 1..PageSize : items[i] = s[i]
      BY <1>2, <1>5, <2>2, <3>1, <3>2
    <3>4. Falling(items)
      BY <1>2, <1>5, <2>2, <3>1, <3>3 DEF Falling
    <3>5. ToSet(items) \subseteq W
      BY <1>2, <1>5, <2>2, <3>1, <3>3 DEF ToSet
    <3>6. ASSUME NEW r \in W, r \notin ToSet(items) PROVE items # <<>> /\ r < items[Len(items)]
      <4>1. PICK k \in DOMAIN s : r = s[k]
        BY <1>5 DEF ToSet
      <4>2. k \in Nat /\ k > PageSize
        BY <1>5, <3>1, <3>3, <3>6, <4>1 DEF ToSet
      <4>3. s[PageSize] > s[k]
        BY <1>2, <1>5, <2>2, <3>1, <4>1, <4>2 DEF Falling
      <4>4. s[PageSize] \in Nat /\ r \in Nat
        BY <1>2, <1>5, <2>2, <3>1
      <4>5. r < items[Len(items)]
        BY <3>1, <3>3, <4>1, <4>3, <4>4
      <4>6. items # <<>>
        BY <3>1, <3>3
      <4>7. QED
        BY <4>5, <4>6
    <3>7. items # <<>>
      BY <3>1, <3>3
    <3>8. QED
      BY <2>2, <3>3, <3>4, <3>5, <3>6, <3>7 DEF Covers, Dead
  <2>3. QED
    BY <2>1, <2>2
<1>7. (n > PageSize) \in BOOLEAN
  OBVIOUS
<1>8. QED
  BY <1>4, <1>6, <1>7

\* Without its rows ids a falling list is falling and holds the others.
LEMMA WithoutFacts ==
  ASSUME NEW s \in Seq(Nat), Falling(s), NEW ids
  PROVE  /\ N!Without(s, ids) \in Seq(Nat) /\ Falling(N!Without(s, ids))
         /\ ToSet(N!Without(s, ids)) = ToSet(s) \ ids
<1>1. PICK places : places = {i \in DOMAIN s : s[i] \notin ids}
  OBVIOUS
<1>2. DOMAIN s = 1..Len(s) /\ Len(s) \in Nat
  OBVIOUS
<1>3. places \in SUBSET Nat /\ IsFiniteSet(places)
  <2>1. IsFiniteSet(1..Len(s))
    BY <1>2, FS_Interval
  <2>2. places \in SUBSET (1..Len(s))
    BY <1>1, <1>2
  <2>3. IsFiniteSet(places)
    BY <2>1, <2>2, FS_Subset
  <2>4. QED
    BY <2>2, <2>3
<1>4. PICK back : back = N!NewestFirst(places)
  OBVIOUS
<1>5. back \in Seq(places) /\ Falling(back) /\ ToSet(back) = places
  BY <1>3, <1>4, NewestFirst
<1>6. PICK n : n = Len(back)
  OBVIOUS
<1>7. n \in Nat /\ DOMAIN back = 1..n
  BY <1>5, <1>6
<1>8. PICK kept : kept = [i \in 1..n |-> back[(n - i) + 1]]
  OBVIOUS
<1>9. N!Reverse(back) = kept
  BY <1>6, <1>8 DEF N!Reverse
<1>10. PICK w : w = [i \in 1..n |-> s[kept[i]]]
  OBVIOUS
<1>11. N!Without(s, ids) = w
  BY <1>1, <1>4, <1>8, <1>9, <1>10 DEF N!Without
<1>12. ASSUME NEW i \in 1..n
       PROVE  kept[i] = back[(n - i) + 1] /\ (n - i) + 1 \in 1..n /\ kept[i] \in places
  BY <1>5, <1>7, <1>8
<1>13. ASSUME NEW i \in 1..n, NEW j \in 1..n, i < j PROVE kept[i] < kept[j]
  <2>1. (n - j) + 1 < (n - i) + 1
    BY <1>7, <1>13
  <2>2. back[(n - j) + 1] > back[(n - i) + 1]
    BY <1>5, <1>7, <1>12, <2>1 DEF Falling
  <2>3. kept[i] \in Nat /\ kept[j] \in Nat
    BY <1>3, <1>12
  <2>4. QED
    BY <1>12, <2>2, <2>3
<1>14. \A p \in places : \E i \in 1..n : kept[i] = p
  <2>1. ASSUME NEW p \in places PROVE \E i \in 1..n : kept[i] = p
    <3>1. PICK k \in 1..n : back[k] = p
      BY <1>5, <1>7 DEF ToSet
    <3>2. (n - k) + 1 \in 1..n /\ (n - ((n - k) + 1)) + 1 = k
      BY <1>7
    <3>3. QED
      BY <1>12, <3>1, <3>2
  <2>2. QED
    BY <2>1
<1>15. w \in Seq(Nat) /\ DOMAIN w = 1..n
  <2>1. \A i \in 1..n : s[kept[i]] \in Nat
    BY <1>1, <1>12
  <2>2. w \in [1..n -> Nat]
    BY <1>10, <2>1
  <2>3. QED
    BY <1>7, <2>2
<1>16. Falling(w)
  BY <1>1, <1>10, <1>12, <1>13, <1>15 DEF Falling
<1>17. ToSet(w) = ToSet(s) \ ids
  <2>1. ASSUME NEW r \in ToSet(w) PROVE r \in ToSet(s) \ ids
    <3>1. PICK i \in 1..n : r = w[i]
      BY <1>15 DEF ToSet
    <3>2. r = s[kept[i]] /\ kept[i] \in places
      BY <1>10, <1>12, <3>1
    <3>3. QED
      BY <1>1, <3>2 DEF ToSet
  <2>2. ASSUME NEW r \in ToSet(s), r \notin ids PROVE r \in ToSet(w)
    <3>1. PICK p \in DOMAIN s : r = s[p]
      BY DEF ToSet
    <3>2. PICK i \in 1..n : kept[i] = p
      BY <1>1, <1>14, <2>2, <3>1
    <3>3. w[i] = r
      BY <1>10, <3>1, <3>2
    <3>4. QED
      BY <1>15, <3>3 DEF ToSet
  <2>3. QED
    BY <2>1, <2>2
<1>18. QED
  BY <1>11, <1>15, <1>16, <1>17

\* A falling list with an older one at its end.
LEMMA AppendFacts ==
  ASSUME NEW s \in Seq(Nat), NEW t \in Seq(Nat), Falling(s), Falling(t),
         \A r \in ToSet(s), m \in ToSet(t) : r > m
  PROVE  /\ s \o t \in Seq(Nat) /\ Falling(s \o t)
         /\ ToSet(s \o t) = ToSet(s) \cup ToSet(t)
         /\ t = <<>> => s \o t = s
         /\ t # <<>> => s \o t # <<>> /\ (s \o t)[Len(s \o t)] = t[Len(t)]
<1>1. PICK both : both = s \o t
  OBVIOUS
<1>2. PICK a, b : a = Len(s) /\ b = Len(t)
  OBVIOUS
<1>3. a \in Nat /\ b \in Nat /\ DOMAIN s = 1..a /\ DOMAIN t = 1..b
  BY <1>2
<1>4. both \in Seq(Nat) /\ Len(both) = a + b /\ DOMAIN both = 1..(a + b)
  BY <1>1, <1>2
<1>5. ASSUME NEW i \in 1..(a + b)
      PROVE  both[i] = IF i <= a THEN s[i] ELSE t[i - a]
  BY <1>1, <1>2, <1>3, <1>5
<1>6. ASSUME NEW i \in 1..(a + b), NEW j \in 1..(a + b), i < j PROVE both[i] > both[j]
  <2>1. CASE j <= a
    <3>1. i \in DOMAIN s /\ j \in DOMAIN s
      BY <1>3, <1>6, <2>1
    <3>2. both[i] = s[i] /\ both[j] = s[j]
      BY <1>3, <1>5, <1>6, <2>1
    <3>3. QED
      BY <1>6, <3>1, <3>2 DEF Falling
  <2>2. CASE i > a
    <3>1. i - a \in DOMAIN t /\ j - a \in DOMAIN t /\ i - a < j - a
      BY <1>3, <1>6, <2>2
    <3>2. both[i] = t[i - a] /\ both[j] = t[j - a]
      BY <1>3, <1>5, <1>6, <2>2
    <3>3. QED
      BY <3>1, <3>2 DEF Falling
  <2>3. CASE i <= a /\ j > a
    <3>1. both[i] = s[i] /\ both[j] = t[j - a] /\ i \in DOMAIN s /\ j - a \in DOMAIN t
      BY <1>3, <1>5, <2>3
    <3>2. QED
      BY <3>1 DEF ToSet
  <2>4. QED
    BY <1>3, <2>1, <2>2, <2>3
<1>7. ToSet(both) = ToSet(s) \cup ToSet(t)
  <2>1. ASSUME NEW r \in ToSet(both) PROVE r \in ToSet(s) \cup ToSet(t)
    <3>1. PICK i \in 1..(a + b) : r = both[i]
      BY <1>4 DEF ToSet
    <3>2. i <= a => i \in DOMAIN s
      BY <1>3
    <3>3. ~(i <= a) => i - a \in DOMAIN t
      BY <1>3
    <3>4. QED
      BY <1>5, <3>1, <3>2, <3>3 DEF ToSet
  <2>2. ASSUME NEW r \in ToSet(s) PROVE r \in ToSet(both)
    <3>1. PICK i \in DOMAIN s : r = s[i]
      BY DEF ToSet
    <3>2. i \in 1..(a + b) /\ both[i] = s[i]
      BY <1>3, <1>5
    <3>3. QED
      BY <1>4, <3>1, <3>2 DEF ToSet
  <2>3. ASSUME NEW r \in ToSet(t) PROVE r \in ToSet(both)
    <3>1. PICK i \in DOMAIN t : r = t[i]
      BY DEF ToSet
    <3>2. i + a \in 1..(a + b) /\ ~(i + a <= a) /\ (i + a) - a = i
      BY <1>3
    <3>3. both[i + a] = t[i]
      BY <1>5, <3>2
    <3>4. QED
      BY <1>4, <3>1, <3>2, <3>3 DEF ToSet
  <2>4. QED
    BY <2>1, <2>2, <2>3
<1>8. t = <<>> => both = s
  BY <1>1
<1>9. t # <<>> => both # <<>> /\ both[Len(both)] = t[Len(t)]
  <2>1. SUFFICES ASSUME t # <<>> PROVE both # <<>> /\ both[Len(both)] = t[Len(t)]
    OBVIOUS
  <2>2. b # 0
    BY <1>2, <2>1
  <2>3. a + b \in 1..(a + b) /\ ~(a + b <= a) /\ (a + b) - a = b
    BY <1>3, <2>2
  <2>4. both[a + b] = t[b]
    BY <1>5, <2>3
  <2>5. both # <<>>
    BY <1>3, <1>4, <2>2
  <2>6. QED
    BY <1>2, <1>4, <2>4, <2>5
<1>10. QED
  <2>1. Falling(both)
    BY <1>4, <1>6 DEF Falling
  <2>2. QED
    BY <1>1, <1>4, <1>7, <1>8, <1>9, <2>1

-----------------------------------------------------------------------------
(* The inductive invariant                                                   *)

\* Rows that are there or were: what is drawn and not pending stays so, and
\* what is gone does not come back. Rows drawn later never meet what the page
\* or an answer holds, which is all of settled rows.
Settled == (1..(next - 1)) \ pending

RowsInv ==
  /\ next \in Nat \ {0}
  /\ pending \subseteq 1..(next - 1)
  /\ rows \subseteq Settled
  /\ unread \subseteq rows

ScreenInv ==
  /\ list \in Seq(Nat) /\ Falling(list)
  /\ ToSet(list) \cup known \cup read \subseteq Settled
  /\ kind \in N!Filters /\ epoch \in Nat
  /\ read \cap unread \subseteq mistaken

Wanted == [kind : N!Filters]
Page == [kind : N!Filters, items : Seq(Nat), more : BOOLEAN, read : SUBSET Nat,
         known : SUBSET Nat]

\* A page that is on its way holds all of what the server had.
PageInv(page) ==
  /\ Falling(page.items)
  /\ ToSet(page.items) \cup page.read \cup page.known \subseteq Settled
  /\ page.read \cap unread = {}
  /\ Covers(page.items, page.more, N!Matching(page.kind, page.known))
  /\ ~Dead(page.items, page.more)

ReloadInv == reload # None => reload \in Wanted \/ (reload \in Page /\ PageInv(reload))

Cursor == [after : Nat, kind : N!Filters, epoch : Nat]
Older == [epoch : Nat, items : Seq(Nat), more : BOOLEAN, read : SUBSET Nat]

\* What is asked for, and what comes, is older than all of the list it is for.
CursorInv(cursor) ==
  /\ cursor.epoch <= epoch
  /\ cursor.after \in Settled
  /\ cursor.epoch = epoch =>
       /\ cursor.kind = kind
       /\ \A r \in ToSet(list) : r >= cursor.after

OlderInv(older) ==
  /\ older.epoch <= epoch
  /\ Falling(older.items)
  /\ ToSet(older.items) \cup older.read \subseteq Settled
  /\ older.read \cap unread = {} /\ ~Dead(older.items, older.more)
  /\ older.epoch = epoch => \A r \in ToSet(list), m \in ToSet(older.items) : r > m

LoadInv ==
  load # None => \/ load \in Cursor /\ CursorInv(load)
                 \/ load \in Older /\ OlderInv(load)

\* What the list owes the user.
Due == N!Matching(kind, (known \cap rows) \ swept)

\* Nothing is hidden now, nor will it be when the answer is appended, unless
\* the list was emptied: then a reload is under way, or one has failed.
ReachInv ==
  /\ Dead(list, hasMore) => reload # None \/ stranded
  /\ ~Dead(list, hasMore) => Covers(list, hasMore, Due)
  /\ load # None =>
       /\ load \in Cursor /\ load.epoch = epoch =>
            \A r \in Due : r \in ToSet(list) \/ r < load.after
       /\ load \in Older /\ load.epoch = epoch =>
            Covers(load.items, load.more, Due \ ToSet(list))

Deed == [what : N!Acts, ids : SUBSET Nat, served : BOOLEAN]

\* What the server has done stays done until the page shows it.
DoneInv(deed) ==
  /\ deed.what \in {"read", "readselected", "readall"} => deed.ids \cap unread = {}
  /\ deed.what \in {"delete", "clear"} => deed.ids \cap rows = {}

ActInv ==
  act # None => /\ act \in Deed /\ act.ids \subseteq Settled
                /\ act.served => DoneInv(act)

ListInv == RowsInv /\ ScreenInv /\ ReloadInv /\ LoadInv /\ ReachInv /\ ActInv

-----------------------------------------------------------------------------
(* The server's steps *)

LEMMA Shapes ==
  /\ \A page \in Wanted : "items" \notin DOMAIN page
  /\ \A page \in Page : "items" \in DOMAIN page
  /\ \A cursor \in Cursor : "items" \notin DOMAIN cursor
  /\ \A older \in Older : "items" \in DOMAIN older
BY DEF Wanted, Page, Cursor, Older

LEMMA RenderedIs == N!Rendered = ToSet(list) /\ N!Last(list) = list[Len(list)]
BY DEF N!Rendered, N!ToSet, ToSet, N!Last

LEMMA SettledAreNumbers == RowsInv => Settled \in SUBSET (Nat \ {0})
BY DEF RowsInv, Settled

\* Sets of rows are finite sets of numbers.
LEMMA RowsAreNumbers ==
  ASSUME RowsInv, NEW Q \in SUBSET rows
  PROVE  Q \in SUBSET Nat /\ IsFiniteSet(Q)
<1>1. Q \in SUBSET (1..(next - 1)) /\ next - 1 \in Int
  BY DEF RowsInv, Settled
<1>2. IsFiniteSet(1..(next - 1))
  BY <1>1, FS_Interval
<1>3. IsFiniteSet(Q)
  BY <1>1, <1>2, FS_Subset
<1>4. QED
  BY <1>1, <1>3

\* What the server may do: settle and add rows, and take old ones away.
Moves ==
  /\ RowsInv'
  /\ Settled \subseteq Settled'
  /\ rows' \cap Settled \subseteq rows
  /\ unread' \cap Settled \subseteq unread

LEMMA DrawMoves == ASSUME RowsInv, N!Draw PROVE Moves
BY DEF RowsInv, N!Draw, Moves, Settled

LEMMA CommitMoves ==
  ASSUME RowsInv, NEW r, NEW b, N!Commit(r, b) PROVE Moves
<1>1. next' = next /\ pending' = pending \ {r} /\ r \in pending
  BY DEF N!Commit
<1>2. Settled' = Settled \cup {r} /\ r \notin Settled
  BY <1>1 DEF RowsInv, Settled
<1>3. CASE rows' = rows /\ unread' = unread
  BY <1>1, <1>2, <1>3 DEF RowsInv, Moves
<1>4. CASE rows' = rows \cup {r} /\ unread' = unread \cup {r}
  BY <1>1, <1>2, <1>4 DEF RowsInv, Moves
<1>5. QED
  BY <1>3, <1>4 DEF N!Commit

LEMMA OtherMoves == ASSUME RowsInv, NEW r, N!OtherBrowser(r) PROVE Moves
BY DEF RowsInv, N!OtherBrowser, N!MarkRead, N!DeleteRows, Moves, Settled

LEMMA ServeMoves == ASSUME RowsInv, N!ServeAct PROVE Moves
<1>1. pending' = pending
  BY DEF N!ServeAct
<1>2. CASE next' = next /\ rows' \subseteq rows /\ unread' \subseteq unread /\ unread' \subseteq rows'
  BY <1>1, <1>2 DEF RowsInv, Moves, Settled
<1>3. CASE next' = next + 1 /\ rows' = rows \cup {next} /\ unread' = unread \cup {next}
  BY <1>1, <1>3 DEF RowsInv, Moves, Settled
<1>4. \/ \E ids : (N!MarkRead(ids) \/ N!DeleteRows(ids)) /\ next' = next
      \/ next' = next + 1 /\ rows' = rows \cup {next} /\ unread' = unread \cup {next}
  BY DEF N!ServeAct
<1>5. ASSUME NEW ids, N!MarkRead(ids) \/ N!DeleteRows(ids), next' = next PROVE Moves
  <2>1. rows' \subseteq rows /\ unread' \subseteq unread /\ unread' \subseteq rows'
    BY <1>5 DEF N!MarkRead, N!DeleteRows, RowsInv
  <2>2. QED
    BY <1>2, <1>5, <2>1
<1>6. QED
  BY <1>3, <1>4, <1>5

LEMMA CoversLess ==
  ASSUME NEW items, NEW more, NEW Q, Covers(items, more, Q), NEW P \in SUBSET Q
  PROVE  Covers(items, more, P)
BY DEF Covers

\* The server's steps leave true what the page and the answers hold.
LEMMA MovesKeep ==
  ASSUME ListInv, Moves,
         UNCHANGED <<list, hasMore, kind, epoch, read, known, load, reload, mistaken, swept, stranded>>
  PROVE  ScreenInv' /\ ReloadInv' /\ LoadInv' /\ ReachInv'
<1>1. Settled \subseteq Settled' /\ rows' \cap Settled \subseteq rows
      /\ unread' \cap Settled \subseteq unread
  BY DEF Moves
<1>2. ScreenInv'
  BY <1>1, Zenon DEF ListInv, ScreenInv
<1>3. ReloadInv'
  <2>1. SUFFICES ASSUME reload # None PROVE reload \in Wanted \/ (reload \in Page /\ PageInv(reload)')
    BY DEF ReloadInv
  <2>2. reload \in Wanted \/ (reload \in Page /\ PageInv(reload))
    BY <2>1 DEF ListInv, ReloadInv
  <2>3. PageInv(reload) => PageInv(reload)'
    BY <1>1 DEF PageInv
  <2>4. QED
    BY <2>2, <2>3
<1>4. LoadInv'
  <2>1. SUFFICES ASSUME load # None
                 PROVE  \/ load \in Cursor /\ CursorInv(load)'
                        \/ load \in Older /\ OlderInv(load)'
    BY DEF LoadInv
  <2>2. \/ load \in Cursor /\ CursorInv(load)
        \/ load \in Older /\ OlderInv(load)
    BY <2>1 DEF ListInv, LoadInv
  <2>3. CursorInv(load) => CursorInv(load)'
    BY <1>1 DEF CursorInv
  <2>4. OlderInv(load) => OlderInv(load)'
    BY <1>1 DEF OlderInv
  <2>5. QED
    BY <2>2, <2>3, <2>4
<1>5. ReachInv'
  <2>1. Due' \in SUBSET Due
    <3>1. known \cap rows' \subseteq known \cap rows
      BY <1>1 DEF ListInv, ScreenInv
    <3>2. QED
      BY <3>1 DEF Due, N!Matching
  <2>2. Due' \ ToSet(list) \in SUBSET (Due \ ToSet(list))
    BY <2>1
  <2>3. ASSUME ~Dead(list, hasMore) PROVE Covers(list, hasMore, Due')
    BY <2>1, <2>3, CoversLess DEF ListInv, ReachInv
  <2>4. ASSUME load # None, load \in Older, load.epoch = epoch
        PROVE  Covers(load.items, load.more, Due' \ ToSet(list))
    <3>1. Covers(load.items, load.more, Due \ ToSet(list))
      BY <2>4 DEF ListInv, ReachInv
    <3>2. QED
      BY <2>2, <3>1, CoversLess
  <2>5. ASSUME load # None, load \in Cursor, load.epoch = epoch
        PROVE  \A r \in Due' : r \in ToSet(list) \/ r < load.after
    BY <2>1, <2>5 DEF ListInv, ReachInv
  <2>6. Dead(list, hasMore) => reload # None \/ stranded
    BY DEF ListInv, ReachInv
  <2>7. QED
    BY <2>3, <2>4, <2>5, <2>6 DEF ReachInv
<1>6. QED
  BY <1>2, <1>3, <1>4, <1>5

LEMMA MovesKeepDone ==
  ASSUME ListInv, Moves, UNCHANGED act
  PROVE  ActInv'
<1>1. Settled \subseteq Settled' /\ rows' \cap Settled \subseteq rows
      /\ unread' \cap Settled \subseteq unread
  BY DEF Moves
<1>2. ToSet(list) \subseteq Settled /\ known \subseteq Settled
  BY DEF ListInv, ScreenInv
<1>3. SUFFICES ASSUME act # None
               PROVE  act \in Deed /\ act.ids \subseteq Settled' /\ (act.served => DoneInv(act)')
  BY DEF ActInv
<1>4. act \in Deed /\ act.ids \subseteq Settled /\ (act.served => DoneInv(act))
  BY <1>3 DEF ListInv, ActInv
<1>5. DoneInv(act) => DoneInv(act)'
  BY <1>1, <1>2, <1>4 DEF DoneInv
<1>6. QED
  BY <1>1, <1>4, <1>5

LEMMA ServerKeeps ==
  ASSUME ListInv, Moves,
         UNCHANGED <<list, hasMore, kind, epoch, read, known, load, reload, mistaken, swept, stranded, act>>
  PROVE  ListInv'
BY MovesKeep, MovesKeepDone DEF ListInv, Moves

LEMMA ServeActKeeps == ASSUME ListInv, N!ServeAct PROVE ListInv'
<1>1. Moves
  BY ServeMoves DEF ListInv
<1>2. UNCHANGED <<list, hasMore, kind, epoch, read, known, load, reload, mistaken, swept, stranded>>
  BY DEF N!ServeAct, N!screen, N!ends
<1>3. act \in Deed /\ act.ids \subseteq Settled /\ act # None
  BY DEF N!ServeAct, ListInv, ActInv
<1>4. PICK ids : ids = IF act.what \in {"readall", "clear"} THEN rows ELSE act.ids
  OBVIOUS
<1>5. PICK deed : deed = [act EXCEPT !.served = TRUE, !.ids = ids]
  OBVIOUS
<1>6. act' = deed
  BY <1>4, <1>5 DEF N!ServeAct
<1>7. /\ deed \in Deed /\ deed.what = act.what /\ deed.ids = ids /\ ids \subseteq Settled
  <2>1. rows \subseteq Settled /\ Settled \subseteq Nat
    BY SettledAreNumbers DEF ListInv, RowsInv
  <2>2. ids \subseteq Settled /\ ids \in SUBSET Nat
    BY <1>3, <1>4, <2>1
  <2>3. QED
    BY <1>3, <1>5, <2>2 DEF Deed
<1>8. ActInv'
  <2>1. act.what \in {"read", "readselected", "readall"} => ids \cap unread' = {}
    <3>1. unread \subseteq rows
      BY DEF ListInv, RowsInv
    <3>2. QED
      BY <1>4, <3>1 DEF N!ServeAct, N!MarkRead
  <2>2. act.what \in {"delete", "clear"} => ids \cap rows' = {}
    BY <1>4 DEF N!ServeAct, N!DeleteRows
  <2>3. DoneInv(deed)'
    BY <1>7, <2>1, <2>2 DEF DoneInv
  <2>4. ids \subseteq Settled'
    BY <1>1, <1>7 DEF Moves
  <2>5. QED
    BY <1>6, <1>7, <2>3, <2>4 DEF ActInv
<1>9. QED
  BY <1>1, <1>2, <1>8, MovesKeep DEF ListInv, Moves

-----------------------------------------------------------------------------
(* The page's steps                                                          *)

LEMMA FilterFacts == N!Filters = {AllKinds} \cup {KindOf[r] : r \in 1..MaxRows}
BY DEF N!Filters, N!Ids

LEMMA AskedIsSomething == \A page \in Wanted \cup Page : page # None
BY FilterFacts, ListAssumption DEF Wanted, Page

LEMMA VisitKeeps == ASSUME ListInv, NEW k \in N!Filters, N!Visit(k) PROVE ListInv'
<1>1. UNCHANGED <<rows, unread, next, pending, list, hasMore, kind, epoch, read, known, load,
                  act, mistaken, swept, stranded>> /\ reload' = [kind |-> k]
  BY DEF N!Visit, N!server, N!screen, N!ends
<1>2. reload' \in Wanted
  BY <1>1 DEF Wanted
<1>3. ReloadInv'
  BY <1>2 DEF ReloadInv, Wanted
<1>4. RowsInv' /\ ScreenInv' /\ LoadInv' /\ ActInv'
  BY <1>1 DEF ListInv, RowsInv, ScreenInv, LoadInv, ActInv, Settled, CursorInv, OlderInv, DoneInv
<1>5. ReachInv'
  BY <1>1, <1>2, AskedIsSomething DEF ListInv, ReachInv, Due
<1>6. QED
  BY <1>3, <1>4, <1>5 DEF ListInv

LEMMA ServePageKeeps == ASSUME ListInv, N!ServePage PROVE ListInv'
<1>1. UNCHANGED <<rows, unread, next, pending, list, hasMore, kind, epoch, read, known, load,
                  act, mistaken, swept, stranded>>
  BY DEF N!ServePage, N!server, N!screen, N!ends
<1>2. reload \in Wanted
  BY Shapes DEF N!ServePage, ListInv, ReloadInv
<1>3. PICK k : k = reload.kind /\ k \in N!Filters
  BY <1>2 DEF Wanted
<1>4. PICK Q : Q = N!Matching(k, rows)
  OBVIOUS
<1>5. N!PageRows(reload.kind, 0) = Q
  BY <1>3, <1>4 DEF N!PageRows
<1>6. Q \in SUBSET rows
  BY <1>4 DEF N!Matching
<1>7. Q \in SUBSET Nat /\ IsFiniteSet(Q)
  BY <1>6, RowsAreNumbers DEF ListInv
<1>8. PICK chunk : chunk = N!Chunk(Q)
  OBVIOUS
<1>9. /\ chunk.items \in Seq(Nat) /\ Falling(chunk.items) /\ ToSet(chunk.items) \subseteq Q
      /\ chunk.more \in BOOLEAN /\ Covers(chunk.items, chunk.more, Q)
      /\ ~Dead(chunk.items, chunk.more)
  BY <1>7, <1>8, ChunkFacts
<1>10. PICK page : page = [kind |-> k, items |-> chunk.items, more |-> chunk.more,
                           read |-> ToSet(chunk.items) \ unread, known |-> rows]
  OBVIOUS
<1>11. reload' = page
  BY <1>3, <1>5, <1>8, <1>10 DEF N!ServePage, N!ReadOf, N!ToSet, ToSet
<1>12. ToSet(chunk.items) \subseteq Settled /\ rows \subseteq Settled /\ Settled \subseteq Nat
       /\ Settled' = Settled
  <2>1. rows \subseteq Settled /\ Settled' = Settled
    BY <1>1 DEF ListInv, RowsInv, Settled
  <2>2. Settled \subseteq Nat
    BY SettledAreNumbers DEF ListInv
  <2>3. QED
    BY <1>6, <1>9, <2>1, <2>2
<1>13. page \in Page
  BY <1>3, <1>9, <1>10, <1>12 DEF Page
<1>14. PageInv(page)
  BY <1>4, <1>9, <1>10, <1>12 DEF PageInv
<1>15. PageInv(page)'
  BY <1>1, <1>12, <1>14 DEF PageInv
<1>16. ReloadInv'
  BY <1>11, <1>13, <1>15 DEF ReloadInv
<1>17. RowsInv' /\ ScreenInv' /\ LoadInv' /\ ActInv'
  BY <1>1 DEF ListInv, RowsInv, ScreenInv, LoadInv, ActInv, Settled, CursorInv, OlderInv, DoneInv
<1>18. ReachInv'
  BY <1>1, <1>11, <1>13, AskedIsSomething DEF ListInv, ReachInv, Due
<1>19. QED
  BY <1>16, <1>17, <1>18 DEF ListInv

LEMMA ShowPageKeeps == ASSUME ListInv, N!ShowPage PROVE ListInv'
<1>1. UNCHANGED <<rows, unread, next, pending, load, act>>
  BY DEF N!ShowPage, N!server
<1>2. reload \in Page /\ PageInv(reload)
  BY Shapes DEF N!ShowPage, ListInv, ReloadInv
<1>3. /\ list' = reload.items /\ hasMore' = reload.more /\ read' = reload.read
      /\ kind' = reload.kind /\ known' = reload.known /\ epoch' = epoch + 1
      /\ reload' = None /\ mistaken' = {}
  BY DEF N!ShowPage
<1>4. Settled' = Settled
  BY <1>1 DEF Settled
<1>5. RowsInv' /\ ActInv'
  BY <1>1, <1>4 DEF ListInv, RowsInv, ActInv, DoneInv
<1>6. epoch \in Nat
  BY DEF ListInv, ScreenInv
<1>7. ScreenInv'
  <2>1. reload.items \in Seq(Nat) /\ reload.kind \in N!Filters
    BY <1>2 DEF Page
  <2>2. QED
    BY <1>1, <1>2, <1>3, <1>4, <1>6, <2>1 DEF PageInv, ScreenInv
<1>8. load # None => load.epoch <= epoch /\ (load \in Cursor \/ load \in Older)
  BY DEF ListInv, LoadInv, CursorInv, OlderInv
<1>9. load # None => load.epoch \in Nat /\ load.epoch # epoch' /\ load.epoch <= epoch'
  BY <1>3, <1>6, <1>8 DEF Cursor, Older
<1>10. LoadInv'
  BY <1>1, <1>4, <1>9 DEF ListInv, LoadInv, CursorInv, OlderInv
<1>11. Covers(list', hasMore', Due') /\ ~Dead(list', hasMore')
  <2>1. Covers(list', hasMore', N!Matching(kind', known'))
    BY <1>2, <1>3 DEF PageInv
  <2>2. Due' \in SUBSET N!Matching(kind', known')
    BY DEF Due, N!Matching
  <2>3. QED
    BY <1>2, <1>3, <2>1, <2>2, CoversLess DEF PageInv
<1>12. ReachInv'
  BY <1>1, <1>9, <1>11 DEF ReachInv
<1>13. QED
  BY <1>3, <1>5, <1>7, <1>10, <1>12 DEF ListInv, ReloadInv

\* A reload or a chunk that fails to come leaves the page as it is; so does an
\* action.
LEMMA FailuresKeep ==
  ASSUME ListInv, N!ReloadFails \/ N!LoadFails \/ N!ActFails PROVE ListInv'
<1>1. UNCHANGED <<rows, unread, next, pending, list, hasMore, kind, epoch, read, known, mistaken,
                  swept>>
  BY DEF N!ReloadFails, N!LoadFails, N!ActFails, N!server, N!screen, N!ends
<1>2. /\ reload' = reload \/ reload' = None
      /\ load' = load \/ load' = None
      /\ act' = act \/ act' = None
  BY DEF N!ReloadFails, N!LoadFails, N!ActFails
<1>3. Settled' = Settled /\ Due' = Due
  BY <1>1 DEF Settled, Due
<1>4. RowsInv' /\ ScreenInv'
  BY <1>1, <1>3 DEF ListInv, RowsInv, ScreenInv
<1>5. ReloadInv' /\ LoadInv' /\ ActInv'
  BY <1>1, <1>2, <1>3 DEF ListInv, ReloadInv, LoadInv, ActInv, PageInv, CursorInv, OlderInv, DoneInv
<1>6. Dead(list', hasMore') => reload' # None \/ stranded'
  BY <1>1 DEF N!ReloadFails, N!LoadFails, N!ActFails, N!ends, ListInv, ReachInv, Dead
<1>7. ReachInv'
  BY <1>1, <1>2, <1>3, <1>6 DEF ListInv, ReachInv
<1>8. QED
  BY <1>4, <1>5, <1>7 DEF ListInv

LEMMA LoadMoreKeeps == ASSUME ListInv, N!LoadMore PROVE ListInv'
<1>1. UNCHANGED <<rows, unread, next, pending, list, hasMore, kind, epoch, read, known, reload,
                  act, mistaken, swept, stranded>>
  BY DEF N!LoadMore, N!server, N!screen, N!ends
<1>2. PICK oldest : oldest = list[Len(list)]
  OBVIOUS
<1>3. PICK cursor : cursor = [after |-> oldest, kind |-> kind, epoch |-> epoch]
  OBVIOUS
<1>4. load' = cursor /\ list # <<>>
  BY <1>2, <1>3, RenderedIs DEF N!LoadMore
<1>5. list \in Seq(Nat) /\ Falling(list) /\ ToSet(list) \subseteq Settled /\ kind \in N!Filters
      /\ epoch \in Nat
  BY DEF ListInv, ScreenInv
<1>6. Len(list) \in DOMAIN list /\ Len(list) \in Nat
  BY <1>4, <1>5
<1>7. oldest \in Settled /\ oldest \in Nat
  BY <1>2, <1>5, <1>6 DEF ToSet
<1>8. \A r \in ToSet(list) : r >= oldest
  <2>1. ASSUME NEW i \in DOMAIN list PROVE list[i] >= oldest
    <3>1. i = Len(list) \/ i < Len(list)
      BY <1>5
    <3>2. i < Len(list) => list[i] > oldest
      BY <1>2, <1>5, <1>6 DEF Falling
    <3>3. list[i] \in Nat
      BY <1>5
    <3>4. QED
      BY <1>2, <1>7, <3>1, <3>2, <3>3
  <2>2. QED
    BY <2>1 DEF ToSet
<1>9. cursor \in Cursor
  BY <1>3, <1>5, <1>7 DEF Cursor
<1>10. cursor.after = oldest /\ cursor.kind = kind /\ cursor.epoch = epoch
  BY <1>3
<1>11. CursorInv(cursor)'
  BY <1>1, <1>5, <1>7, <1>8, <1>10 DEF CursorInv, Settled
<1>12. LoadInv'
  BY <1>4, <1>9, <1>11 DEF LoadInv
<1>13. RowsInv' /\ ScreenInv' /\ ReloadInv' /\ ActInv'
  BY <1>1 DEF ListInv, RowsInv, ScreenInv, ReloadInv, ActInv, Settled, PageInv, DoneInv
<1>14. ReachInv'
  <2>1. ~Dead(list, hasMore) /\ Due' = Due
    BY <1>1, <1>4 DEF Dead, Due
  <2>2. Covers(list, hasMore, Due)
    BY <2>1 DEF ListInv, ReachInv
  <2>3. \A r \in Due : r \in ToSet(list) \/ r < cursor.after
    BY <1>2, <1>10, <2>2 DEF Covers
  <2>4. QED
    BY <1>1, <1>4, <1>9, <2>1, <2>2, <2>3, Shapes DEF ReachInv
<1>15. QED
  BY <1>12, <1>13, <1>14 DEF ListInv

LEMMA ServeMoreKeeps == ASSUME ListInv, N!ServeMore PROVE ListInv'
<1>1. UNCHANGED <<rows, unread, next, pending, list, hasMore, kind, epoch, read, known, reload,
                  act, mistaken, swept, stranded>>
  BY DEF N!ServeMore, N!server, N!screen, N!ends
<1>2. load # None /\ load \in Cursor /\ CursorInv(load)
  BY Shapes DEF N!ServeMore, ListInv, LoadInv
<1>3. PICK Q : Q = N!PageRows(load.kind, load.after)
  OBVIOUS
<1>4. load.after # 0 /\ load.after \in Nat
  BY <1>2, SettledAreNumbers DEF CursorInv, ListInv
<1>5. Q = {r \in N!Matching(load.kind, rows) : r < load.after}
  BY <1>3, <1>4 DEF N!PageRows
<1>6. Q \in SUBSET rows
  BY <1>5 DEF N!Matching
<1>7. Q \in SUBSET Nat /\ IsFiniteSet(Q)
  BY <1>6, RowsAreNumbers DEF ListInv
<1>8. PICK chunk : chunk = N!Chunk(Q)
  OBVIOUS
<1>9. /\ chunk.items \in Seq(Nat) /\ Falling(chunk.items) /\ ToSet(chunk.items) \subseteq Q
      /\ chunk.more \in BOOLEAN /\ Covers(chunk.items, chunk.more, Q)
      /\ ~Dead(chunk.items, chunk.more)
  BY <1>7, <1>8, ChunkFacts
<1>10. PICK older : older = [epoch |-> load.epoch, items |-> chunk.items, more |-> chunk.more,
                             read |-> ToSet(chunk.items) \ unread]
  OBVIOUS
<1>11. load' = older
  BY <1>3, <1>8, <1>10 DEF N!ServeMore, N!ReadOf, N!ToSet, ToSet
<1>12. ToSet(chunk.items) \subseteq Settled /\ Settled' = Settled
  BY <1>1, <1>6, <1>9 DEF ListInv, RowsInv, Settled
<1>13. load.epoch \in Nat /\ load.epoch <= epoch
  BY <1>2 DEF Cursor, CursorInv
<1>14. older \in Older
  <2>1. ToSet(chunk.items) \ unread \in SUBSET Nat
    BY <1>7, <1>9
  <2>2. QED
    BY <1>9, <1>10, <1>13, <2>1 DEF Older
<1>15. /\ older.epoch = load.epoch /\ older.items = chunk.items /\ older.more = chunk.more
       /\ older.read = ToSet(chunk.items) \ unread
  BY <1>10
<1>16. ASSUME load.epoch = epoch, NEW r \in ToSet(list), NEW m \in ToSet(chunk.items)
       PROVE  r > m
  <2>1. r >= load.after
    BY <1>2, <1>16 DEF CursorInv
  <2>2. m < load.after /\ m \in Nat
    BY <1>5, <1>7, <1>9
  <2>3. r \in Nat
    BY SettledAreNumbers DEF ListInv, ScreenInv
  <2>4. QED
    BY <1>4, <2>1, <2>2, <2>3
<1>17. OlderInv(older)'
  BY <1>1, <1>9, <1>12, <1>13, <1>15, <1>16 DEF OlderInv
<1>18. LoadInv'
  BY <1>11, <1>14, <1>17 DEF LoadInv
<1>19. RowsInv' /\ ScreenInv' /\ ReloadInv' /\ ActInv'
  BY <1>1 DEF ListInv, RowsInv, ScreenInv, ReloadInv, ActInv, Settled, PageInv, DoneInv
<1>20. ReachInv'
  <2>1. ASSUME older.epoch = epoch
        PROVE  Covers(older.items, older.more, Due \ ToSet(list))
    <3>1. load.kind = kind
      BY <1>2, <1>15, <2>1 DEF CursorInv
    <3>2. \A r \in Due : r \in ToSet(list) \/ r < load.after
      BY <1>2, <1>15, <2>1 DEF ListInv, ReachInv
    <3>3. Due \ ToSet(list) \in SUBSET Q
      BY <1>5, <3>1, <3>2 DEF Due, N!Matching
    <3>4. QED
      BY <1>9, <1>15, <3>3, CoversLess
  <2>2. Due' = Due
    BY <1>1 DEF Due
  <2>3. QED
    BY <1>1, <1>11, <1>14, <2>1, <2>2, Shapes DEF ListInv, ReachInv
<1>21. QED
  BY <1>18, <1>19, <1>20 DEF ListInv

LEMMA AppendMoreKeeps == ASSUME ListInv, N!AppendMore PROVE ListInv'
<1>1. UNCHANGED <<rows, unread, next, pending, kind, epoch, known, reload, act, mistaken, swept,
                  stranded>> /\ load' = None
  BY DEF N!AppendMore, N!server, N!ends
<1>2. RowsInv' /\ ReloadInv' /\ LoadInv' /\ ActInv' /\ Settled' = Settled /\ Due' = Due
  BY <1>1 DEF ListInv, RowsInv, ReloadInv, LoadInv, ActInv, Settled, PageInv, DoneInv, Due
<1>3. load # None /\ load \in Older /\ OlderInv(load)
  BY Shapes DEF N!AppendMore, ListInv, LoadInv
<1>4. CASE load.epoch # epoch
  <2>1. UNCHANGED <<list, hasMore, read>>
    BY <1>4 DEF N!AppendMore, N!Fresh
  <2>2. ScreenInv'
    BY <1>1, <1>2, <2>1 DEF ListInv, ScreenInv
  <2>3. ReachInv'
    BY <1>1, <1>2, <2>1 DEF ListInv, ReachInv
  <2>4. QED
    BY <1>2, <2>2, <2>3 DEF ListInv
<1>5. CASE load.epoch = epoch
  <2>1. list' = list \o load.items /\ hasMore' = load.more /\ read' = read \cup load.read
    BY <1>5 DEF N!AppendMore, N!Fresh
  <2>2. load.items \in Seq(Nat) /\ Falling(load.items) /\ list \in Seq(Nat) /\ Falling(list)
    BY <1>3 DEF Older, OlderInv, ListInv, ScreenInv
  <2>3. \A r \in ToSet(list), m \in ToSet(load.items) : r > m
    BY <1>3, <1>5 DEF OlderInv
  <2>4. /\ list' \in Seq(Nat) /\ Falling(list')
        /\ ToSet(list') = ToSet(list) \cup ToSet(load.items)
        /\ load.items # <<>> =>
             list' # <<>> /\ list'[Len(list')] = load.items[Len(load.items)]
    BY <2>1, <2>2, <2>3, AppendFacts
  <2>5. ToSet(list') \subseteq Settled /\ read' \subseteq Settled
    BY <1>3, <2>1, <2>4 DEF OlderInv, ListInv, ScreenInv
  <2>6. read' \cap unread \subseteq mistaken
    BY <1>3, <2>1 DEF OlderInv, ListInv, ScreenInv
  <2>7. ScreenInv'
    BY <1>1, <1>2, <2>4, <2>5, <2>6 DEF ListInv, ScreenInv
  <2>8. ReachInv'
    <3>1. Covers(load.items, load.more, Due \ ToSet(list)) /\ ~Dead(load.items, load.more)
      BY <1>3, <1>5 DEF ListInv, ReachInv, OlderInv
    <3>2. Covers(list', hasMore', Due)
      BY <2>1, <2>4, <3>1 DEF Covers
    <3>3. ~Dead(list', hasMore')
      BY <2>1, <2>2, <3>1 DEF Dead
    <3>4. QED
      BY <1>1, <1>2, <3>2, <3>3 DEF ReachInv
  <2>9. QED
    BY <1>2, <2>7, <2>8 DEF ListInv
<1>6. QED
  BY <1>4, <1>5

LEMMA AskKeeps ==
  ASSUME ListInv, NEW what \in N!Acts, NEW ids \in SUBSET N!Rendered, N!Ask(what, ids)
  PROVE  ListInv'
<1>1. UNCHANGED <<rows, unread, next, pending, list, hasMore, kind, epoch, read, known, load,
                  reload, mistaken, swept, stranded>>
  BY DEF N!Ask, N!server, N!screen, N!ends
<1>2. act' = [what |-> what, ids |-> ids, served |-> FALSE]
  BY DEF N!Ask
<1>3. ids \subseteq Settled /\ Settled' = Settled
  BY <1>1, RenderedIs DEF ListInv, ScreenInv, Settled
<1>4. ids \in SUBSET Nat
  BY <1>3, SettledAreNumbers DEF ListInv
<1>5. ActInv'
  BY <1>2, <1>3, <1>4 DEF ActInv, Deed
<1>6. RowsInv' /\ ScreenInv' /\ ReloadInv' /\ LoadInv' /\ ReachInv'
  BY <1>1 DEF ListInv, RowsInv, ScreenInv, ReloadInv, LoadInv, ReachInv, Settled, PageInv,
              CursorInv, OlderInv, Due
<1>7. QED
  BY <1>5, <1>6 DEF ListInv

\* The page's last step of an action: one case for each kind of action.
LEMMA ShowActKeeps == ASSUME ListInv, N!ShowAct PROVE ListInv'
<1>1. UNCHANGED <<rows, unread, next, pending, kind, epoch, known, load>> /\ act' = None
  BY DEF N!ShowAct, N!server
<1>2. RowsInv' /\ ActInv' /\ Settled' = Settled
  BY <1>1 DEF ListInv, RowsInv, ActInv, Settled
<1>3. act # None /\ act \in Deed /\ act.ids \subseteq Settled /\ DoneInv(act)
  BY DEF N!ShowAct, ListInv, ActInv
<1>4. /\ stranded' = stranded
      /\ mistaken' = mistaken \cup IF act.what = "readall" THEN (ToSet(list) \ act.ids) \cap unread ELSE {}
      /\ swept' = swept \cup IF act.what = "clear" THEN (known \ act.ids) \cap rows ELSE {}
  BY RenderedIs DEF N!ShowAct
<1>5. list \in Seq(Nat) /\ Falling(list) /\ ToSet(list) \subseteq Settled
      /\ read \cap unread \subseteq mistaken
  BY DEF ListInv, ScreenInv
<1>6. reload' = reload => ReloadInv'
  BY <1>1, <1>2 DEF ListInv, ReloadInv, PageInv
<1>7. reload' = [kind |-> kind] => ReloadInv' /\ reload' # None
  <2>1. kind \in N!Filters
    BY DEF ListInv, ScreenInv
  <2>2. [kind |-> kind] \in Wanted
    BY <2>1 DEF Wanted
  <2>3. QED
    BY <2>2, AskedIsSomething DEF ReloadInv
\* If the list loses rows, a row that comes late is older than what is left.
<1>8. ToSet(list') \subseteq ToSet(list) => LoadInv'
  BY <1>1, <1>2 DEF ListInv, LoadInv, CursorInv, OlderInv
<1>9. CASE act.what \in {"read", "readselected", "readall"}
  <2>1. UNCHANGED <<list, hasMore, reload>>
    BY <1>9 DEF N!ShowAct
  <2>2. ReloadInv' /\ LoadInv'
    BY <1>6, <1>8, <2>1
  <2>3. ReachInv'
    <3>1. Due' = Due
      BY <1>1, <1>4, <1>9 DEF Due
    <3>2. QED
      BY <1>1, <1>4, <2>1, <3>1 DEF ListInv, ReachInv
  <2>4. read' = read \cup IF act.what = "readall" THEN ToSet(list) ELSE act.ids
    BY <1>9, RenderedIs DEF N!ShowAct
  <2>5. ScreenInv'
    <3>1. read' \subseteq Settled
      BY <1>3, <1>5, <2>4 DEF ListInv, ScreenInv
    <3>2. read' \cap unread' \subseteq mistaken'
      <4>1. act.ids \cap unread = {}
        BY <1>3, <1>9 DEF DoneInv
      <4>2. QED
        BY <1>1, <1>4, <1>5, <2>4, <4>1
    <3>3. QED
      BY <1>1, <1>2, <2>1, <3>1, <3>2 DEF ListInv, ScreenInv
  <2>6. QED
    BY <1>2, <2>2, <2>3, <2>5 DEF ListInv
<1>10. CASE act.what = "delete"
  <2>1. /\ list' = N!Without(list, act.ids) /\ hasMore' = hasMore /\ read' = read \ act.ids
        /\ N!Refetch(list' = <<>> /\ hasMore)
    BY <1>10 DEF N!ShowAct
  <2>2. /\ list' \in Seq(Nat) /\ Falling(list') /\ ToSet(list') = ToSet(list) \ act.ids
    BY <1>5, <2>1, WithoutFacts
  <2>3. LoadInv'
    BY <1>8, <2>2
  <2>4. reload' = reload \/ reload' = [kind |-> kind]
    BY <2>1 DEF N!Refetch
  <2>5. ReloadInv'
    BY <1>6, <1>7, <2>4
  <2>6. ScreenInv'
    BY <1>1, <1>2, <1>4, <1>10, <2>1, <2>2 DEF ListInv, ScreenInv
  <2>7. act.ids \cap rows = {}
    BY <1>3, <1>10 DEF DoneInv
  <2>8. Due' = Due /\ Due \cap act.ids = {}
    BY <1>1, <1>4, <1>10, <2>7 DEF Due, N!Matching
  <2>9. ReachInv'
    <3>1. Dead(list', hasMore') => reload' # None
      BY <1>7, <2>1 DEF Dead, N!Refetch
    <3>2. ASSUME ~Dead(list', hasMore') PROVE Covers(list', hasMore, Due)
      <4>1. SUFFICES ASSUME NEW r \in Due, r \notin ToSet(list')
                     PROVE  hasMore /\ list' # <<>> /\ r < list'[Len(list')]
        BY DEF Covers
      <4>2. r \notin ToSet(list)
        BY <2>2, <2>8, <4>1
      <4>3. hasMore /\ list # <<>> /\ r < list[Len(list)]
        <5>1. CASE Dead(list, hasMore)
          BY <2>1, <2>2, <3>2, <5>1 DEF Dead, ToSet
        <5>2. CASE ~Dead(list, hasMore)
          BY <4>1, <4>2, <5>2 DEF ListInv, ReachInv, Covers
        <5>3. QED
          BY <5>1, <5>2
      <4>4. list' # <<>> /\ Len(list') \in DOMAIN list'
        BY <2>1, <2>2, <3>2, <4>3 DEF Dead
      <4>5. PICK i \in DOMAIN list : list'[Len(list')] = list[i]
        BY <2>2, <4>4 DEF ToSet
      <4>6. list[i] >= list[Len(list)]
        <5>1. i = Len(list) \/ i < Len(list)
          BY <1>5
        <5>2. Len(list) \in DOMAIN list /\ list[i] \in Nat /\ list[Len(list)] \in Nat
          BY <1>5, <4>3
        <5>3. i < Len(list) => list[i] > list[Len(list)]
          BY <1>5, <5>2 DEF Falling
        <5>4. QED
          BY <5>1, <5>2, <5>3
      <4>7. r \in Nat /\ list[i] \in Nat /\ list[Len(list)] \in Nat
        <5>1. Due \subseteq rows
          BY DEF Due, N!Matching
        <5>2. Due \subseteq Nat
          BY <5>1, RowsAreNumbers DEF ListInv
        <5>3. Len(list) \in DOMAIN list
          BY <1>5, <4>3
        <5>4. QED
          BY <1>5, <5>2, <5>3
      <4>8. r < list'[Len(list')]
        BY <4>3, <4>5, <4>6, <4>7
      <4>9. QED
        BY <4>3, <4>4, <4>8
    <3>3. ASSUME load # None, load \in Cursor, load.epoch = epoch, NEW r \in Due
          PROVE  r \in ToSet(list') \/ r < load.after
      <4>1. r \in ToSet(list) \/ r < load.after
        BY <3>3 DEF ListInv, ReachInv
      <4>2. QED
        BY <2>2, <2>8, <4>1
    <3>4. ASSUME load # None, load \in Older, load.epoch = epoch
          PROVE  Covers(load.items, load.more, Due \ ToSet(list'))
      <4>1. Covers(load.items, load.more, Due \ ToSet(list))
        BY <3>4 DEF ListInv, ReachInv
      <4>2. Due \ ToSet(list') \in SUBSET (Due \ ToSet(list))
        BY <2>2, <2>8
      <4>3. QED
        BY <4>1, <4>2, CoversLess
    <3>5. QED
      BY <1>1, <2>1, <2>8, <3>1, <3>2, <3>3, <3>4 DEF ReachInv
  <2>10. QED
    BY <1>2, <2>3, <2>5, <2>6, <2>9 DEF ListInv
<1>11. CASE act.what = "clear"
  <2>1. list' = <<>> /\ hasMore' = FALSE /\ read' = {} /\ reload' = reload
    BY <1>11 DEF N!ShowAct
  <2>2. ToSet(list') = {} /\ list' \in Seq(Nat) /\ Falling(list')
    BY <2>1 DEF ToSet, Falling
  <2>3. ReloadInv' /\ LoadInv'
    BY <1>6, <1>8, <2>1, <2>2
  <2>4. ScreenInv'
    BY <1>1, <1>2, <2>1, <2>2 DEF ListInv, ScreenInv
  <2>5. Due' = {}
    <3>1. act.ids \cap rows = {}
      BY <1>3, <1>11 DEF DoneInv
    <3>2. (known' \cap rows') \ swept' \subseteq act.ids /\ rows' = rows
      BY <1>1, <1>4, <1>11
    <3>3. QED
      BY <3>1, <3>2 DEF Due, N!Matching
  <2>6. ReachInv'
    BY <2>1, <2>5 DEF ReachInv, Covers, Dead
  <2>7. QED
    BY <1>2, <2>3, <2>4, <2>6 DEF ListInv
<1>12. CASE act.what = "test"
  <2>1. UNCHANGED <<list, hasMore, read>> /\ N!Refetch(TRUE)
    BY <1>12 DEF N!ShowAct
  <2>2. reload' = [kind |-> kind] \/ (reload' = reload /\ reload # None)
    BY <2>1 DEF N!Refetch
  <2>3. ReloadInv' /\ LoadInv' /\ reload' # None
    BY <1>6, <1>7, <1>8, <2>1, <2>2
  <2>4. ScreenInv'
    BY <1>1, <1>2, <1>4, <1>12, <2>1 DEF ListInv, ScreenInv
  <2>5. ReachInv'
    <3>1. Due' = Due
      BY <1>1, <1>4, <1>12 DEF Due
    <3>2. QED
      BY <1>1, <2>1, <2>3, <3>1 DEF ListInv, ReachInv
  <2>6. QED
    BY <1>2, <2>3, <2>4, <2>5 DEF ListInv
<1>13. QED
  BY <1>9, <1>10, <1>11, <1>12 DEF N!ShowAct

-----------------------------------------------------------------------------
(* The theorems                                                              *)

\* A step of Parts, seen from the list.
LEMMA ListMoves == ASSUME [Next]_partsVars PROVE [N!Next]_(N!listVars)
BY DEF Next, Step, partsVars, listState, N!listVars

LEMMA ListInit == Init => ListInv
<1>1. SUFFICES ASSUME N!Init PROVE ListInv
  BY DEF Init
<1>2. PICK n \in 0..MaxRows : rows = 1..n /\ next = n + 1
  BY <1>1 DEF N!Init
<1>3. /\ unread = rows /\ pending = {} /\ kind = AllKinds /\ epoch = 0 /\ read = {}
      /\ load = None /\ reload = None /\ act = None /\ known = rows /\ mistaken = {}
      /\ list = N!Chunk(rows).items /\ hasMore = N!Chunk(rows).more
  BY <1>1 DEF N!Init
<1>4. n \in Nat
  BY <1>2, ListAssumption
<1>5. RowsInv /\ Settled = rows
  BY <1>2, <1>3, <1>4 DEF RowsInv, Settled
<1>6. rows \in SUBSET Nat /\ IsFiniteSet(rows)
  BY <1>5, RowsAreNumbers
<1>7. list \in Seq(Nat) /\ Falling(list) /\ ToSet(list) \subseteq rows /\ Covers(list, hasMore, rows)
      /\ ~Dead(list, hasMore)
  BY <1>3, <1>6, ChunkFacts
<1>8. ScreenInv
  BY <1>3, <1>5, <1>7, FilterFacts DEF ScreenInv
<1>9. ReachInv
  <2>1. Due \in SUBSET rows
    BY DEF Due, N!Matching
  <2>2. QED
    BY <1>3, <1>7, <2>1, CoversLess DEF ReachInv
<1>10. QED
  BY <1>3, <1>5, <1>8, <1>9 DEF ListInv, ReloadInv, LoadInv, ActInv

LEMMA ListNext == ASSUME ListInv, [N!Next]_(N!listVars) PROVE ListInv'
<1>1. CASE UNCHANGED N!listVars
  BY <1>1 DEF N!listVars, ListInv, RowsInv, ScreenInv, ReloadInv, LoadInv, ReachInv, ActInv,
              Settled, PageInv, CursorInv, OlderInv, DoneInv, Due
<1>2. CASE N!Draw
  <2>1. UNCHANGED <<list, hasMore, kind, epoch, read, known, load, reload, mistaken, swept, stranded, act>>
    BY <1>2 DEF N!Draw, N!screen, N!ends
  <2>2. QED
    BY <1>2, <2>1, DrawMoves, ServerKeeps DEF ListInv
<1>3. ASSUME NEW r \in N!Ids, NEW b \in BOOLEAN, N!Commit(r, b) PROVE ListInv'
  <2>1. UNCHANGED <<list, hasMore, kind, epoch, read, known, load, reload, mistaken, swept, stranded, act>>
    BY <1>3 DEF N!Commit, N!screen, N!ends
  <2>2. QED
    BY <1>3, <2>1, CommitMoves, ServerKeeps DEF ListInv
<1>4. ASSUME NEW r \in N!Ids, N!OtherBrowser(r) PROVE ListInv'
  <2>1. UNCHANGED <<list, hasMore, kind, epoch, read, known, load, reload, mistaken, swept, stranded, act>>
    BY <1>4 DEF N!OtherBrowser, N!screen, N!ends
  <2>2. QED
    BY <1>4, <2>1, OtherMoves, ServerKeeps DEF ListInv
<1>5. CASE N!Next
  BY <1>2, <1>3, <1>4, <1>5, VisitKeeps, ServePageKeeps, ShowPageKeeps, LoadMoreKeeps,
     ServeMoreKeeps, AppendMoreKeeps, AskKeeps, FailuresKeep, ServeActKeeps, ShowActKeeps
     DEF N!Next
<1>6. QED
  BY <1>1, <1>5

\* What the page and the answers on their way hold is settled, falling, and
\* owes the user nothing (views/notifications.py, Notifications.vue).
THEOREM ListsAreKept == Spec => []ListInv
<1>1. ListInv /\ [Next]_partsVars => ListInv'
  BY ListMoves, ListNext
<1>2. QED
  BY <1>1, ListInit, PTL DEF Spec

\* No row of the list stays out of the user's reach, whatever crosses what or
\* fails: inserts, deletes, reloads, late chunks and late answers. Only the rows
\* swept off the screen by a late "clear all", and a list emptied by hand whose
\* reload failed, are out (Notifications.vue).
THEOREM ReachIsNeverLost == Spec => []NothingHidden
<1>1. ListInv => NothingHidden
  <2>1. SUFFICES ASSUME ListInv, reload = None, ~(stranded /\ hasMore /\ list = <<>>)
                 PROVE  Covers(list, hasMore, Due)
    BY RenderedIs DEF Covers, Due, N!Matching, NothingHidden, N!NothingHidden
  <2>2. ~Dead(list, hasMore)
    BY <2>1 DEF ListInv, ReachInv, Dead
  <2>3. QED
    BY <2>1, <2>2 DEF ListInv, ReachInv
<1>2. QED
  BY <1>1, ListsAreKept, PTL

\* What the page shows as read is read, but for each row that came after the
\* server had marked all and was on screen when that answer arrived
\* (onMarkAllRead).
THEOREM ReadMarksAreTrue == Spec => []ReadIsTrue
<1>1. ListInv => ReadIsTrue
  BY DEF ListInv, ScreenInv, ReadIsTrue, N!ReadIsTrue
<1>2. QED
  BY <1>1, ListsAreKept, PTL

\* The walk shows no row twice nor out of order.
THEOREM WalkFallsOnly == Spec => []NewestFirstOnce
<1>1. ListInv => NewestFirstOnce
  BY DEF ListInv, ScreenInv, Falling, NewestFirstOnce, N!NewestFirstOnce
<1>2. QED
  BY <1>1, ListsAreKept, PTL

-----------------------------------------------------------------------------
(* Listings: pages by arithmetic                                             *)

LEMMA PlacesCounted == \A Q : L!Cardinality(Q) = Cardinality(Q)
BY DEF L!Cardinality, Cardinality

LEMMA OrphansCounted == \A sort : L!OrphansOf(sort) \in Nat
BY ListingAssumption DEF L!OrphansOf

\* The last page is the first that reaches all rows but for the orphans.
LEMMA LastPage ==
  ASSUME NEW sort, NEW count \in Nat
  PROVE  LET n == L!NumPages(sort, count)
         IN  /\ n \in Nat \ {0}
             /\ n * PerPage + L!OrphansOf(sort) >= count
             /\ \A page \in Nat \ {0} :
                  page < n => page * PerPage + L!OrphansOf(sort) < count
<1>1. PICK n : n = L!NumPages(sort, count)
  OBVIOUS
<1>2. PICK few : few = L!OrphansOf(sort) /\ few \in Nat
  BY OrphansCounted
<1>3. PICK hits : hits = IF count > few THEN count - few ELSE 1
  OBVIOUS
<1>4. PerPage \in Nat \ {0} /\ hits \in Nat \ {0}
  BY <1>2, <1>3, ListingAssumption
<1>5. n = IF count = 0 THEN 1 ELSE (hits + PerPage - 1) \div PerPage
  BY <1>1, <1>2, <1>3 DEF L!NumPages
<1>6. CASE count = 0
  BY <1>1, <1>2, <1>4, <1>5, <1>6
<1>7. CASE count # 0
  <2>1. PICK sum : sum = hits + PerPage - 1 /\ sum \in Nat
    BY <1>4
  <2>2. n = sum \div PerPage /\ n \in Nat
    BY <1>4, <1>5, <1>7, <2>1
  <2>3. n * PerPage <= sum /\ sum < n * PerPage + PerPage
    BY <1>4, <2>1, <2>2
  <2>4. hits <= n * PerPage /\ n * PerPage < hits + PerPage
    BY <1>4, <2>1, <2>2, <2>3
  <2>5. n # 0
    BY <1>4, <2>2, <2>4
  <2>6. n * PerPage + few >= count
    BY <1>2, <1>3, <1>4, <2>2, <2>4
  <2>7. ASSUME NEW page \in Nat \ {0}, page < n PROVE page * PerPage + few < count
    <3>1. page * PerPage + PerPage <= n * PerPage
      BY <1>4, <2>2, <2>7
    <3>2. page * PerPage < hits
      BY <1>4, <2>2, <2>4, <3>1
    <3>3. page * PerPage >= 1
      BY <1>4
    <3>4. count > few
      BY <1>2, <1>3, <1>4, <3>2, <3>3
    <3>5. QED
      BY <1>2, <1>3, <1>4, <3>2, <3>4
  <2>8. QED
    BY <1>1, <1>2, <2>2, <2>5, <2>6, <2>7
<1>8. QED
  BY <1>6, <1>7

\* More rows have no fewer pages.
LEMMA PagesGrow ==
  ASSUME NEW sort, NEW c \in Nat, NEW d \in Nat, c <= d
  PROVE  L!NumPages(sort, c) <= L!NumPages(sort, d)
<1>1. PICK m : m = L!NumPages(sort, c)
  OBVIOUS
<1>2. PICK n : n = L!NumPages(sort, d)
  OBVIOUS
<1>3. m \in Nat /\ n \in Nat \ {0}
  BY <1>1, <1>2, LastPage
<1>4. PICK few : few = L!OrphansOf(sort) /\ few \in Nat
  BY OrphansCounted
<1>5. n < m => n * PerPage + few < c
  BY <1>1, <1>3, <1>4, LastPage
<1>6. n * PerPage + few >= d
  BY <1>2, <1>4, LastPage
<1>7. n * PerPage \in Nat
  BY <1>3, ListingAssumption
<1>8. QED
  BY <1>1, <1>2, <1>3, <1>4, <1>5, <1>6, <1>7

\* A page ends where the next begins, the last with the last row.
LEMMA TopFacts ==
  ASSUME NEW sort, NEW count \in Nat, NEW page \in Nat \ {0}, page <= L!NumPages(sort, count)
  PROVE  /\ L!Top(sort, page, count) \in Nat
         /\ page < L!NumPages(sort, count) => L!Top(sort, page, count) = page * PerPage
         /\ page = L!NumPages(sort, count) => L!Top(sort, page, count) >= count
<1>1. PICK few : few = L!OrphansOf(sort) /\ few \in Nat
  BY OrphansCounted
<1>2. PICK n : n = L!NumPages(sort, count)
  OBVIOUS
<1>3. PICK ends : ends = page * PerPage /\ ends \in Nat
  BY ListingAssumption
<1>4. L!Top(sort, page, count) = IF ends + few >= count /\ sort # "commits" THEN count ELSE ends
  BY <1>1, <1>3 DEF L!Top
<1>5. page < n => ends + few < count
  BY <1>1, <1>2, <1>3, LastPage
<1>6. page = n => ends + few >= count
  BY <1>1, <1>2, <1>3, LastPage
<1>7. sort = "commits" => few = 0
  BY <1>1 DEF L!OrphansOf
<1>8. QED
  BY <1>1, <1>2, <1>3, <1>4, <1>5, <1>6, <1>7

-----------------------------------------------------------------------------
(* Listings: the inductive invariant                                         *)

Row == [id : Nat, name : Int, stamp : Nat]

TableInv ==
  /\ made \in Nat /\ stamp \in Nat
  /\ table \subseteq Row /\ IsFiniteSet(table)
  /\ \A r \in table : r.id <= made /\ r.stamp <= stamp
  /\ \A r, q \in table : r.id = q.id => r = q

Walk == [sort : L!Sorts \cup {"username", "commits"}, page : Nat \ {0}, total : Nat \ {0},
         count : Nat, at : {"count", "slice", "shown"}, shown : SUBSET Nat,
         owed : SUBSET Nat, cut : BOOLEAN]

\* The rows that the walk still has to show.
Hidden(w) == {r \in table : r.id \in w.owed \ w.shown}

\* How many rows the pages up to here hold.
Passed(w) == IF w.at = "shown" THEN w.page * PerPage ELSE (w.page - 1) * PerPage

\* What is still to be shown stands behind the pages that were shown.
PromiseInv(w) ==
  /\ w.count <= Cardinality(table)
  /\ w.total = L!NumPages(w.sort, w.count)
  /\ w.page <= w.total
  /\ w.at = "slice" => w.count = Cardinality(table)
  /\ w.at = "shown" /\ w.page = w.total => Hidden(w) = {}
  /\ \A r \in Hidden(w) : L!Place(w.sort, r) >= Passed(w)

WalkInv ==
  walk # None => /\ walk \in Walk
                 /\ walk.owed \subseteq {r.id : r \in table}
                 /\ ~walk.cut => PromiseInv(walk)

ListingInv == TableInv /\ WalkInv

\* A row's place is the number of the rows before it.
LEMMA PlaceFacts ==
  ASSUME IsFiniteSet(table), NEW sort, NEW r \in table,
         \A q \in table : q = r => ~L!Before(sort, q, r)
  PROVE  L!Place(sort, r) \in Nat /\ L!Place(sort, r) < Cardinality(table)
<1>1. PICK ahead : ahead = {a \in table : L!Before(sort, a, r)}
  OBVIOUS
<1>2. ahead \in SUBSET table /\ ahead # table
  BY <1>1
<1>3. IsFiniteSet(ahead) /\ Cardinality(ahead) <= Cardinality(table)
      /\ Cardinality(ahead) # Cardinality(table)
  BY <1>2, FS_Subset
<1>4. Cardinality(ahead) \in Nat /\ Cardinality(table) \in Nat
  BY <1>3, FS_CardinalityType
<1>5. L!Place(sort, r) = Cardinality(ahead)
  BY <1>1, PlacesCounted DEF L!Place
<1>6. QED
  BY <1>3, <1>4, <1>5

LEMMA BeforeIs ==
  ASSUME NEW sort, NEW a, NEW b
  PROVE  /\ sort = "id" => (L!Before(sort, a, b) <=> a.id < b.id)
         /\ sort \in {"-id", "commits"} => (L!Before(sort, a, b) <=> a.id > b.id)
         /\ sort = "username" => (L!Before(sort, a, b) <=> a.name < b.name)
         /\ sort = "last_updated_at" =>
              (L!Before(sort, a, b) <=> a.stamp < b.stamp \/ (a.stamp = b.stamp /\ a.id > b.id))
         /\ sort = "-last_updated_at" =>
              (L!Before(sort, a, b) <=> a.stamp > b.stamp \/ (a.stamp = b.stamp /\ a.id > b.id))
<1>1. sort = "id" => (L!Before(sort, a, b) <=> a.id < b.id)
  BY DEF L!Before
<1>2. sort \in {"-id", "commits"} => (L!Before(sort, a, b) <=> a.id > b.id)
  BY DEF L!Before
<1>3. sort = "username" => (L!Before(sort, a, b) <=> a.name < b.name)
  BY DEF L!Before
<1>4. sort = "last_updated_at" =>
        (L!Before(sort, a, b) <=> a.stamp < b.stamp \/ (a.stamp = b.stamp /\ a.id > b.id))
  BY DEF L!Before
<1>5. sort = "-last_updated_at" =>
        (L!Before(sort, a, b) <=> a.stamp > b.stamp \/ (a.stamp = b.stamp /\ a.id > b.id))
  BY DEF L!Before
<1>6. QED
  BY <1>1, <1>2, <1>3, <1>4, <1>5

LEMMA NoneBeforeItself ==
  ASSUME NEW sort \in L!Sorts \cup {"username", "commits"}, NEW r \in Row
  PROVE  ~L!Before(sort, r, r)
<1>1. r.id \in Nat /\ r.name \in Int /\ r.stamp \in Nat
  BY DEF Row
<1>2. ~(r.id < r.id) /\ ~(r.name < r.name) /\ ~(r.stamp < r.stamp)
  BY <1>1
<1>3. ~(r.id > r.id) /\ ~(r.stamp > r.stamp)
  BY <1>1
<1>4. sort \in {"id", "-id", "commits", "username", "last_updated_at", "-last_updated_at"}
  BY DEF L!Sorts
<1>5. QED
  BY <1>2, <1>3, <1>4, BeforeIs

\* A set that lost x but has y for it, and maybe more, is no smaller.
LEMMA SwapCounts ==
  ASSUME NEW Q, IsFiniteSet(Q), NEW P, IsFiniteSet(P), NEW x, NEW y,
         Q \ {x} \subseteq P, y \notin Q \ {x}, x \in Q => y \in P
  PROVE  Cardinality(Q) <= Cardinality(P)
<1>1. CASE x \notin Q
  <2>1. Q \in SUBSET P
    BY <1>1
  <2>2. QED
    BY <2>1, FS_Subset
<1>2. CASE x \in Q
  <2>1. PICK rest : rest = Q \ {x}
    OBVIOUS
  <2>2. IsFiniteSet(rest) /\ Cardinality(rest) = Cardinality(Q) - 1
    BY <1>2, <2>1, FS_RemoveElement
  <2>3. PICK both : both = rest \cup {y}
    OBVIOUS
  <2>4. y \notin rest
    BY <2>1
  <2>5. IsFiniteSet(both) /\ Cardinality(both) = Cardinality(rest) + 1
    BY <2>2, <2>3, <2>4, FS_AddElement
  <2>6. both \in SUBSET P
    BY <1>2, <2>1, <2>3
  <2>7. Cardinality(both) <= Cardinality(P)
    BY <2>6, FS_Subset
  <2>8. Cardinality(Q) \in Nat /\ Cardinality(both) \in Nat /\ Cardinality(P) \in Nat
    BY <2>5, FS_CardinalityType
  <2>9. QED
    BY <2>2, <2>5, <2>7, <2>8
<1>3. QED
  BY <1>1, <1>2

-----------------------------------------------------------------------------
(* Listings: the steps                                                       *)

\* The promise is kept by a step in which no row that is still to be shown
\* moves up, and none goes.
LEMMA PromiseLasts ==
  ASSUME ListingInv, walk # None, ~walk.cut, NEW w, NEW sort,
         walk.sort = sort, w.sort = sort, w.page = walk.page, w.total = walk.total, w.count = walk.count,
         w.at = walk.at, w.shown = walk.shown, w.owed \subseteq walk.owed,
         Cardinality(table)' >= Cardinality(table),
         walk.at = "slice" => Cardinality(table)' = Cardinality(table),
         IsFiniteSet(table'),
         \A r \in table' : r.id \in w.owed =>
           \E q \in table : q.id = r.id /\ L!Place(sort, r)' >= L!Place(sort, q)
                            /\ L!Place(sort, r)' \in Nat /\ L!Place(sort, q) \in Nat
  PROVE  PromiseInv(w)'
<1>1. PromiseInv(walk) /\ walk \in Walk
  BY DEF ListingInv, WalkInv
<1>2. Cardinality(table) \in Nat /\ Cardinality(table') \in Nat
  BY FS_CardinalityType DEF ListingInv, TableInv
<1>3. Passed(w)' = Passed(walk) /\ Passed(walk) \in Int
  BY <1>1, ListingAssumption DEF Passed, Walk
<1>4. ASSUME NEW r \in Hidden(w)'
      PROVE  Hidden(walk) # {} /\ L!Place(w.sort, r)' >= Passed(w)'
  <2>1. PICK q \in table : /\ q.id = r.id /\ L!Place(sort, r)' >= L!Place(sort, q)
                           /\ L!Place(sort, r)' \in Nat /\ L!Place(sort, q) \in Nat
    BY <1>4 DEF Hidden
  <2>2. q \in Hidden(walk)
    BY <1>4, <2>1 DEF Hidden
  <2>3. L!Place(sort, q) >= Passed(walk)
    BY <1>1, <2>2 DEF PromiseInv
  <2>4. L!Place(sort, r)' >= Passed(walk)
    BY <1>3, <2>1, <2>3
  <2>5. L!Place(w.sort, r)' = L!Place(sort, r)'
    OBVIOUS
  <2>6. QED
    BY <1>3, <2>2, <2>4, <2>5
<1>5. w.count <= Cardinality(table')
  BY <1>1, <1>2 DEF PromiseInv, Walk
<1>6. w.at = "slice" => w.count = Cardinality(table')
  BY <1>1 DEF PromiseInv
<1>7. w.at = "shown" /\ w.page = w.total => Hidden(w)' = {}
  BY <1>1, <1>4 DEF PromiseInv
<1>8. w.total = L!NumPages(w.sort, w.count) /\ w.page <= w.total
  BY <1>1 DEF PromiseInv
<1>9. QED
  BY <1>4, <1>5, <1>6, <1>7, <1>8 DEF PromiseInv

\* What a change to the table does to a walk.
LEMMA MeanwhileFacts ==
  ASSUME ListingInv, walk # None, NEW lost, NEW cuts \in BOOLEAN, L!Meanwhile(lost, cuts)
  PROVE  /\ walk' \in Walk
         /\ walk'.sort = walk.sort /\ walk'.page = walk.page /\ walk'.total = walk.total
         /\ walk'.count = walk.count /\ walk'.at = walk.at /\ walk'.shown = walk.shown
         /\ walk'.owed = walk.owed \ lost
         /\ walk'.cut = (walk.cut \/ cuts)
<1>1. walk \in Walk
  BY DEF ListingInv, WalkInv
<1>2. walk' = [walk EXCEPT !.owed = @ \ lost, !.cut = @ \/ cuts]
  BY DEF L!Meanwhile
<1>3. QED
  BY <1>1, <1>2 DEF Walk

LEMMA NoWalkStays ==
  ASSUME walk = None, NEW lost, NEW cuts, L!Meanwhile(lost, cuts) PROVE walk' = None
BY DEF L!Meanwhile

LEMMA InsertKeeps ==
  ASSUME ListingInv, NEW name \in 1..MaxRowIds, NEW later \in 0..1, L!Insert(name, later)
  PROVE  ListingInv'
<1>1. PICK new : new = [id |-> made + 1, name |-> name, stamp |-> stamp + later]
  OBVIOUS
<1>2. made' = made + 1 /\ stamp' = stamp + later /\ table' = table \cup {new}
  BY <1>1 DEF L!Insert
<1>3. L!Meanwhile({}, walk # None /\ walk.at = "slice")
  BY DEF L!Insert
<1>4. /\ made \in Nat /\ stamp \in Nat /\ table \subseteq Row /\ IsFiniteSet(table)
      /\ \A r \in table : r.id <= made /\ r.stamp <= stamp
      /\ \A r, q \in table : r.id = q.id => r = q
  BY DEF ListingInv, TableInv
<1>5. new \in Row /\ new.id = made + 1 /\ new.stamp = stamp + later
  BY <1>1, <1>4 DEF Row
<1>6. new \notin table /\ \A r \in table : r.id # new.id
  <2>1. \A r \in table : r.id \in Nat
    BY <1>4 DEF Row
  <2>2. QED
    BY <1>4, <1>5, <2>1
<1>7. IsFiniteSet(table') /\ Cardinality(table') = Cardinality(table) + 1
  BY <1>2, <1>4, <1>6, FS_AddElement
<1>8. TableInv'
  <2>1. made' \in Nat /\ stamp' \in Nat /\ table' \subseteq Row
    BY <1>2, <1>4, <1>5
  <2>2. \A r \in table' : r.id <= made' /\ r.stamp <= stamp'
    <3>1. \A r \in table : r.id \in Nat /\ r.stamp \in Nat
      BY <1>4 DEF Row
    <3>2. \A r \in table : r.id <= made + 1 /\ r.stamp <= stamp + later
      BY <1>4, <3>1
    <3>3. new.id <= made + 1 /\ new.stamp <= stamp + later
      BY <1>4, <1>5
    <3>4. QED
      BY <1>2, <3>2, <3>3
  <2>3. \A r, q \in table' : r.id = q.id => r = q
    BY <1>2, <1>4, <1>6
  <2>4. QED
    BY <1>7, <2>1, <2>2, <2>3 DEF TableInv
<1>9. CASE walk = None
  BY <1>3, <1>8, <1>9, NoWalkStays DEF ListingInv, WalkInv
<1>10. CASE walk # None
  <2>1. PICK w : w = walk'
    OBVIOUS
  <2>2. /\ w \in Walk /\ w.sort = walk.sort /\ w.page = walk.page /\ w.total = walk.total
        /\ w.count = walk.count /\ w.at = walk.at /\ w.shown = walk.shown /\ w.owed = walk.owed
        /\ w.cut = (walk.cut \/ walk.at = "slice")
    <3>1. PICK cuts \in BOOLEAN : cuts = (walk.at = "slice") /\ L!Meanwhile({}, cuts)
      BY <1>3, <1>10 DEF L!Meanwhile
    <3>2. walk'.owed = walk.owed \ {} /\ walk'.cut = (walk.cut \/ cuts)
      BY <1>10, <3>1, MeanwhileFacts
    <3>3. QED
      BY <1>10, <2>1, <3>1, <3>2, MeanwhileFacts
  <2>3. w.owed \subseteq {r.id : r \in table'}
    BY <1>2, <1>10, <2>2 DEF ListingInv, WalkInv
  <2>4. ASSUME ~w.cut PROVE PromiseInv(w)'
    <3>1. PICK sort : sort = walk.sort
      OBVIOUS
    <3>2. sort \in L!Sorts \cup {"username", "commits"}
      BY <1>10, <3>1 DEF ListingInv, WalkInv, Walk
    <3>3. ASSUME NEW r \in table', r.id \in w.owed
          PROVE  \E q \in table : q.id = r.id /\ L!Place(sort, r)' >= L!Place(sort, q)
                            /\ L!Place(sort, r)' \in Nat /\ L!Place(sort, q) \in Nat
      <4>1. r \in table
        BY <1>2, <1>6, <1>10, <2>2, <3>3 DEF ListingInv, WalkInv
      <4>2. PICK ahead : ahead = {a \in table : L!Before(sort, a, r)}
        OBVIOUS
      <4>3. PICK ahead2 : ahead2 = {a \in table' : L!Before(sort, a, r)}
        OBVIOUS
      <4>4. L!Place(sort, r) = Cardinality(ahead) /\ L!Place(sort, r)' = Cardinality(ahead2)
        BY <4>2, <4>3, PlacesCounted DEF L!Place
      <4>5. ahead2 \in SUBSET table' /\ ahead \in SUBSET ahead2
        BY <1>2, <4>2, <4>3
      <4>6. IsFiniteSet(ahead2)
        BY <1>7, <4>5, FS_Subset
      <4>7. IsFiniteSet(ahead) /\ Cardinality(ahead) <= Cardinality(ahead2)
        BY <4>5, <4>6, FS_Subset
      <4>8. Cardinality(ahead) \in Nat /\ Cardinality(ahead2) \in Nat
        BY <4>6, <4>7, FS_CardinalityType
      <4>9. QED
        BY <4>1, <4>4, <4>7, <4>8
    <3>4. Cardinality(table') >= Cardinality(table)
      BY <1>4, <1>7, FS_CardinalityType
    <3>5. ~walk.cut /\ walk.at # "slice"
      BY <2>2, <2>4
    <3>6. w.sort = sort
      BY <2>2, <3>1
    <3>7. QED
      BY <1>7, <1>10, <2>2, <3>1, <3>3, <3>4, <3>5, <3>6, PromiseLasts
  <2>5. WalkInv'
    BY <2>1, <2>2, <2>3, <2>4 DEF WalkInv
  <2>6. QED
    BY <1>8, <2>5 DEF ListingInv
<1>11. QED
  BY <1>9, <1>10

LEMMA DeleteKeeps == ASSUME ListingInv, NEW r \in table, L!Delete(r) PROVE ListingInv'
<1>1. table' = table \ {r} /\ made' = made /\ stamp' = stamp /\ L!Meanwhile({r.id}, TRUE)
  BY DEF L!Delete
<1>2. IsFiniteSet(table')
  BY <1>1, FS_RemoveElement DEF ListingInv, TableInv
<1>3. TableInv'
  BY <1>1, <1>2 DEF ListingInv, TableInv
<1>4. CASE walk = None
  BY <1>1, <1>3, <1>4, NoWalkStays DEF ListingInv, WalkInv
<1>5. CASE walk # None
  <2>1. walk' \in Walk /\ walk'.owed = walk.owed \ {r.id} /\ walk'.cut = TRUE
    BY <1>1, <1>5, MeanwhileFacts
  <2>2. walk'.owed \subseteq {q.id : q \in table'}
    BY <1>1, <1>5, <2>1 DEF ListingInv, WalkInv
  <2>3. QED
    BY <1>3, <2>1, <2>2 DEF ListingInv, WalkInv
<1>6. QED
  BY <1>4, <1>5

\* The place of a row after a save of a row x, under an order that the save
\* does not change, or of another row under the order of the latest change.
LEMMA TouchedPlaces ==
  ASSUME TableInv, NEW sort \in L!Sorts \cup {"username", "commits"},
         NEW x \in table, NEW y \in Row, y.id = x.id, y.name = x.name,
         \A r \in table : r.stamp <= y.stamp,
         table' = (table \ {x}) \cup {y}, IsFiniteSet(table'),
         NEW r \in table', NEW q \in table, q.id = r.id,
         sort # "last_updated_at", sort = "-last_updated_at" => r # y
  PROVE  /\ L!Place(sort, r)' >= L!Place(sort, q)
         /\ L!Place(sort, r)' \in Nat /\ L!Place(sort, q) \in Nat
<1>1. PICK old : old = {a \in table : L!Before(sort, a, q)}
  OBVIOUS
<1>2. PICK new : new = {a \in table' : L!Before(sort, a, r)}
  OBVIOUS
<1>3. L!Place(sort, q) = Cardinality(old) /\ L!Place(sort, r)' = Cardinality(new)
  BY <1>1, <1>2, PlacesCounted DEF L!Place
<1>4. IsFiniteSet(old) /\ IsFiniteSet(new)
  <2>1. old \in SUBSET table /\ new \in SUBSET table'
    BY <1>1, <1>2
  <2>2. QED
    BY <2>1, FS_Subset DEF TableInv
<1>5. /\ \A a \in table : a \in Row /\ a.id \in Nat /\ a.stamp \in Nat /\ a.name \in Int
      /\ y.id \in Nat /\ y.stamp \in Nat /\ y.name \in Int
  BY DEF TableInv, Row
<1>6. (r = y /\ q = x) \/ (r = q /\ r # y)
  BY DEF TableInv
<1>7. sort \in {"id", "-id", "commits", "username", "-last_updated_at"}
  BY DEF L!Sorts
<1>8. ASSUME NEW a \in table, L!Before(sort, a, q) PROVE L!Before(sort, a, r)
  <2>1. CASE r = q
    BY <1>8, <2>1
  <2>2. CASE r = y /\ q = x
    BY <1>7, <1>8, <2>2, BeforeIs
  <2>3. QED
    BY <1>6, <2>1, <2>2
<1>9. ASSUME L!Before(sort, x, q) PROVE L!Before(sort, y, r)
  <2>1. CASE r = q /\ r # y
    <3>1. CASE sort # "-last_updated_at"
      BY <1>7, <1>9, <2>1, <3>1, BeforeIs
    <3>2. CASE sort = "-last_updated_at"
      <4>1. x.stamp > q.stamp \/ (x.stamp = q.stamp /\ x.id > q.id)
        BY <1>9, <3>2, BeforeIs
      <4>2. x.stamp <= y.stamp /\ q.stamp <= y.stamp
        OBVIOUS
      <4>3. y.stamp > q.stamp \/ (y.stamp = q.stamp /\ y.id > q.id)
        BY <1>5, <4>1, <4>2
      <4>4. QED
        BY <2>1, <3>2, <4>3, BeforeIs
    <3>3. QED
      BY <3>1, <3>2
  <2>2. CASE r = y /\ q = x
    BY <1>5, <1>9, <2>2, NoneBeforeItself
  <2>3. QED
    BY <1>6, <2>1, <2>2
<1>10. old \ {x} \subseteq new
  BY <1>1, <1>2, <1>8
<1>11. y \notin old \ {x}
  BY <1>1 DEF TableInv
<1>12. x \in old => y \in new
  BY <1>1, <1>2, <1>9
<1>13. Cardinality(old) <= Cardinality(new)
  BY <1>4, <1>10, <1>11, <1>12, SwapCounts
<1>14. Cardinality(old) \in Nat /\ Cardinality(new) \in Nat
  BY <1>4, FS_CardinalityType
<1>15. QED
  BY <1>3, <1>13, <1>14

LEMMA TouchKeeps ==
  ASSUME ListingInv, NEW x \in table, NEW later \in 0..1, L!Touch(x, later)
  PROVE  ListingInv'
<1>1. PICK y : y = [x EXCEPT !.stamp = stamp + later]
  OBVIOUS
<1>2. stamp' = stamp + later /\ made' = made /\ table' = (table \ {x}) \cup {y}
  BY <1>1 DEF L!Touch
<1>3. /\ made \in Nat /\ stamp \in Nat /\ table \subseteq Row /\ IsFiniteSet(table)
      /\ \A r \in table : r.id <= made /\ r.stamp <= stamp
      /\ \A r, q \in table : r.id = q.id => r = q
  BY DEF ListingInv, TableInv
<1>4. y \in Row /\ y.id = x.id /\ y.name = x.name /\ y.stamp = stamp + later
  BY <1>1, <1>3 DEF Row
<1>5. y \notin table \ {x}
  BY <1>3, <1>4
<1>6. IsFiniteSet(table') /\ Cardinality(table') = Cardinality(table)
  <2>1. IsFiniteSet(table \ {x}) /\ Cardinality(table \ {x}) = Cardinality(table) - 1
    BY <1>3, FS_RemoveElement
  <2>2. IsFiniteSet(table') /\ Cardinality(table') = Cardinality(table \ {x}) + 1
    BY <1>2, <1>5, <2>1, FS_AddElement
  <2>3. Cardinality(table) \in Nat
    BY <1>3, FS_CardinalityType
  <2>4. QED
    BY <2>1, <2>2, <2>3
<1>7. \A r \in table : r.stamp \in Nat /\ r.id \in Nat /\ r.stamp <= y.stamp
  <2>1. \A r \in table : r.stamp \in Nat /\ r.id \in Nat
    BY <1>3 DEF Row
  <2>2. QED
    BY <1>3, <1>4, <2>1
<1>8. TableInv'
  <2>1. made' \in Nat /\ stamp' \in Nat /\ table' \subseteq Row
    BY <1>2, <1>3, <1>4
  <2>2. \A r \in table' : r.id <= made' /\ r.stamp <= stamp'
    BY <1>2, <1>3, <1>4, <1>7
  <2>3. \A r, q \in table' : r.id = q.id => r = q
    BY <1>2, <1>3, <1>4
  <2>4. QED
    BY <1>6, <2>1, <2>2, <2>3 DEF TableInv
<1>9. CASE walk = None
  BY <1>8, <1>9, NoWalkStays DEF ListingInv, WalkInv, L!Touch
<1>10. CASE walk # None
  <2>1. PICK w : w = walk'
    OBVIOUS
  <2>2. PICK sort : sort = walk.sort
    OBVIOUS
  <2>3. PICK lost : lost = IF sort = "-last_updated_at" THEN {x.id} ELSE {}
    OBVIOUS
  <2>4. PICK cuts \in BOOLEAN : cuts = (sort = "last_updated_at")
    OBVIOUS
  <2>5. L!Meanwhile(lost, cuts)
    BY <1>10, <2>2, <2>3, <2>4 DEF L!Touch, L!Meanwhile
  <2>6. /\ w \in Walk /\ w.sort = sort /\ w.page = walk.page /\ w.total = walk.total
        /\ w.count = walk.count /\ w.at = walk.at /\ w.shown = walk.shown
        /\ w.owed = walk.owed \ lost /\ w.cut = (walk.cut \/ cuts)
    BY <1>10, <2>1, <2>2, <2>5, MeanwhileFacts
  <2>7. walk.owed \subseteq {r.id : r \in table}
    BY <1>10 DEF ListingInv, WalkInv
  <2>8. {r.id : r \in table'} = {r.id : r \in table}
    BY <1>2, <1>4
  <2>9. ASSUME ~w.cut PROVE PromiseInv(w)'
    <3>1. ~walk.cut /\ sort # "last_updated_at"
      BY <2>4, <2>6, <2>9
    <3>2. sort \in L!Sorts \cup {"username", "commits"}
      BY <1>10, <2>2 DEF ListingInv, WalkInv, Walk
    <3>3. ASSUME NEW r \in table', r.id \in w.owed
          PROVE  \E q \in table : q.id = r.id /\ L!Place(sort, r)' >= L!Place(sort, q)
                            /\ L!Place(sort, r)' \in Nat /\ L!Place(sort, q) \in Nat
      <4>1. PICK q \in table : q.id = r.id
        BY <2>8
      <4>2. sort = "-last_updated_at" => r # y
        BY <1>4, <2>3, <2>6, <3>3
      <4>3. TableInv
        BY DEF ListingInv
      <4>4. QED
        BY <1>2, <1>4, <1>6, <1>7, <3>1, <3>2, <4>1, <4>2, <4>3, TouchedPlaces
    <3>4. Cardinality(table') >= Cardinality(table)
      BY <1>3, <1>6, FS_CardinalityType
    <3>5. w.owed \subseteq walk.owed
      BY <2>6
    <3>6. QED
      BY <1>6, <1>10, <2>2, <2>6, <3>1, <3>3, <3>4, <3>5, PromiseLasts
  <2>10. WalkInv'
    BY <2>1, <2>6, <2>7, <2>8, <2>9 DEF WalkInv
  <2>11. QED
    BY <1>8, <2>10 DEF ListingInv
<1>11. QED
  BY <1>9, <1>10

LEMMA OpenKeeps == ASSUME ListingInv, NEW sort \in L!Requests, L!Open(sort) PROVE ListingInv'
<1>1. UNCHANGED <<table, made, stamp>>
  BY DEF L!Open
<1>2. PICK order : order = L!Resolve(sort)
  OBVIOUS
<1>3. order \in L!Sorts \cup {"username", "commits"}
  BY <1>2 DEF L!Resolve, L!Sorts
<1>4. PICK ids : ids = {r.id : r \in table}
  OBVIOUS
<1>5. ids \in SUBSET Nat /\ table \subseteq Row /\ IsFiniteSet(table)
  BY <1>4 DEF ListingInv, TableInv, Row
<1>6. PICK w : w = [sort |-> order, page |-> 1, total |-> 1, count |-> 0, at |-> "count",
                    shown |-> {}, owed |-> ids, cut |-> FALSE]
  OBVIOUS
<1>7. walk' = w
  BY <1>2, <1>4, <1>6 DEF L!Open
<1>8. w \in Walk
  BY <1>3, <1>5, <1>6 DEF Walk
<1>9. PromiseInv(w)
  <2>1. Cardinality(table) \in Nat
    BY <1>5, FS_CardinalityType
  <2>2. L!NumPages(order, 0) = 1
    BY DEF L!NumPages
  <2>3. Passed(w) = 0
    BY <1>6, ListingAssumption DEF Passed
  <2>4. ASSUME NEW r \in table PROVE L!Place(order, r) \in Nat
    BY <1>3, <1>5, <2>4, PlaceFacts, NoneBeforeItself
  <2>5. QED
    BY <1>6, <2>1, <2>2, <2>3, <2>4 DEF PromiseInv, Hidden
<1>10. TableInv'
  BY <1>1 DEF ListingInv, TableInv
<1>11. PromiseInv(w)'
  BY <1>1, <1>9, PlacesCounted DEF PromiseInv, Hidden, Passed, L!Place
<1>12. QED
  BY <1>1, <1>4, <1>6, <1>7, <1>8, <1>10, <1>11 DEF ListingInv, WalkInv

LEMMA CountKeeps == ASSUME ListingInv, L!Count PROVE ListingInv'
<1>1. UNCHANGED <<table, made, stamp>> /\ walk # None /\ walk.at = "count"
  BY DEF L!Count
<1>2. walk \in Walk /\ walk.owed \subseteq {r.id : r \in table} /\ (~walk.cut => PromiseInv(walk))
  BY <1>1 DEF ListingInv, WalkInv
<1>3. PICK count : count = Cardinality(table) /\ count \in Nat
  BY FS_CardinalityType DEF ListingInv, TableInv
<1>4. PICK total : total = L!NumPages(walk.sort, count) /\ total \in Nat \ {0}
  BY <1>3, LastPage
<1>5. PICK page : page = IF walk.page > total THEN total ELSE walk.page
  OBVIOUS
<1>6. PICK w : w = [walk EXCEPT !.count = count, !.total = total, !.at = "slice", !.page = page]
  OBVIOUS
<1>7. walk' = w
  BY <1>3, <1>4, <1>5, <1>6, PlacesCounted DEF L!Count
<1>8. page \in Nat \ {0}
  BY <1>2, <1>4, <1>5 DEF Walk
<1>9. /\ w \in Walk /\ w.sort = walk.sort /\ w.page = page /\ w.total = total
      /\ w.count = count /\ w.at = "slice" /\ w.shown = walk.shown /\ w.owed = walk.owed
      /\ w.cut = walk.cut
  BY <1>2, <1>3, <1>4, <1>6, <1>8 DEF Walk
<1>10. ASSUME ~walk.cut PROVE PromiseInv(w)
  <2>1. PromiseInv(walk)
    BY <1>2, <1>10
  <2>2. walk.total <= total
    <3>1. walk.count <= count /\ walk.count \in Nat
      BY <1>2, <1>3, <2>1 DEF PromiseInv, Walk
    <3>2. walk.total = L!NumPages(walk.sort, walk.count)
      BY <2>1 DEF PromiseInv
    <3>3. QED
      BY <1>3, <1>4, <3>1, <3>2, PagesGrow
  <2>3. page = walk.page
    BY <1>2, <1>4, <1>5, <2>1, <2>2 DEF PromiseInv, Walk
  <2>4. Passed(w) = Passed(walk)
    BY <1>1, <1>9, <2>3 DEF Passed
  <2>5. Hidden(w) = Hidden(walk)
    BY <1>9 DEF Hidden
  <2>6. page <= total
    BY <1>4, <1>5, <1>8
  <2>7. \A r \in Hidden(w) : L!Place(w.sort, r) >= Passed(w)
    BY <1>9, <2>1, <2>4, <2>5 DEF PromiseInv
  <2>8. QED
    BY <1>3, <1>4, <1>9, <2>6, <2>7 DEF PromiseInv
<1>11. TableInv'
  BY <1>1 DEF ListingInv, TableInv
<1>12. PromiseInv(w) => PromiseInv(w)'
  BY <1>1, PlacesCounted DEF PromiseInv, Hidden, Passed, L!Place
<1>13. QED
  BY <1>1, <1>2, <1>7, <1>9, <1>10, <1>11, <1>12 DEF ListingInv, WalkInv

LEMMA ShowKeeps == ASSUME ListingInv, L!Show PROVE ListingInv'
<1>1. UNCHANGED <<table, made, stamp>> /\ walk # None /\ walk.at = "slice"
  BY DEF L!Show
<1>2. walk \in Walk /\ walk.owed \subseteq {r.id : r \in table} /\ (~walk.cut => PromiseInv(walk))
  BY <1>1 DEF ListingInv, WalkInv
<1>3. PICK slice : slice = L!Slice(walk.sort, walk.page, walk.count)
  OBVIOUS
<1>4. slice \subseteq table /\ {r.id : r \in slice} \in SUBSET Nat
  BY <1>3 DEF L!Slice, ListingInv, TableInv, Row
<1>5. PICK seen : seen = walk.shown \cup {r.id : r \in slice}
  OBVIOUS
<1>6. PICK w : w = [walk EXCEPT !.at = "shown", !.shown = seen]
  OBVIOUS
<1>7. walk' = w
  BY <1>3, <1>5, <1>6 DEF L!Show
<1>8. /\ w \in Walk /\ w.sort = walk.sort /\ w.page = walk.page /\ w.total = walk.total
      /\ w.count = walk.count /\ w.at = "shown" /\ w.shown = seen /\ w.owed = walk.owed
      /\ w.cut = walk.cut
  BY <1>2, <1>4, <1>5, <1>6 DEF Walk
<1>9. ASSUME ~walk.cut PROVE PromiseInv(w)
  <2>1. PromiseInv(walk)
    BY <1>2, <1>9
  <2>2. PICK sort : sort = walk.sort /\ sort \in L!Sorts \cup {"username", "commits"}
    BY <1>2 DEF Walk
  <2>3. PICK page : page = walk.page /\ page \in Nat \ {0}
    BY <1>2 DEF Walk
  <2>4. PICK count : count = walk.count /\ count \in Nat /\ count = Cardinality(table)
    BY <1>1, <1>2, <2>1 DEF Walk, PromiseInv
  <2>5. walk.total = L!NumPages(sort, count) /\ page <= walk.total /\ walk.total \in Nat
    BY <1>2, <2>1, <2>2, <2>3, <2>4 DEF PromiseInv, Walk
  <2>6. PICK top : top = L!Top(sort, page, count)
    OBVIOUS
  <2>7. /\ top \in Nat
        /\ page < walk.total => top = page * PerPage
        /\ page = walk.total => top >= count
    BY <2>2, <2>3, <2>4, <2>5, <2>6, TopFacts
  <2>8. ASSUME NEW r \in Hidden(w)
        PROVE  L!Place(sort, r) >= top /\ L!Place(sort, r) < count /\ L!Place(sort, r) \in Nat
    <3>1. r \in table /\ r \in Hidden(walk) /\ r \notin slice
      BY <1>5, <1>8, <2>8 DEF Hidden
    <3>2. L!Place(sort, r) \in Nat /\ L!Place(sort, r) < count
      BY <2>2, <2>4, <3>1, PlaceFacts, NoneBeforeItself DEF ListingInv, TableInv
    <3>3. L!Place(sort, r) >= (page - 1) * PerPage
      BY <1>1, <2>1, <2>2, <2>3, <3>1 DEF PromiseInv, Passed
    <3>4. ~(L!Place(sort, r) \in (page - 1) * PerPage..top - 1)
      BY <1>3, <2>2, <2>3, <2>4, <2>6, <3>1 DEF L!Slice
    <3>5. (page - 1) * PerPage \in Int
      BY <2>3, ListingAssumption
    <3>6. QED
      BY <2>7, <3>2, <3>3, <3>4, <3>5
  <2>9. page = walk.total => Hidden(w) = {}
    BY <2>4, <2>7, <2>8
  <2>10. Passed(w) = page * PerPage
    BY <1>8, <2>3 DEF Passed
  <2>11. \A r \in Hidden(w) : L!Place(w.sort, r) >= Passed(w)
    BY <1>8, <2>2, <2>3, <2>5, <2>7, <2>8, <2>9, <2>10
  <2>12. QED
    BY <1>8, <2>1, <2>3, <2>9, <2>11 DEF PromiseInv
<1>10. TableInv'
  BY <1>1 DEF ListingInv, TableInv
<1>11. PromiseInv(w) => PromiseInv(w)'
  BY <1>1, PlacesCounted DEF PromiseInv, Hidden, Passed, L!Place
<1>12. QED
  BY <1>1, <1>2, <1>7, <1>8, <1>9, <1>10, <1>11 DEF ListingInv, WalkInv

LEMMA TurnKeeps == ASSUME ListingInv, L!Turn PROVE ListingInv'
<1>1. UNCHANGED <<table, made, stamp>> /\ walk # None /\ walk.at = "shown"
  BY DEF L!Turn
<1>2. walk \in Walk /\ walk.owed \subseteq {r.id : r \in table} /\ (~walk.cut => PromiseInv(walk))
  BY <1>1 DEF ListingInv, WalkInv
<1>3. TableInv'
  BY <1>1 DEF ListingInv, TableInv
<1>4. CASE ~(walk.page < walk.total)
  BY <1>3, <1>4 DEF L!Turn, ListingInv, WalkInv
<1>5. CASE walk.page < walk.total
  <2>1. PICK page : page = walk.page /\ page \in Nat \ {0} /\ page + 1 \in Nat \ {0}
    BY <1>2 DEF Walk
  <2>2. PICK w : w = [walk EXCEPT !.page = page + 1, !.at = "count"]
    OBVIOUS
  <2>3. walk' = w
    BY <1>5, <2>1, <2>2 DEF L!Turn
  <2>4. /\ w \in Walk /\ w.sort = walk.sort /\ w.page = page + 1 /\ w.total = walk.total
        /\ w.count = walk.count /\ w.at = "count" /\ w.shown = walk.shown /\ w.owed = walk.owed
        /\ w.cut = walk.cut
    BY <1>2, <2>1, <2>2 DEF Walk
  <2>5. ASSUME ~walk.cut PROVE PromiseInv(w)
    <3>1. PromiseInv(walk)
      BY <1>2, <2>5
    <3>2. Passed(w) = Passed(walk)
      BY <1>1, <2>1, <2>4 DEF Passed
    <3>3. Hidden(w) = Hidden(walk)
      BY <2>4 DEF Hidden
    <3>4. page + 1 <= walk.total
      BY <1>2, <1>5, <2>1 DEF Walk
    <3>5. QED
      BY <2>4, <3>1, <3>2, <3>3, <3>4 DEF PromiseInv
  <2>6. PromiseInv(w) => PromiseInv(w)'
    BY <1>1, PlacesCounted DEF PromiseInv, Hidden, Passed, L!Place
  <2>7. QED
    BY <1>1, <1>2, <1>3, <2>3, <2>4, <2>5, <2>6 DEF ListingInv, WalkInv
<1>6. QED
  BY <1>4, <1>5

LEMMA ListingInit == Init => ListingInv
<1>1. SUFFICES ASSUME L!Init PROVE ListingInv
  BY DEF Init
<1>2. table = {} /\ made = 0 /\ stamp = 0 /\ walk = None
  BY <1>1 DEF L!Init
<1>3. QED
  BY <1>2, FS_EmptySet DEF ListingInv, TableInv, WalkInv

LEMMA ListingNext == ASSUME ListingInv, [L!Next]_(L!listingVars) PROVE ListingInv'
<1>1. CASE UNCHANGED L!listingVars
  BY <1>1, PlacesCounted
     DEF L!listingVars, ListingInv, TableInv, WalkInv, PromiseInv, Hidden, Passed, L!Place
<1>2. CASE L!Next
  BY <1>2, InsertKeeps, DeleteKeeps, TouchKeeps, OpenKeeps, CountKeeps, ShowKeeps, TurnKeeps
     DEF L!Next
<1>3. QED
  BY <1>1, <1>2

LEMMA TablesMove == ASSUME [Next]_partsVars PROVE [L!Next]_(L!listingVars)
BY DEF Next, Step, partsVars, tableState, L!listingVars

\* What a walk still has to show stands behind the pages that it was shown
\* (views/manage.py, views/users.py, views/git_data.py).
THEOREM WalksAreKept == Spec => []ListingInv
<1>1. ListingInv /\ [Next]_partsVars => ListingInv'
  BY TablesMove, ListingNext
<1>2. QED
  BY <1>1, ListingInit, PTL DEF Spec

\* A walk that was not cut off misses no row, for every number of rows, every
\* size of the pages and of the orphans.
THEOREM WalksAreWhole == Spec => []WalkMissesNothing
<1>1. ListingInv => WalkMissesNothing
  BY DEF ListingInv, WalkInv, PromiseInv, Hidden, Walk, WalkMissesNothing, L!WalkMissesNothing
<1>2. QED
  BY <1>1, WalksAreKept, PTL

=============================================================================
