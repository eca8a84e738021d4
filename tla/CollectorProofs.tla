--------------------------- MODULE CollectorProofs ---------------------------
(***************************************************************************)
(* Proofs about Collector, for any number of roots, any kinds of cells and *)
(* any sizes.  The first half is about cells: wherever a collection        *)
(* starts, no pointer is left that points out of the working heap when the *)
(* program goes on.  The second half is about objects: each cell and each  *)
(* forward stands for one, what the program sees of them is a Store, and a *)
(* collection keeps those that are reached and no others.                  *)
(***************************************************************************)
EXTENDS Collector, LeastElements, SequenceTheorems

----------------------------------------------------------------------------
(* Cells, values and sizes                                                 *)

\* The last identity stands for the one chosen where none is left.
Ids     == Id \cup {CHOOSE i \in {} : \A j \in {} : i <= j}
Types   == {kind[1] : kind \in Kinds} \cup {"FWD"}
Heap    == 0 .. 2
Values0 == {NULL} \cup (Heap \X Nat)
Cells   == [ty: Types, id: Ids, args: Seq(Values0)]

LEMMA CellSize ==
  ASSUME NEW c \in Cells
  PROVE  Size(c) \in Nat \ {0} /\ Len(c.args) \in Nat
  <1>1. Len(c.args) \in Nat
    BY DEF Cells
  <1> QED
    BY <1>1 DEF Size, WordsOf

\* The sum in Used, a step at a time.
SumTo(cells, n, f) ==
  f = [m \in 0 .. n |-> IF m = 0 THEN 0 ELSE f[m - 1] + Size(cells[m])]

LEMMA SumExists ==
  ASSUME NEW cells, NEW n \in Nat
  PROVE  \E f : SumTo(cells, n, f)
  <1> DEFINE Bad == {m \in Nat : ~ \E f : SumTo(cells, m, f)}
  <1>1. SUFFICES ASSUME Bad # {} PROVE FALSE
    OBVIOUS
  <1>2. PICK m \in Bad : \A k \in Bad : m <= k
    <2>1. Bad \subseteq Nat
      OBVIOUS
    <2> HIDE DEF Bad
    <2> QED
      BY <1>1, <2>1, LeastNumber
  <1>3. m # 0
    <2>1. SumTo(cells, 0, [k \in 0 .. 0 |-> 0])
      BY DEF SumTo
    <2> QED
      BY <2>1
  <1>4. m - 1 \in Nat /\ m \in Nat
    BY <1>3
  <1>5. PICK f : SumTo(cells, m - 1, f)
    BY <1>2, <1>4
  <1> DEFINE g == [k \in 0 .. m |-> IF k = m THEN f[m - 1] + Size(cells[m]) ELSE f[k]]
  <1>6. SumTo(cells, m, g)
    <2>1. \A k \in 0 .. m - 1 : f[k] = IF k = 0 THEN 0 ELSE f[k - 1] + Size(cells[k])
      BY <1>4, <1>5 DEF SumTo
    <2>2. ASSUME NEW k \in 0 .. m
          PROVE  g[k] = IF k = 0 THEN 0 ELSE g[k - 1] + Size(cells[k])
      <3>1. CASE k = m
        BY <1>3, <1>4, <3>1
      <3>2. CASE k # m
        BY <1>4, <2>1, <3>2
      <3> QED
        BY <3>1, <3>2
    <2> HIDE DEF g
    <2>3. g = [k \in 0 .. m |-> g[k]]
      BY DEF g
    <2> QED
      BY <2>2, <2>3 DEF SumTo
  <1> QED
    BY <1>6

LEMMA SumOfUsed ==
  ASSUME NEW cells \in Seq(Cells)
  PROVE  \E f : SumTo(cells, Len(cells), f) /\ Used(cells) = f[Len(cells)]
  <1>1. Len(cells) \in Nat
    OBVIOUS
  <1>2. \E f : SumTo(cells, Len(cells), f)
    BY <1>1, SumExists
  <1> DEFINE sum == CHOOSE f : SumTo(cells, Len(cells), f)
  <1>3. SumTo(cells, Len(cells), sum)
    BY <1>2
  <1>4. Used(cells) = sum[Len(cells)]
    BY DEF Used, SumTo
  <1> QED
    BY <1>3, <1>4

\* Two sums of the same sizes are the same as far as both go.
LEMMA SameSums ==
  ASSUME NEW c1 \in Seq(Cells), NEW c2 \in Seq(Cells), NEW n1 \in Nat, NEW n2 \in Nat,
         NEW f1, NEW f2, SumTo(c1, n1, f1), SumTo(c2, n2, f2), n1 <= Len(c1), n2 <= Len(c2),
         \A m \in 1 .. n1 : m <= n2 => Size(c1[m]) = Size(c2[m])
  PROVE  \A m \in 0 .. n1 : m <= n2 => f1[m] = f2[m] /\ f1[m] \in Nat
  <1> DEFINE Bad == {m \in 0 .. n1 : ~(m <= n2 => f1[m] = f2[m] /\ f1[m] \in Nat)}
  <1>1. SUFFICES ASSUME Bad # {} PROVE FALSE
    OBVIOUS
  <1>2. PICK m \in Bad : \A k \in Bad : m <= k
    <2>1. Bad \subseteq Nat
      OBVIOUS
    <2> HIDE DEF Bad
    <2> QED
      BY <1>1, <2>1, LeastNumber
  <1>3. m \in 0 .. n1 /\ m <= n2 /\ ~(f1[m] = f2[m] /\ f1[m] \in Nat)
    BY <1>2
  <1>4. /\ f1[m] = IF m = 0 THEN 0 ELSE f1[m - 1] + Size(c1[m])
        /\ f2[m] = IF m = 0 THEN 0 ELSE f2[m - 1] + Size(c2[m])
    BY <1>3 DEF SumTo
  <1>5. m # 0
    BY <1>3, <1>4
  <1>6. f1[m - 1] = f2[m - 1] /\ f1[m - 1] \in Nat
    <2>1. m - 1 \in 0 .. n1 /\ m - 1 <= n2 /\ m - 1 \notin Bad
      BY <1>2, <1>3, <1>5
    <2> QED
      BY <2>1
  <1>7. Size(c1[m]) = Size(c2[m]) /\ Size(c1[m]) \in Nat
    <2>1. m \in 1 .. n1 /\ c1[m] \in Cells
      BY <1>3, <1>5
    <2> QED
      BY <1>3, <2>1, CellSize
  <1> QED
    BY <1>3, <1>4, <1>5, <1>6, <1>7

\* What Used adds up to: nothing for an empty heap, one more cell, and the same
\* for cells of the same sizes.
LEMMA UsedNat ==
  ASSUME NEW cells \in Seq(Cells)
  PROVE  Used(cells) \in Nat /\ (cells = <<>> => Used(cells) = 0)
  <1>1. PICK f : SumTo(cells, Len(cells), f) /\ Used(cells) = f[Len(cells)]
    BY SumOfUsed
  <1>2. Len(cells) \in Nat
    OBVIOUS
  <1>3. f[Len(cells)] \in Nat
    BY <1>1, <1>2, SameSums
  <1>4. cells = <<>> => f[0] = 0
    BY <1>1, <1>2 DEF SumTo
  <1> QED
    BY <1>1, <1>3, <1>4

LEMMA UsedAppend ==
  ASSUME NEW cells \in Seq(Cells), NEW c \in Cells
  PROVE  Used(Append(cells, c)) = Used(cells) + Size(c)
  <1> DEFINE more == Append(cells, c)
             n == Len(cells)
  <1>1. more \in Seq(Cells) /\ Len(more) = n + 1 /\ n \in Nat /\ more[n + 1] = c
        /\ \A m \in 1 .. n : more[m] = cells[m]
    OBVIOUS
  <1>2. PICK f : SumTo(cells, n, f) /\ Used(cells) = f[n]
    BY SumOfUsed
  <1>3. PICK g : SumTo(more, n + 1, g) /\ Used(more) = g[n + 1]
    BY <1>1, SumOfUsed
  <1> HIDE DEF more
  <1>4. f[n] = g[n]
    BY <1>1, <1>2, <1>3, SameSums
  <1>5. g[n + 1] = g[n] + Size(c)
    BY <1>1, <1>3 DEF SumTo
  <1> QED
    BY <1>2, <1>3, <1>4, <1>5 DEF more

LEMMA UsedSame ==
  ASSUME NEW c1 \in Seq(Cells), NEW c2 \in Seq(Cells), Len(c1) = Len(c2),
         \A m \in 1 .. Len(c1) : Size(c1[m]) = Size(c2[m])
  PROVE  Used(c1) = Used(c2)
  <1>1. PICK f : SumTo(c1, Len(c1), f) /\ Used(c1) = f[Len(c1)]
    BY SumOfUsed
  <1>2. PICK g : SumTo(c2, Len(c2), g) /\ Used(c2) = g[Len(c2)]
    BY SumOfUsed
  <1>3. Len(c1) \in Nat
    OBVIOUS
  <1>4. f[Len(c1)] = g[Len(c1)]
    BY <1>1, <1>2, <1>3, SameSums
  <1> QED
    BY <1>1, <1>2, <1>4

----------------------------------------------------------------------------
(* Heaps                                                                   *)

Heaps == [Heap -> Seq(Cells)]
Third == (now + 1) % 3

LEMMA ThreeHeaps ==
  ASSUME now \in Heap
  PROVE  Old \in Heap /\ Third \in Heap /\ Old # now /\ Third # now /\ Old # Third
         /\ \A s \in Heap : s \in {now, Old, Third}
  <1>1. now = 0 \/ now = 1 \/ now = 2
    BY DEF Heap
  <1> QED
    BY <1>1 DEF Heap, Old, Third

\* A value of the heap s: NULL, or a cell that is there.
Into(h, s, v) == v = NULL \/ \E n \in 1 .. Len(h[s]) : v = <<s, n>>

\* A cell that is copied and not scanned, one that is scanned, and what is
\* where a cell was that is copied.
Unscanned(h, c) == c.ty # "FWD" /\ \A k \in DOMAIN c.args : Into(h, Old, c.args[k])
Clean(h, c)     == c.ty # "FWD" /\ \A k \in DOMAIN c.args : Into(h, now, c.args[k])
Forward(h, c)   == c.ty = "FWD" /\ \E n \in 1 .. Len(h[now]) : c.args = <<<<now, n>>>>

OldOK(h) == \A i \in 1 .. Len(h[Old]) : Unscanned(h, h[Old][i]) \/ Forward(h, h[Old][i])

\* The heaps while a collection copies.
Moving(h) == h \in Heaps /\ h[Third] = <<>> /\ OldOK(h) /\ Used(h[now]) <= end

\* From h to g the working heap has become longer by at most one copy.
Longer(h, g) ==
  /\ Len(g[Old]) = Len(h[Old])
  /\ g[now] = h[now] \/ \E c \in Cells : Unscanned(h, c) /\ g[now] = Append(h[now], c)

LEMMA LongerKeeps ==
  ASSUME now \in Heap, NEW h \in Heaps, NEW g \in Heaps, Longer(h, g), NEW v
  PROVE  /\ Len(g[now]) >= Len(h[now]) /\ Len(h[now]) \in Nat /\ Len(g[now]) \in Nat
         /\ \A m \in 1 .. Len(h[now]) : g[now][m] = h[now][m]
         /\ \A m \in 1 .. Len(g[now]) : m > Len(h[now]) => Unscanned(g, g[now][m])
         /\ Into(h, Old, v) <=> Into(g, Old, v)
         /\ Into(h, now, v) => Into(g, now, v)
  <1>1. h[now] \in Seq(Cells) /\ g[now] \in Seq(Cells)
    BY DEF Heaps
  <1>2. \A c : Unscanned(h, c) => Unscanned(g, c)
    BY DEF Longer, Unscanned, Into
  <1>3. /\ Len(g[now]) >= Len(h[now]) /\ Len(h[now]) \in Nat /\ Len(g[now]) \in Nat
        /\ \A m \in 1 .. Len(h[now]) : g[now][m] = h[now][m]
        /\ \A m \in 1 .. Len(g[now]) : m > Len(h[now]) => Unscanned(g, g[now][m])
    <2>1. CASE g[now] = h[now]
      BY <1>1, <2>1
    <2>2. ASSUME NEW c \in Cells, Unscanned(h, c), g[now] = Append(h[now], c)
          PROVE  <1>3
      <3>1. /\ Len(g[now]) = Len(h[now]) + 1 /\ Len(h[now]) \in Nat
            /\ g[now][Len(h[now]) + 1] = c
            /\ \A m \in 1 .. Len(h[now]) : g[now][m] = h[now][m]
        BY <1>1, <2>2
      <3> QED
        BY <1>2, <2>2, <3>1
    <2> QED
      BY <2>1, <2>2 DEF Longer
  <1>4. Into(h, Old, v) <=> Into(g, Old, v)
    BY DEF Longer, Into
  <1>5. Into(h, now, v) => Into(g, now, v)
    BY <1>3 DEF Into
  <1> QED
    BY <1>3, <1>4, <1>5

LEMMA LongerForwards ==
  ASSUME now \in Heap, NEW h \in Heaps, NEW g \in Heaps, Longer(h, g), NEW c
  PROVE  /\ Unscanned(h, c) => Unscanned(g, c)
         /\ Clean(h, c) => Clean(g, c)
         /\ Forward(h, c) => Forward(g, c)
  <1>1. Len(g[now]) >= Len(h[now]) /\ Len(h[now]) \in Nat /\ Len(g[now]) \in Nat
    BY LongerKeeps
  <1>2. \A v : (Into(h, Old, v) <=> Into(g, Old, v)) /\ (Into(h, now, v) => Into(g, now, v))
    BY LongerKeeps
  <1>3. Forward(h, c) => Forward(g, c)
    BY <1>1 DEF Forward
  <1> QED
    BY <1>2, <1>3 DEF Unscanned, Clean

----------------------------------------------------------------------------
(* copy                                                                    *)

\* Room was looked for: for the cell, or for what a big integer asks for.
LEMMA RoomForCopy ==
  ASSUME now \in Heap, end \in Nat, NEW h \in Heaps, NEW c \in Cells, RoomToCopy(h, c)
  PROVE  Used(Append(h[now], c)) <= end
  <1>1. h[now] \in Seq(Cells)
    BY DEF Heaps
  <1>2. Used(Append(h[now], c)) = Used(h[now]) + Size(c) /\ Used(h[now]) \in Nat
    BY <1>1, UsedAppend, UsedNat
  <1>3. Size(c) \in Nat /\ (c.ty = "BIGINT" => Size(c) = 3)
    BY CellSize DEF Size, WordsOf
  <1>4. MaxGmp \in Nat /\ MaxGmp >= 3
    BY CollectorAssumption, GmpAssumption
  <1> QED
    BY <1>2, <1>3, <1>4 DEF RoomToCopy, Room

\* Copying a value of the old heap gives one of the new heap, which is longer by
\* at most a copy; what was there of the old heap is left as it was, or forwarded.
LEMMA CopiedMoves ==
  ASSUME now \in Heap, end \in Nat, NEW h, Moving(h), NEW v, Into(h, Old, v),
         Copied(h, v).fate = "run"
  PROVE  LET g == Copied(h, v).heap
         IN  Moving(g) /\ Longer(h, g) /\ Into(g, now, Copied(h, v).val)
  <1> DEFINE r == Copied(h, v)
             c == Cell(h, v)
             to == <<now, Len(h[now]) + 1>>
             there == [h EXCEPT ![now] = Append(@, c)]
             fwd == [ty |-> "FWD", id |-> c.id, args |-> <<to>>]
             moved == [there EXCEPT ![v[1]][v[2]] = fwd]
  <1>0. h \in Heaps /\ h[now] \in Seq(Cells) /\ h[Old] \in Seq(Cells) /\ Old # now
        /\ Old \in Heap /\ Third \in Heap /\ Third # Old /\ Third # now
    BY ThreeHeaps DEF Moving, Heaps
  <1>1. CASE v = NULL
    <2>1. r.heap = h /\ r.val = v
      BY <1>1 DEF Copied
    <2> QED
      BY <1>1, <2>1 DEF Longer, Into
  <1>2. CASE v # NULL
    <2>1. PICK n \in 1 .. Len(h[Old]) : v = <<Old, n>>
      BY <1>2 DEF Into
    <2>2. c = h[Old][n] /\ c \in Cells
      BY <1>0, <2>1 DEF Cell
    <2>3. CASE c.ty = "FWD"
      <3>1. r.heap = h /\ r.val = c.args[1]
        BY <1>2, <2>3 DEF Copied
      <3>2. Forward(h, c)
        BY <2>1, <2>2, <2>3 DEF Moving, OldOK, Unscanned
      <3>3. Into(h, now, c.args[1])
        BY <3>2 DEF Forward, Into
      <3> QED
        BY <3>1, <3>3 DEF Longer
    <2>4. CASE c.ty # "FWD"
      <3>1. Unscanned(h, c)
        BY <2>1, <2>2, <2>4 DEF Moving, OldOK, Forward
      <3>2. RoomToCopy(h, c)
        BY <1>2, <2>4 DEF Copied
      <3>3. /\ there \in Heaps /\ there[now] = Append(h[now], c)
            /\ there[Old] = h[Old] /\ there[Third] = h[Third]
        BY <1>0, <2>2 DEF Heaps
      <3>4. Longer(h, there)
        BY <2>2, <3>1, <3>3 DEF Longer
      <3>5. to[2] \in 1 .. Len(there[now]) /\ to = <<now, to[2]>>
        BY <1>0, <2>2, <3>3
      <3>6. Moving(there)
        <4>1. OldOK(there)
          BY <1>0, <3>3, <3>4, LongerForwards DEF Moving, OldOK
        <4>2. Used(there[now]) <= end
          BY <1>0, <2>2, <3>2, <3>3, RoomForCopy
        <4> QED
          BY <3>3, <4>1, <4>2 DEF Moving
      <3>7. CASE r.heap = there /\ r.val = to
        BY <3>4, <3>5, <3>6, <3>7 DEF Into
      <3>8. CASE r.heap = moved /\ r.val = to
        <4>0. fwd \in Cells
          <5>1. to \in Values0 /\ "FWD" \in Types /\ c.id \in Ids
            BY <1>0, <2>2 DEF Values0, Types, Cells
          <5>2. <<to>> \in Seq(Values0)
            BY <5>1
          <5> QED
            BY <5>1, <5>2 DEF Cells
        <4> HIDE DEF fwd, there
        <4>1. moved = [there EXCEPT ![Old] = [there[Old] EXCEPT ![n] = fwd]]
          BY <1>0, <2>1, <3>3 DEF Heaps
        <4>2. there[Old] \in Seq(Cells) /\ n \in DOMAIN there[Old] /\ n \in 1 .. Len(there[Old])
          BY <1>0, <2>1, <3>3
        <4>3. [there[Old] EXCEPT ![n] = fwd] \in Seq(Cells)
              /\ Len([there[Old] EXCEPT ![n] = fwd]) = Len(there[Old])
          BY <4>0, <4>2
        <4>4. /\ moved \in Heaps /\ moved[now] = there[now] /\ moved[Third] = there[Third]
              /\ moved[Old] = [there[Old] EXCEPT ![n] = fwd]
          BY <1>0, <3>3, <4>1, <4>3 DEF Heaps
        <4> HIDE DEF moved
        <4>5. Longer(there, moved)
          BY <4>3, <4>4 DEF Longer
        <4>6. Longer(h, moved)
          BY <3>3, <3>4, <4>3, <4>4 DEF Longer
        <4>7. Into(moved, now, to)
          BY <3>5, <4>4 DEF Into
        <4>8. OldOK(moved)
          <5> SUFFICES ASSUME NEW i \in 1 .. Len(moved[Old])
                       PROVE  Unscanned(moved, moved[Old][i]) \/ Forward(moved, moved[Old][i])
            BY DEF OldOK
          <5>1. CASE i = n
            <6>1. moved[Old][i] = fwd
              BY <4>2, <4>4, <5>1
            <6> QED
              BY <3>5, <4>4, <6>1 DEF Forward, fwd
          <5>2. CASE i # n
            <6>1. moved[Old][i] = there[Old][i] /\ i \in 1 .. Len(there[Old])
              BY <4>2, <4>3, <4>4, <5>2
            <6>2. Unscanned(there, there[Old][i]) \/ Forward(there, there[Old][i])
              BY <3>6, <6>1 DEF Moving, OldOK
            <6> QED
              BY <3>3, <4>4, <4>5, <6>1, <6>2, LongerForwards
          <5> QED
            BY <5>1, <5>2
        <4>9. Moving(moved)
          BY <3>6, <4>4, <4>8 DEF Moving
        <4> QED
          BY <3>8, <4>6, <4>7, <4>9
      <3> QED
        BY <1>2, <2>4, <3>2, <3>7, <3>8 DEF Copied
    <2> QED
      BY <2>3, <2>4
  <1> QED
    BY <1>1, <1>2

----------------------------------------------------------------------------
(* Writing a field, and scanning a cell                                    *)

\* A field of a cell of the working heap is written: nothing else changes, and
\* no value points elsewhere for it.
FieldSet(g, i, k, v, w) ==
  /\ w \in Heaps /\ Len(w[now]) = Len(g[now]) /\ Used(w[now]) = Used(g[now])
  /\ \A s \in Heap : s # now => w[s] = g[s]
  /\ \A m \in 1 .. Len(g[now]) : m # i => w[now][m] = g[now][m]
  /\ w[now][i].ty = g[now][i].ty /\ DOMAIN w[now][i].args = DOMAIN g[now][i].args
  /\ \A j \in DOMAIN g[now][i].args :
       w[now][i].args[j] = IF j = k THEN v ELSE g[now][i].args[j]
  /\ \A s \in Heap : \A u : Into(w, s, u) <=> Into(g, s, u)

LEMMA FieldWritten ==
  ASSUME now \in Heap, NEW g \in Heaps, NEW i \in 1 .. Len(g[now]),
         NEW k \in DOMAIN g[now][i].args, NEW v \in Values0
  PROVE  FieldSet(g, i, k, v, [g EXCEPT ![now][i].args[k] = v])
  <1> DEFINE c == g[now][i]
             args == [c.args EXCEPT ![k] = v]
             d == [c EXCEPT !.args = args]
             w == [g EXCEPT ![now][i].args[k] = v]
  <1>1. g[now] \in Seq(Cells) /\ c \in Cells /\ c.args \in Seq(Values0)
    <2>1. g[now] \in Seq(Cells)
      BY DEF Heaps
    <2>2. c \in Cells
      BY <2>1
    <2> QED
      BY <2>1, <2>2 DEF Cells
  <1>2. args \in Seq(Values0) /\ Len(args) = Len(c.args) /\ DOMAIN args = DOMAIN c.args
        /\ \A j \in DOMAIN c.args : args[j] = IF j = k THEN v ELSE c.args[j]
    BY <1>1
  <1> HIDE DEF args
  <1>3. d \in Cells /\ d.args = args /\ d.ty = c.ty
    BY <1>1, <1>2 DEF Cells
  <1>4. Size(d) = Size(c)
    BY <1>2, <1>3 DEF Size
  <1>5. w = [g EXCEPT ![now] = [g[now] EXCEPT ![i] = d]]
    BY DEF args
  <1> HIDE DEF d, w
  <1>6. [g[now] EXCEPT ![i] = d] \in Seq(Cells) /\ Len([g[now] EXCEPT ![i] = d]) = Len(g[now])
    BY <1>1, <1>3
  <1>7. w \in Heaps /\ w[now] = [g[now] EXCEPT ![i] = d] /\ \A s \in Heap : s # now => w[s] = g[s]
    BY <1>5, <1>6 DEF Heaps
  <1>8. w[now][i] = d /\ \A m \in 1 .. Len(g[now]) : m # i => w[now][m] = g[now][m]
    BY <1>1, <1>7
  <1>9. Used(w[now]) = Used(g[now])
    <2>1. w[now] \in Seq(Cells) /\ Len(w[now]) = Len(g[now])
      BY <1>6, <1>7
    <2>2. \A m \in 1 .. Len(w[now]) : Size(w[now][m]) = Size(g[now][m])
      BY <1>4, <1>8, <2>1
    <2> QED
      BY <1>1, <2>1, <2>2, UsedSame
  <1>10. ASSUME NEW s \in Heap, NEW u
         PROVE  Into(w, s, u) <=> Into(g, s, u)
    <2>1. Len(w[s]) = Len(g[s])
      BY <1>6, <1>7
    <2> QED
      BY <2>1 DEF Into
  <1>11. FieldSet(g, i, k, v, w)
    BY <1>2, <1>3, <1>6, <1>7, <1>8, <1>9, <1>10 DEF FieldSet
  <1> QED
    BY <1>11 DEF w

\* The step from the field k - 1 to the field k.
ScanNext(i, k, a) ==
  LET r == Copied(a.heap, heap[now][i].args[k])
  IN  IF a.fate # "run" THEN a
      ELSE [heap |-> [r.heap EXCEPT ![now][i].args[k] = r.val],
            marks |-> a.marks \cup r.marks, fate |-> r.fate]

\* The recursion of Scanned, up to the field n.
ScanTo(i, n, f) ==
  f = [k \in 0 .. n |-> IF k = 0 THEN [heap |-> heap, marks |-> {}, fate |-> "run"]
                        ELSE ScanNext(i, k, f[k - 1])]

LEMMA ScanSteps ==
  ASSUME NEW i, NEW n \in Nat, NEW f, ScanTo(i, n, f)
  PROVE  /\ f[0] = [heap |-> heap, marks |-> {}, fate |-> "run"]
         /\ \A k \in 1 .. n : f[k] = ScanNext(i, k, f[k - 1])
  <1>1. 0 \in 0 .. n /\ \A k \in 1 .. n : k \in 0 .. n /\ k # 0
    OBVIOUS
  <1>2. \A k \in 0 .. n : f[k] = IF k = 0 THEN [heap |-> heap, marks |-> {}, fate |-> "run"]
                                 ELSE ScanNext(i, k, f[k - 1])
    BY DEF ScanTo
  <1> QED
    BY <1>1, <1>2

LEMMA ScanStops ==
  ASSUME NEW i, NEW k, NEW a, a.fate # "run"
  PROVE  ScanNext(i, k, a) = a
  BY DEF ScanNext

LEMMA ScanExists ==
  ASSUME NEW i, NEW n \in Nat
  PROVE  \E f : ScanTo(i, n, f)
  <1> DEFINE Bad == {m \in Nat : ~ \E f : ScanTo(i, m, f)}
             start == [heap |-> heap, marks |-> {}, fate |-> "run"]
  <1>1. SUFFICES ASSUME Bad # {} PROVE FALSE
    OBVIOUS
  <1>2. PICK m \in Bad : \A k \in Bad : m <= k
    <2>1. Bad \subseteq Nat
      OBVIOUS
    <2> HIDE DEF Bad
    <2> QED
      BY <1>1, <2>1, LeastNumber
  <1>3. m # 0
    <2> DEFINE f0 == [k \in 0 .. 0 |-> start]
    <2>1. f0 = [k \in 0 .. 0 |-> IF k = 0 THEN start ELSE ScanNext(i, k, f0[k - 1])]
      OBVIOUS
    <2> HIDE DEF f0, start
    <2>2. ScanTo(i, 0, f0)
      BY <2>1 DEF start, ScanTo
    <2> QED
      BY <2>2
  <1>4. m - 1 \in Nat /\ m \in Nat
    BY <1>3
  <1>5. PICK f : ScanTo(i, m - 1, f)
    BY <1>2, <1>4
  <1> HIDE DEF start
  <1> DEFINE g == [k \in 0 .. m |-> IF k = m THEN ScanNext(i, m, f[m - 1]) ELSE f[k]]
  <1>6. ScanTo(i, m, g)
    <2>1. f = [k \in 0 .. m - 1 |-> IF k = 0 THEN start ELSE ScanNext(i, k, f[k - 1])]
      BY <1>5 DEF ScanTo, start
    <2>2. ASSUME NEW k \in 0 .. m
          PROVE  g[k] = IF k = 0 THEN start ELSE ScanNext(i, k, g[k - 1])
      <3>1. CASE k = m
        BY <1>3, <1>4, <3>1
      <3>2. CASE k # m
        <4>1. k \in 0 .. m - 1 /\ g[k] = f[k]
          BY <1>4, <3>2
        <4>2. k # 0 => g[k - 1] = f[k - 1]
          BY <1>4, <4>1
        <4> HIDE DEF g
        <4>3. f[k] = IF k = 0 THEN start ELSE ScanNext(i, k, f[k - 1])
          BY <2>1, <4>1
        <4> QED
          BY <4>1, <4>2, <4>3
      <3> QED
        BY <3>1, <3>2
    <2> HIDE DEF g
    <2>3. g = [k \in 0 .. m |-> g[k]]
      BY DEF g
    <2>4. g = [k \in 0 .. m |-> IF k = 0 THEN start ELSE ScanNext(i, k, g[k - 1])]
      BY <2>2, <2>3
    <2> QED
      BY <2>4 DEF start, ScanTo
  <1> QED
    BY <1>6

\* What Scanned computes is the last value of a recursion that exists.
LEMMA ScannedIsLast ==
  ASSUME NEW i, Scans(heap[now][i]) \in Nat
  PROVE  \E f : ScanTo(i, Scans(heap[now][i]), f) /\ Scanned(i) = f[Scans(heap[now][i])]
  <1> DEFINE n == Scans(heap[now][i])
             after == CHOOSE f : ScanTo(i, n, f)
  <1>1. \E f : ScanTo(i, n, f)
    BY ScanExists
  <1>2. ScanTo(i, n, after)
    BY <1>1
  <1>3. Scanned(i) = after[n]
    BY DEF Scanned, ScanTo, ScanNext
  <1> QED
    BY <1>2, <1>3

\* The heaps when the first k fields of the cell i are scanned.
PartScanned(h, i, k) ==
  /\ Moving(h)
  /\ Len(h[Old]) = Len(heap[Old]) /\ Len(h[now]) >= Len(heap[now])
  /\ \A m \in 1 .. Len(h[now]) : /\ m < i => Clean(h, h[now][m])
                                 /\ m > i => Unscanned(h, h[now][m])
  /\ h[now][i].ty # "FWD" /\ DOMAIN h[now][i].args = DOMAIN heap[now][i].args
  /\ \A j \in DOMAIN heap[now][i].args : j <= k => Into(h, now, h[now][i].args[j])

LEMMA IntoValue ==
  ASSUME NEW h \in Heaps, NEW s \in Heap, NEW v, Into(h, s, v)
  PROVE  v \in Values0
  <1>1. Len(h[s]) \in Nat
    BY DEF Heaps
  <1> QED
    BY <1>1 DEF Into, Values0

\* The heaps when the field k of the cell i is scanned.
FieldPut(r, i, k) == [r.heap EXCEPT ![now][i].args[k] = r.val]
FieldCopy(h, i, k) == FieldPut(Copied(h, heap[now][i].args[k]), i, k)

LEMMA ScanField ==
  ASSUME now \in Heap, end \in Nat, heap \in Heaps, NEW i \in 1 .. Len(heap[now]),
         Unscanned(heap, heap[now][i]), NEW k \in DOMAIN heap[now][i].args, k \in Nat \ {0},
         NEW h, PartScanned(h, i, k - 1),
         Copied(h, heap[now][i].args[k]).fate = "run"
  PROVE  PartScanned(FieldCopy(h, i, k), i, k)
  <1> DEFINE v == heap[now][i].args[k]
             r == Copied(h, v)
             g == r.heap
             w == [g EXCEPT ![now][i].args[k] = r.val]
  <1>0. Moving(h) /\ h \in Heaps /\ Len(heap[now]) \in Nat
    BY DEF PartScanned, Moving, Heaps
  <1>1. Into(h, Old, v)
    BY DEF Unscanned, Into, PartScanned
  <1>2. Moving(g) /\ Longer(h, g) /\ Into(g, now, r.val) /\ g \in Heaps
    BY <1>0, <1>1, CopiedMoves DEF Moving
  <1>3. r.val \in Values0
    BY <1>2, IntoValue
  <1> DEFINE u == r.val
  <1> HIDE DEF g, u, r
  <1>4. /\ Len(g[now]) >= Len(h[now]) /\ Len(h[now]) \in Nat /\ Len(g[now]) \in Nat
        /\ \A m \in 1 .. Len(h[now]) : g[now][m] = h[now][m]
        /\ \A m \in 1 .. Len(g[now]) : m > Len(h[now]) => Unscanned(g, g[now][m])
        /\ \A x : Into(h, now, x) => Into(g, now, x)
    BY <1>0, <1>2, LongerKeeps
  <1>5. i \in 1 .. Len(h[now]) /\ i \in 1 .. Len(g[now]) /\ g[now][i] = h[now][i]
    BY <1>0, <1>4 DEF PartScanned
  <1>6. k \in DOMAIN g[now][i].args
    BY <1>5 DEF PartScanned
  <1>7. FieldSet(g, i, k, u, w)
    BY <1>2, <1>3, <1>5, <1>6, FieldWritten DEF u
  <1> HIDE DEF w
  <1> USE DEF FieldSet
  <1>8. Old \in Heap /\ Third \in Heap /\ Old # now /\ Third # now
    BY ThreeHeaps
  <1>9. \A c : /\ Unscanned(g, c) => Unscanned(w, c)
               /\ Clean(g, c) => Clean(w, c)
               /\ Forward(g, c) => Forward(w, c)
    BY <1>7, <1>8 DEF Unscanned, Clean, Forward
  <1>10. Moving(w)
    <2>1. OldOK(w)
      BY <1>2, <1>7, <1>8, <1>9 DEF Moving, OldOK
    <2> QED
      BY <1>2, <1>7, <1>8, <2>1 DEF Moving
  <1>11. ASSUME NEW m \in 1 .. Len(w[now])
         PROVE  /\ m < i => Clean(w, w[now][m])
                /\ m > i => Unscanned(w, w[now][m])
    <2>1. CASE m <= Len(h[now])
      <3>1. /\ m < i => Clean(h, h[now][m])
            /\ m > i => Unscanned(h, h[now][m])
        BY <1>4, <1>7, <2>1 DEF PartScanned
      <3>2. /\ m < i => Clean(g, g[now][m])
            /\ m > i => Unscanned(g, g[now][m])
        BY <1>0, <1>2, <1>4, <1>7, <2>1, <3>1, LongerForwards
      <3> QED
        BY <1>5, <1>7, <1>9, <3>2
    <2>2. CASE m > Len(h[now])
      BY <1>4, <1>5, <1>7, <1>9, <2>2
    <2> QED
      BY <1>4, <1>7, <2>1, <2>2
  <1>12. ASSUME NEW j \in DOMAIN heap[now][i].args, j <= k
         PROVE  Into(w, now, w[now][i].args[j])
    <2>1. DOMAIN g[now][i].args = DOMAIN heap[now][i].args
      BY <1>5 DEF PartScanned
    <2>2. CASE j = k
      <3>1. w[now][i].args[j] = u /\ Into(g, now, u)
        BY <1>2, <1>6, <1>7, <2>2 DEF u
      <3> QED
        BY <1>7, <3>1
    <2>3. CASE j # k
      <3>1. heap[now][i].args \in Seq(Values0)
        <4>1. heap[now] \in Seq(Cells)
          BY DEF Heaps
        <4>2. heap[now][i] \in Cells
          BY <4>1
        <4> QED
          BY <4>2 DEF Cells
      <3>2. j \in Nat /\ k \in Nat /\ j <= k - 1
        BY <1>12, <2>3, <3>1
      <3>3. Into(h, now, h[now][i].args[j])
        BY <3>2 DEF PartScanned
      <3>4. w[now][i].args[j] = h[now][i].args[j]
        BY <1>5, <1>7, <2>1, <2>3
      <3> QED
        BY <1>4, <1>7, <3>3, <3>4
    <2> QED
      BY <2>2, <2>3
  <1>13. Len(w[Old]) = Len(heap[Old]) /\ Len(w[now]) >= Len(heap[now])
    BY <1>0, <1>2, <1>4, <1>7, <1>8 DEF PartScanned, Longer
  <1>14. w[now][i].ty # "FWD" /\ DOMAIN w[now][i].args = DOMAIN heap[now][i].args
    BY <1>5, <1>7 DEF PartScanned
  <1>15. PartScanned(w, i, k)
    BY <1>10, <1>11, <1>12, <1>13, <1>14 DEF PartScanned
  <1>16. w = FieldPut(r, i, k)
    <2> HIDE DEF r
    <2> QED
      BY DEF w, g, FieldPut
  <1> HIDE DEF w
  <1> QED
    BY <1>15, <1>16 DEF r, FieldCopy

LEMMA ScanNextScans ==
  ASSUME now \in Heap, end \in Nat, heap \in Heaps, NEW i \in 1 .. Len(heap[now]),
         Unscanned(heap, heap[now][i]), NEW k \in DOMAIN heap[now][i].args, k \in Nat \ {0},
         NEW a, a.fate = "run", PartScanned(a.heap, i, k - 1), ScanNext(i, k, a).fate = "run"
  PROVE  PartScanned(ScanNext(i, k, a).heap, i, k)
  <1> DEFINE h == a.heap
             r == Copied(h, heap[now][i].args[k])
  <1>1. ScanNext(i, k, a) = [heap |-> FieldCopy(h, i, k), marks |-> a.marks \cup r.marks, fate |-> r.fate]
    BY DEF ScanNext, FieldCopy, FieldPut
  <1>2. ScanNext(i, k, a).heap = FieldCopy(h, i, k) /\ r.fate = "run"
    <2> HIDE DEF r
    <2> QED
      BY <1>1
  <1> HIDE DEF h
  <1>3. PartScanned(h, i, k - 1)
    BY DEF h
  <1>4. PartScanned(FieldCopy(h, i, k), i, k)
    BY <1>2, <1>3, ScanField
  <1> QED
    BY <1>2, <1>4

LEMMA ScanFields ==
  ASSUME now \in Heap, end \in Nat, heap \in Heaps, NEW i \in 1 .. Len(heap[now]),
         Unscanned(heap, heap[now][i]), PartScanned(heap, i, 0),
         Scanned(i).fate = "run"
  PROVE  PartScanned(Scanned(i).heap, i, Len(heap[now][i].args))
  <1> DEFINE c == heap[now][i]
             n == Len(c.args)
  <1>1. c.args \in Seq(Values0) /\ n \in Nat /\ DOMAIN c.args = 1 .. n
    <2>1. heap[now] \in Seq(Cells)
      BY DEF Heaps
    <2>2. c \in Cells
      BY <2>1
    <2>3. c.args \in Seq(Values0)
      BY <2>2 DEF Cells
    <2> QED
      BY <2>3
  <1>2. PICK f : ScanTo(i, n, f) /\ Scanned(i) = f[n]
    <2>1. Scans(c) = n
      BY DEF Scans
    <2> HIDE DEF n
    <2> QED
      BY <1>1, <2>1, ScannedIsLast
  <1> HIDE DEF n
  <1>3. /\ f[0] = [heap |-> heap, marks |-> {}, fate |-> "run"]
        /\ \A k \in 1 .. n : f[k] = ScanNext(i, k, f[k - 1])
    BY <1>1, <1>2, ScanSteps
  <1> DEFINE Bad == {k \in 0 .. n : ~(f[k].fate = "run" => PartScanned(f[k].heap, i, k))}
  <1>4. Bad = {}
    <2> SUFFICES ASSUME Bad # {} PROVE FALSE
      OBVIOUS
    <2>1. PICK k \in Bad : \A j \in Bad : k <= j
      <3>1. Bad \subseteq Nat
        BY <1>1
      <3> HIDE DEF Bad
      <3> QED
        BY <3>1, LeastNumber
    <2>2. k \in 0 .. n /\ f[k].fate = "run" /\ ~PartScanned(f[k].heap, i, k)
      BY <2>1
    <2>3. k # 0
      BY <1>3, <2>2
    <2>4. k - 1 \in 0 .. n /\ k \in Nat \ {0} /\ k \in DOMAIN c.args /\ k \in 1 .. n
      BY <1>1, <2>2, <2>3
    <2>5. f[k] = ScanNext(i, k, f[k - 1])
      BY <1>3, <2>4
    <2>6. PICK a : a = f[k - 1]
      OBVIOUS
    <2>7. a.fate = "run"
      BY <2>2, <2>5, <2>6, ScanStops
    <2>8. PartScanned(a.heap, i, k - 1)
      <3>1. ~(k <= k - 1)
        BY <2>4
      <3>2. k - 1 \notin Bad
        <4> HIDE DEF Bad
        <4> QED
          BY <2>1, <3>1
      <3> QED
        BY <2>4, <2>6, <2>7, <3>2
    <2> HIDE DEF Bad
    <2>9. PartScanned(ScanNext(i, k, a).heap, i, k)
      <3>1. ScanNext(i, k, a).fate = "run"
        BY <2>2, <2>5, <2>6
      <3> QED
        BY <2>4, <2>7, <2>8, <3>1, ScanNextScans
    <2> QED
      BY <2>2, <2>5, <2>6, <2>9
  <1>5. n \in 0 .. n
    BY <1>1
  <1> QED
    BY <1>2, <1>4, <1>5 DEF n

----------------------------------------------------------------------------
(* The inductive invariant                                                 *)

\* An allocation that waits for a collection.
Calls == {c \in [root: Root, ty: Types, from: Seq(Root), held: Seq(Values0)] :
             c.ty # "FWD" /\ DOMAIN c.from = DOMAIN c.held}
Waiting == pc \in {"again", "allocate"} \/ (pc \in {"roots", "cheney"} /\ back # "run")

Frame ==
  /\ now \in Heap /\ end \in Nat /\ size \in Nat /\ next \in Nat
  /\ heap \in Heaps /\ root \in [Root -> Values0]
  /\ pc \in {"run", "allocate", "again", "roots", "cheney"}
  /\ back \in {"run", "allocate", "again"}
  /\ Waiting => call \in Calls

\* The program runs: one heap, and nothing that points out of it.
Mutating ==
  /\ \A x \in Root : Into(heap, now, root[x])
  /\ \A i \in 1 .. Len(heap[now]) : Clean(heap, heap[now][i])
  /\ heap[Old] = <<>> /\ heap[Third] = <<>>
  /\ Used(heap[now]) <= end

\* The roots before next are moved, the cells are not scanned.
CopyingRoots ==
  /\ Moving(heap) /\ next >= 1
  /\ \A x \in Root : IF x < next THEN Into(heap, now, root[x]) ELSE Into(heap, Old, root[x])
  /\ \A i \in 1 .. Len(heap[now]) : Unscanned(heap, heap[now][i])

\* The roots are moved, and the cells before next are scanned.
Scanning ==
  /\ Moving(heap) /\ next >= 1 /\ next <= Len(heap[now]) + 1
  /\ \A x \in Root : Into(heap, now, root[x])
  /\ \A i \in 1 .. Len(heap[now]) :
       IF i < next THEN Clean(heap, heap[now][i]) ELSE Unscanned(heap, heap[now][i])

Phases ==
  /\ pc \in {"run", "allocate", "again"} => Mutating
  /\ pc = "roots" => CopyingRoots
  /\ pc = "cheney" => Scanning

CollectorInv == fate = "run" => Frame /\ Phases

----------------------------------------------------------------------------
(* Steps                                                                   *)

LEMMA RootNumbers == Root \subseteq Nat \ {0}
  <1>1. Cardinality(Root) \in Nat /\ Root = 1 .. Cardinality(Root)
    BY CollectorAssumption, FS_CardinalityType
  <1> QED
    BY <1>1

LEMMA InitCollector == Init => CollectorInv
  <1> SUFFICES ASSUME Init PROVE Frame /\ Phases
    BY DEF CollectorInv
  <1>1. <<>> \in Seq(Cells) /\ NULL \in Values0 /\ HeapSize \in Nat
    BY CollectorAssumption DEF Values0
  <1>2. Frame
    BY <1>1 DEF Init, Frame, Heap, Heaps, Waiting
  <1>3. Old \in Heap /\ Third \in Heap
    BY <1>2, ThreeHeaps DEF Frame
  <1>4. heap[now] = <<>> /\ heap[Old] = <<>> /\ heap[Third] = <<>>
    BY <1>2, <1>3 DEF Init, Heap, Frame
  <1>5. Used(heap[now]) <= end
    <2>1. Used(<<>>) = 0
      BY <1>1, UsedNat
    <2> QED
      BY <1>1, <1>4, <2>1 DEF Init
  <1>6. Mutating
    BY <1>4, <1>5 DEF Init, Mutating, Into
  <1> QED
    BY <1>2, <1>6 DEF Init, Phases

\* idris_gc turns the heaps round: what was the working heap is the old one.
LEMMA CollectionStarts ==
  ASSUME Frame, Mutating, NEW s \in Nat, NEW to \in {"run", "allocate", "again"},
         idris_gc(s, to), to # "run" => call' \in Calls
  PROVE  CollectorInv'
  <1>1. /\ now' = (now + 1) % 3 /\ end' = s /\ size' = s /\ pc' = "roots" /\ back' = to
        /\ next' = 1 /\ heap' = heap /\ root' = root /\ fate' = fate
    BY DEF idris_gc, FirstRoot
  <1>2. now' \in Heap /\ now' = Third /\ Old' = now /\ Third' = Old
    <2>1. now = 0 \/ now = 1 \/ now = 2
      BY DEF Frame, Heap
    <2> QED
      BY <1>1, <2>1 DEF Heap, Old, Third
  <1>3. Frame'
    BY <1>1, <1>2 DEF Frame, Waiting
  <1>4. \A v : Into(heap, now, v) => Into(heap, Old, v)'
    BY <1>1, <1>2 DEF Into
  <1>5. \A c : Clean(heap, c) => Unscanned(heap, c)'
    BY <1>4 DEF Clean, Unscanned
  <1>6. heap'[Third'] = <<>> /\ heap'[now'] = <<>>
    BY <1>1, <1>2 DEF Mutating
  <1>7. OldOK(heap)'
    BY <1>1, <1>2, <1>5 DEF OldOK, Mutating
  <1>8. Used(heap'[now']) <= end'
    <2>1. <<>> \in Seq(Cells)
      OBVIOUS
    <2>2. Used(<<>>) = 0
      BY <2>1, UsedNat
    <2> QED
      BY <1>1, <1>6, <2>2
  <1>9. Moving(heap)'
    BY <1>3, <1>6, <1>7, <1>8 DEF Moving, Frame
  <1>10. CopyingRoots'
    <2>1. \A x \in Root : ~(x < 1)
      BY RootNumbers
    <2>2. \A x \in Root : Into(heap, Old, root[x])'
      BY <1>1, <1>4 DEF Mutating
    <2> QED
      BY <1>1, <1>6, <1>9, <2>1, <2>2 DEF CopyingRoots
  <1> QED
    BY <1>1, <1>3, <1>10 DEF CollectorInv, Phases

\* What a step that leaves the heaps where they are says of its new state.
LEMMA SameHeaps ==
  ASSUME now' = now, end' = end
  PROVE  /\ Old' = Old /\ Third' = Third
         /\ \A c : /\ Clean(heap, c)' <=> Clean(heap', c)
                   /\ Unscanned(heap, c)' <=> Unscanned(heap', c)
         /\ Moving(heap)' <=> Moving(heap')
  <1>1. Old' = Old /\ Third' = Third
    BY DEF Old, Third
  <1>2. \A c : /\ Clean(heap, c)' <=> Clean(heap', c)
               /\ Unscanned(heap, c)' <=> Unscanned(heap', c)
               /\ Forward(heap, c)' <=> Forward(heap', c)
    BY <1>1 DEF Clean, Unscanned, Forward, Into
  <1>3. OldOK(heap)' <=> OldOK(heap')
    BY <1>1, <1>2 DEF OldOK
  <1> QED
    BY <1>1, <1>2, <1>3 DEF Moving

----------------------------------------------------------------------------
(* The collection                                                          *)

LEMMA CopyRootInv ==
  ASSUME Frame, CopyingRoots, fate = "run", CopyRoot
  PROVE  CollectorInv'
  <1> DEFINE v == root[next]
             r == Copied(heap, v)
  <1>0. /\ next \in Root /\ heap' = r.heap /\ root' = [root EXCEPT ![next] = r.val]
        /\ fate' = r.fate /\ next' = next + 1
        /\ UNCHANGED <<now, end, size, pc, call, back>> /\ pc = "roots"
    BY DEF CopyRoot, At
  <1> SUFFICES ASSUME r.fate = "run" PROVE Frame' /\ Phases'
    BY <1>0 DEF CollectorInv
  <1>1. now \in Heap /\ end \in Nat /\ heap \in Heaps /\ next \in Nat
    BY DEF Frame
  <1>2. Into(heap, Old, v)
    BY <1>0, <1>1 DEF CopyingRoots
  <1>3. Moving(r.heap) /\ Longer(heap, r.heap) /\ Into(r.heap, now, r.val) /\ r.heap \in Heaps
    BY <1>1, <1>2, CopiedMoves DEF CopyingRoots, Moving
  <1>4. r.val \in Values0
    BY <1>1, <1>3, IntoValue
  <1> HIDE DEF r
  <1>5. Frame'
    BY <1>0, <1>1, <1>3, <1>4 DEF Frame, Waiting
  <1>6. /\ Old' = Old /\ (Moving(heap)' <=> Moving(heap'))
        /\ \A c : Unscanned(heap, c)' <=> Unscanned(heap', c)
    BY <1>0, SameHeaps
  <1>7. /\ Len(heap'[now]) >= Len(heap[now]) /\ Len(heap[now]) \in Nat /\ Len(heap'[now]) \in Nat
        /\ \A m \in 1 .. Len(heap[now]) : heap'[now][m] = heap[now][m]
        /\ \A m \in 1 .. Len(heap'[now]) : m > Len(heap[now]) => Unscanned(heap', heap'[now][m])
        /\ \A x : Into(heap, Old, x) <=> Into(heap', Old, x)
        /\ \A x : Into(heap, now, x) => Into(heap', now, x)
    BY <1>0, <1>1, <1>3, LongerKeeps
  <1>8. \A m \in 1 .. Len(heap'[now]) : Unscanned(heap', heap'[now][m])
    <2> SUFFICES ASSUME NEW m \in 1 .. Len(heap'[now]), m <= Len(heap[now])
                 PROVE  Unscanned(heap', heap'[now][m])
      BY <1>7
    <2>1. m \in 1 .. Len(heap[now])
      BY <1>7
    <2>2. Unscanned(heap, heap[now][m])
      BY <2>1 DEF CopyingRoots
    <2> QED
      BY <1>0, <1>1, <1>3, <1>7, <2>1, <2>2, LongerForwards
  <1>9. ASSUME NEW x \in Root
        PROVE  IF x < next' THEN Into(heap', now, root'[x]) ELSE Into(heap', Old, root'[x])
    <2>1. x \in Nat /\ root \in [Root -> Values0]
      BY RootNumbers DEF Frame
    <2>2. CASE x = next
      BY <1>0, <1>1, <1>3, <2>1, <2>2
    <2>3. CASE x # next
      <3>1. root'[x] = root[x] /\ (x < next' <=> x < next)
        BY <1>0, <1>1, <2>1, <2>3
      <3> QED
        BY <1>7, <3>1 DEF CopyingRoots
    <2> QED
      BY <2>2, <2>3
  <1>10. CopyingRoots'
    <2>1. now' = now /\ next' >= 1
      BY <1>0, <1>1
    <2>2. \A x \in Root : IF x < next' THEN Into(heap, now, root[x])'
                          ELSE Into(heap, Old, root[x])'
      BY <1>6, <1>9, <2>1 DEF Into
    <2>3. Moving(heap)'
      BY <1>0, <1>3, <1>6
    <2> QED
      BY <1>6, <1>8, <2>1, <2>2, <2>3 DEF CopyingRoots
  <1> QED
    BY <1>0, <1>5, <1>10 DEF Phases

LEMMA RootsDoneInv ==
  ASSUME Frame, CopyingRoots, fate = "run", RootsDone
  PROVE  CollectorInv'
  <1>1. /\ next \notin Root /\ pc' = "cheney" /\ next' = 1 /\ pc = "roots"
        /\ UNCHANGED <<heap, now, end, size, root, call, back, fate>>
    BY DEF RootsDone, At
  <1>2. Frame'
    BY <1>1 DEF Frame, Waiting
  <1>3. \A x \in Root : x < next
    <2>1. Cardinality(Root) \in Nat /\ Root = 1 .. Cardinality(Root) /\ next \in Nat /\ next >= 1
      BY CollectorAssumption, FS_CardinalityType DEF Frame, CopyingRoots
    <2> QED
      BY <1>1, <2>1
  <1>4. Moving(heap)' /\ \A c : Unscanned(heap, c)' <=> Unscanned(heap, c)
    BY <1>1, SameHeaps DEF CopyingRoots
  <1>5. Scanning'
    <2>1. \A x \in Root : Into(heap, now, root[x])'
      BY <1>1, <1>3 DEF CopyingRoots, Into
    <2>2. \A i \in 1 .. Len(heap[now]) : ~(i < 1)
      OBVIOUS
    <2>3. Len(heap[now]) \in Nat
      BY DEF Frame, Heaps
    <2>4. (next >= 1 /\ next <= Len(heap[now]) + 1)'
      BY <1>1, <2>3
    <2>5. (\A i \in 1 .. Len(heap[now]) :
              IF i < next THEN Clean(heap, heap[now][i]) ELSE Unscanned(heap, heap[now][i]))'
      BY <1>1, <1>4, <2>2 DEF CopyingRoots
    <2> QED
      BY <1>4, <2>1, <2>4, <2>5 DEF Scanning
  <1> QED
    BY <1>1, <1>2, <1>5 DEF CollectorInv, Phases

LEMMA ScanCellInv ==
  ASSUME Frame, Scanning, fate = "run", ScanCell
  PROVE  CollectorInv'
  <1> DEFINE s == Scanned(next)
             n == Len(heap[now][next].args)
  <1>0. /\ next <= Len(heap[now]) /\ heap' = s.heap /\ fate' = s.fate /\ next' = next + 1
        /\ UNCHANGED <<now, end, size, root, pc, call, back>> /\ pc = "cheney"
    BY DEF ScanCell, At
  <1> SUFFICES ASSUME s.fate = "run" PROVE Frame' /\ Phases'
    BY <1>0 DEF CollectorInv
  <1>1. /\ now \in Heap /\ end \in Nat /\ heap \in Heaps /\ next \in Nat /\ next >= 1
        /\ Len(heap[now]) \in Nat
    BY DEF Frame, Scanning, Heaps
  <1>2. next \in 1 .. Len(heap[now])
    BY <1>0, <1>1
  <1>3. Unscanned(heap, heap[now][next])
    BY <1>2 DEF Scanning
  <1>4. PartScanned(heap, next, 0)
    <2>1. \A j \in DOMAIN heap[now][next].args : ~(j <= 0)
      <3>1. heap[now][next].args \in Seq(Values0)
        <4>1. heap[now] \in Seq(Cells)
          BY <1>1 DEF Heaps
        <4>2. heap[now][next] \in Cells
          BY <1>2, <4>1
        <4> QED
          BY <4>2 DEF Cells
      <3> QED
        BY <3>1
    <2> QED
      BY <1>1, <1>2, <1>3, <2>1 DEF PartScanned, Scanning, Unscanned
  <1>5. PartScanned(s.heap, next, n)
    BY <1>1, <1>2, <1>3, <1>4, ScanFields
  <1> HIDE DEF s
  <1>6. Frame'
    BY <1>0, <1>1, <1>5 DEF Frame, Waiting, PartScanned, Moving
  <1>7. /\ Old' = Old /\ (Moving(heap)' <=> Moving(heap'))
        /\ \A c : /\ Unscanned(heap, c)' <=> Unscanned(heap', c)
                  /\ Clean(heap, c)' <=> Clean(heap', c)
    BY <1>0, SameHeaps
  <1>8. Clean(heap', heap'[now][next])
    <2>1. heap[now][next].args \in Seq(Values0)
      <3>1. heap[now] \in Seq(Cells)
        BY <1>1 DEF Heaps
      <3>2. heap[now][next] \in Cells
        BY <1>2, <3>1
      <3> QED
        BY <3>2 DEF Cells
    <2>2. \A j \in DOMAIN heap[now][next].args : j <= n
      BY <2>1
    <2> HIDE DEF n
    <2> QED
      BY <1>0, <1>5, <2>2 DEF PartScanned, Clean
  <1>9. ASSUME NEW m \in 1 .. Len(heap'[now])
        PROVE  IF m < next + 1 THEN Clean(heap', heap'[now][m])
               ELSE Unscanned(heap', heap'[now][m])
    <2>1. m \in Nat
      <3>1. Len(heap'[now]) \in Nat
        BY <1>0, <1>1, <1>5 DEF PartScanned, Moving, Heaps
      <3> QED
        BY <3>1
    <2>2. CASE m = next
      BY <1>1, <1>8, <2>2
    <2>3. CASE m # next
      <3>1. m < next + 1 <=> m < next
        BY <1>1, <2>1, <2>3
      <3>2. /\ m < next => Clean(heap', heap'[now][m])
            /\ m > next => Unscanned(heap', heap'[now][m])
        BY <1>0, <1>5 DEF PartScanned
      <3> QED
        BY <1>1, <2>1, <2>3, <3>1, <3>2
    <2> QED
      BY <2>2, <2>3
  <1>10. \A x \in Root : Into(heap', now, root[x])
    <2>1. Len(heap'[now]) >= Len(heap[now]) /\ Len(heap'[now]) \in Nat
      BY <1>0, <1>1, <1>5 DEF PartScanned, Moving, Heaps
    <2> QED
      BY <1>1, <2>1 DEF Scanning, Into
  <1>11. Scanning'
    <2>1. \A x \in Root : Into(heap, now, root[x])'
      BY <1>0, <1>10 DEF Into
    <2>2. Moving(heap)'
      BY <1>0, <1>5, <1>7 DEF PartScanned
    <2>3. (next >= 1 /\ next <= Len(heap[now]) + 1)'
      <3>1. Len(heap'[now]) \in Nat /\ Len(heap'[now]) >= Len(heap[now])
        BY <1>0, <1>1, <1>5 DEF PartScanned, Moving, Heaps
      <3> QED
        BY <1>0, <1>1, <3>1
    <2>4. (\A i \in 1 .. Len(heap[now]) :
              IF i < next THEN Clean(heap, heap[now][i]) ELSE Unscanned(heap, heap[now][i]))'
      BY <1>0, <1>7, <1>9
    <2> QED
      BY <2>1, <2>2, <2>3, <2>4 DEF Scanning
  <1> QED
    BY <1>0, <1>6, <1>11 DEF Phases

LEMMA CollectionEndsInv ==
  ASSUME Frame, Scanning, fate = "run", idris_gcEnds
  PROVE  CollectorInv'
  <1>1. /\ next > Len(heap[now]) /\ size' = NextSize /\ heap' = [heap EXCEPT ![Old] = <<>>]
        /\ pc' = back /\ next' = 0 /\ back' = "run" /\ pc = "cheney"
        /\ UNCHANGED <<now, end, root, call, fate>>
    BY DEF idris_gcEnds, At
  <1>2. /\ now \in Heap /\ heap \in Heaps /\ Old \in Heap /\ Third \in Heap /\ Old # now
        /\ Old # Third /\ Third # now /\ next \in Nat /\ Len(heap[now]) \in Nat
    BY ThreeHeaps DEF Frame, Heaps
  <1>3. /\ heap' \in Heaps /\ heap'[now] = heap[now] /\ heap'[Old] = <<>>
        /\ heap'[Third] = heap[Third]
    BY <1>1, <1>2 DEF Heaps
  <1>4. size' \in Nat
    <2>1. size \in Nat /\ HeapSize \in Nat
      BY CollectorAssumption DEF Frame
    <2> QED
      BY <1>1, <2>1 DEF NextSize
  <1>5. Frame'
    BY <1>1, <1>3, <1>4 DEF Frame, Waiting
  <1>6. \A c : (Clean(heap, c)' <=> Clean(heap', c)) /\ (Clean(heap', c) <=> Clean(heap, c))
    BY <1>1, <1>3, SameHeaps DEF Clean, Into
  <1>7. Mutating'
    <2>1. \A x \in Root : Into(heap, now, root[x])'
      BY <1>1, <1>3 DEF Scanning, Into
    <2>2. \A i \in 1 .. Len(heap[now]) : Clean(heap, heap[now][i])
      BY <1>1, <1>2 DEF Scanning
    <2>3. Old' = Old /\ Third' = Third
      BY <1>1, SameHeaps
    <2>4. Used(heap[now]) <= end /\ heap[Third] = <<>>
      BY DEF Scanning, Moving
    <2> QED
      BY <1>1, <1>3, <1>6, <2>1, <2>2, <2>3, <2>4 DEF Mutating
  <1> QED
    BY <1>1, <1>5, <1>7 DEF CollectorInv, Phases, Frame

----------------------------------------------------------------------------
(* The program                                                             *)

LEMMA ChosenId ==
  ASSUME NEW S, S \subseteq Id
  PROVE  (CHOOSE i \in S : \A j \in S : i <= j) \in Ids
  <1>1. CASE S = {}
    BY <1>1 DEF Ids
  <1>2. CASE S # {}
    <2>1. S \subseteq Nat
      BY CollectorAssumption DEF Id
    <2>2. \E i \in S : \A j \in S : i <= j
      BY <1>2, <2>1, LeastNumber
    <2>3. (CHOOSE i \in S : \A j \in S : i <= j) \in S
      BY <2>2
    <2> QED
      BY <2>3 DEF Ids
  <1> QED
    BY <1>1, <1>2

\* The cell that is made for an allocation holds what the roots hold.
NewCellOf(c, i, new) ==
  /\ new \in Cells /\ new.ty = c.ty /\ new.id = i
  /\ DOMAIN new.args = IF c.ty \in Copying THEN {} ELSE DOMAIN c.held
  /\ Len(new.args) = IF c.ty \in Copying THEN 0 ELSE Len(c.held)
  /\ \A k \in DOMAIN new.args : c.from[k] \in Root /\ new.args[k] = root[c.from[k]]

LEMMA NewCellIs ==
  ASSUME root \in [Root -> Values0], NEW c \in Calls, ~Stale(c), NEW i \in Ids
  PROVE  NewCellOf(c, i, NewCell(c, i))
  <1> DEFINE args == IF c.ty \in Copying THEN <<>> ELSE [k \in DOMAIN c.held |-> Argument(c, k)]
  <1>1. /\ c.ty \in Types /\ c.from \in Seq(Root) /\ c.held \in Seq(Values0)
        /\ DOMAIN c.from = DOMAIN c.held /\ DOMAIN c.held = 1 .. Len(c.held)
        /\ Len(c.held) \in Nat
    BY DEF Calls
  <1>2. NewCell(c, i) = [ty |-> c.ty, id |-> i, args |-> args]
    BY DEF NewCell
  <1>3. CASE c.ty \in Copying
    <2>1. args = <<>>
      BY <1>3
    <2> HIDE DEF args
    <2>2. /\ NewCell(c, i).ty = c.ty /\ NewCell(c, i).id = i /\ NewCell(c, i).args = <<>>
          /\ NewCell(c, i) \in Cells
      BY <1>1, <1>2, <2>1 DEF Cells
    <2> QED
      BY <1>3, <2>2 DEF NewCellOf
  <1>4. CASE c.ty \notin Copying
    <2>1. args = [k \in 1 .. Len(c.held) |-> Argument(c, k)]
      BY <1>1, <1>4
    <2>2. ASSUME NEW k \in 1 .. Len(c.held)
          PROVE  c.from[k] \in Root /\ Argument(c, k) = root[c.from[k]] /\ Argument(c, k) \in Values0
      <3>1. c.from[k] \in Root
        BY <1>1
      <3>2. Argument(c, k) = root[c.from[k]]
        BY <1>1, <1>4 DEF Stale
      <3> QED
        BY <3>1, <3>2
    <2> HIDE DEF args
    <2>3. /\ args \in Seq(Values0) /\ Len(args) = Len(c.held) /\ DOMAIN args = 1 .. Len(c.held)
          /\ \A k \in 1 .. Len(c.held) : args[k] = root[c.from[k]]
      BY <1>1, <2>1, <2>2
    <2>4. /\ NewCell(c, i).ty = c.ty /\ NewCell(c, i).id = i /\ NewCell(c, i).args = args
          /\ NewCell(c, i) \in Cells
      BY <1>1, <1>2, <2>3 DEF Cells
    <2> QED
      BY <1>1, <1>4, <2>2, <2>3, <2>4 DEF NewCellOf
  <1> QED
    BY <1>3, <1>4

\* A new cell goes where there is room for it, and points where the roots do.
LEMMA AllocateInv ==
  ASSUME Frame, Mutating, fate = "run", NEW c \in Calls, Allocate(c)
  PROVE  CollectorInv'
  <1> DEFINE i == CHOOSE i \in Id \ LiveIds : \A j \in Id \ LiveIds : i <= j
             new == NewCell(c, i)
             n == Len(heap[now]) + 1
  <1> SUFFICES ASSUME ~Stale(c) PROVE Frame' /\ Phases'
    BY DEF CollectorInv, Allocate
  <1>1. /\ Room(heap[now], Needed(c)) /\ heap' = [heap EXCEPT ![now] = Append(@, new)]
        /\ root' = [root EXCEPT ![c.root] = <<now, n>>] /\ call' = <<>> /\ fate' = fate
        /\ pc' = "run" /\ UNCHANGED <<now, end, size, back, next, marked>>
    BY DEF Allocate
  <1>2. /\ now \in Heap /\ heap \in Heaps /\ Old \in Heap /\ Third \in Heap /\ Old # now
        /\ Third # now /\ heap[now] \in Seq(Cells) /\ Len(heap[now]) \in Nat
        /\ root \in [Root -> Values0] /\ end \in Nat
    BY ThreeHeaps DEF Frame, Heaps
  <1>3. /\ c.root \in Root /\ c.ty \in Types /\ c.ty # "FWD" /\ c.from \in Seq(Root)
        /\ c.held \in Seq(Values0) /\ DOMAIN c.from = DOMAIN c.held
    BY DEF Calls
  <1>4. i \in Ids
    <2> DEFINE S == Id \ LiveIds
    <2>1. S \subseteq Id
      OBVIOUS
    <2> HIDE DEF S
    <2>2. (CHOOSE j \in S : \A k \in S : j <= k) \in Ids
      BY <2>1, ChosenId
    <2> QED
      BY <2>2 DEF S
  <1> HIDE DEF i
  <1>5. NewCellOf(c, i, new)
    BY <1>2, <1>4, NewCellIs
  <1> HIDE DEF new
  <1>7. \A k \in DOMAIN new.args : Into(heap, now, new.args[k])
    BY <1>5 DEF NewCellOf, Mutating
  <1>9. new \in Cells /\ new.ty = c.ty
    BY <1>5 DEF NewCellOf
  <1>10. Size(new) = Needed(c)
    <2>1. CASE c.ty \in Copying
      BY <1>9, <2>1 DEF Size, Needed, WordsOf, Copying
    <2>2. CASE c.ty \notin Copying
      BY <1>5, <2>2 DEF Size, Needed, NewCellOf
    <2> QED
      BY <2>1, <2>2
  <1>11. /\ heap' \in Heaps /\ heap'[now] = Append(heap[now], new)
         /\ heap'[Old] = heap[Old] /\ heap'[Third] = heap[Third]
    BY <1>1, <1>2, <1>9 DEF Heaps
  <1>12. /\ Len(heap'[now]) = n /\ n \in Nat /\ n \in 1 .. n /\ heap'[now][n] = new
         /\ \A m \in 1 .. n : m # n => m \in 1 .. Len(heap[now]) /\ heap'[now][m] = heap[now][m]
    BY <1>2, <1>9, <1>11
  <1>13. \A v : Into(heap, now, v) => Into(heap', now, v)
    BY <1>2, <1>12 DEF Into
  <1>14. Frame'
    <2>1. <<now, n>> \in Values0
      BY <1>2, <1>12 DEF Values0
    <2> QED
      BY <1>1, <1>2, <1>11, <2>1 DEF Frame, Waiting
  <1>15. Mutating'
    <2>1. Into(heap', now, <<now, n>>)
      BY <1>12 DEF Into
    <2>2. \A x \in Root : Into(heap', now, root'[x])
      BY <1>1, <1>2, <1>13, <2>1 DEF Mutating
    <2>3. \A x \in Root : Into(heap, now, root[x])'
      BY <1>1, <2>2 DEF Into
    <2>4. ASSUME NEW m \in 1 .. n PROVE Clean(heap', heap'[now][m])
      <3>1. CASE m = n
        BY <1>3, <1>7, <1>9, <1>12, <1>13, <3>1 DEF Clean
      <3>2. CASE m # n
        <4>1. Clean(heap, heap[now][m])
          BY <1>12, <3>2 DEF Mutating
        <4> QED
          BY <1>12, <1>13, <3>2, <4>1 DEF Clean
      <3> QED
        BY <3>1, <3>2
    <2>5. /\ Old' = Old /\ Third' = Third
          /\ \A d : Clean(heap, d)' <=> Clean(heap', d)
      BY <1>1, SameHeaps
    <2>6. Used(heap'[now]) <= end
      <3>1. Used(heap'[now]) = Used(heap[now]) + Size(new) /\ Used(heap[now]) \in Nat
        BY <1>2, <1>9, <1>11, UsedAppend, UsedNat
      <3>2. Size(new) \in Nat
        BY <1>9, CellSize
      <3> QED
        BY <1>1, <1>2, <1>10, <3>1, <3>2 DEF Room
    <2> QED
      BY <1>1, <1>11, <1>12, <2>3, <2>4, <2>5, <2>6 DEF Mutating
  <1> QED
    BY <1>1, <1>14, <1>15 DEF Phases

\* Where there is no room the collection starts, with a size that is a number.
LEMMA NoRoomInv ==
  ASSUME Frame, Mutating, NEW c \in Calls, NoRoom(c)
  PROVE  CollectorInv'
  <1>1. Len(c.held) \in Nat /\ size \in Nat
    BY DEF Calls, Frame
  <1>2. Needed(c) \in Nat
    BY <1>1 DEF Needed, WordsOf
  <1> DEFINE s == IF Needed(c) > size THEN size + Needed(c) ELSE size
  <1>3. s \in Nat
    BY <1>1, <1>2
  <1>4. idris_gc(s, "again") /\ call' = c
    BY DEF NoRoom
  <1> HIDE DEF s
  <1> QED
    BY <1>3, <1>4, CollectionStarts

LEMMA CallInv ==
  ASSUME Frame, Mutating, fate = "run", NEW x \in Root, NEW kind \in Kinds,
         NEW from \in [1 .. kind[2] -> Root], Call(x, kind, from)
  PROVE  CollectorInv'
  <1> DEFINE c == [root |-> x, ty |-> kind[1], from |-> from,
                   held |-> [k \in DOMAIN from |-> root[from[k]]]]
  <1>1. c \in Calls
    <2>1. kind[2] \in Nat /\ kind[1] \in Types /\ kind[1] # "FWD"
      BY KindsAssumption DEF Types
    <2>2. from \in Seq(Root) /\ DOMAIN from = 1 .. kind[2]
      BY <2>1
    <2>3. [k \in 1 .. kind[2] |-> root[from[k]]] \in Seq(Values0)
      <3>1. \A k \in 1 .. kind[2] : root[from[k]] \in Values0
        BY DEF Frame
      <3> QED
        BY <2>1, <3>1
    <2> QED
      BY <2>1, <2>2, <2>3 DEF Calls
  <1>2. IF Required(c) THEN Allocate(c) \/ NoRoom(c) ELSE idris_gc(size, "allocate") /\ call' = c
    BY DEF Call
  <1> HIDE DEF c
  <1>3. size \in Nat
    BY DEF Frame
  <1> QED
    BY <1>1, <1>2, <1>3, AllocateInv, NoRoomInv, CollectionStarts

LEMMA AllocationInv ==
  ASSUME Frame, Phases, fate = "run", Allocation
  PROVE  CollectorInv'
  <1>1. pc \in {"again", "allocate"}
    BY DEF Allocation, StillNoRoom, RoomNow, Retry, At
  <1>2. call \in Calls /\ Mutating /\ size \in Nat
    BY <1>1 DEF Frame, Waiting, Phases
  <1>3. CASE StillNoRoom
    <2>1. Len(call.held) \in Nat /\ HeapSize \in Nat
      BY <1>2, CollectorAssumption DEF Calls
    <2>2. Needed(call) \in Nat
      BY <2>1 DEF Needed, WordsOf
    <2>3. size + Needed(call) + HeapSize \in Nat
      BY <1>2, <2>1, <2>2
    <2>4. idris_gc(size + Needed(call) + HeapSize, "allocate") /\ call' = call
      BY <1>3 DEF StillNoRoom
    <2> QED
      BY <1>2, <2>3, <2>4, CollectionStarts
  <1> QED
    BY <1>2, <1>3, AllocateInv, NoRoomInv DEF Allocation, RoomNow, Retry

LEMMA WriteInv ==
  ASSUME Frame, Mutating, fate = "run", NEW x \in Root, NEW k, NEW y \in Root, Write(x, k, y)
  PROVE  CollectorInv'
  <1>1. /\ root[x] # NULL /\ k \in DOMAIN Cell(heap, root[x]).args
        /\ heap' = [heap EXCEPT ![now][root[x][2]].args[k] = root[y]]
        /\ UNCHANGED <<now, end, size, root, pc, call, back, next, fate>> /\ pc = "run"
    BY DEF Write, At
  <1>2. PICK i \in 1 .. Len(heap[now]) : root[x] = <<now, i>>
    BY <1>1 DEF Mutating, Into
  <1>3. /\ now \in Heap /\ heap \in Heaps /\ Old \in Heap /\ Third \in Heap /\ Old # now
        /\ Third # now /\ root[y] \in Values0
    BY ThreeHeaps DEF Frame
  <1>4. FieldSet(heap, i, k, root[y], heap')
    <2>1. k \in DOMAIN heap[now][i].args
      BY <1>1, <1>2 DEF Cell
    <2>2. heap' = [heap EXCEPT ![now][i].args[k] = root[y]]
      BY <1>1, <1>2
    <2> QED
      BY <1>3, <2>1, <2>2, FieldWritten
  <1>5. Frame'
    BY <1>1, <1>4 DEF Frame, Waiting, FieldSet
  <1>6. \A v : Into(heap', now, v) <=> Into(heap, now, v)
    BY <1>3, <1>4 DEF FieldSet
  <1>7. ASSUME NEW m \in 1 .. Len(heap[now]) PROVE Clean(heap', heap'[now][m])
    <2>1. Clean(heap, heap[now][m])
      BY DEF Mutating
    <2>2. CASE m = i
      <3>1. Into(heap, now, root[y])
        BY DEF Mutating
      <3> QED
        BY <1>4, <1>6, <2>1, <2>2, <3>1 DEF FieldSet, Clean
    <2>3. CASE m # i
      BY <1>4, <1>6, <2>1, <2>3 DEF FieldSet, Clean
    <2> QED
      BY <2>2, <2>3
  <1>8. Mutating'
    <2>1. /\ Old' = Old /\ Third' = Third
          /\ \A d : Clean(heap, d)' <=> Clean(heap', d)
      BY <1>1, SameHeaps
    <2>2. \A z \in Root : Into(heap', now, root[z])
      BY <1>6 DEF Mutating
    <2>3. (\A z \in Root : Into(heap, now, root[z]))'
      BY <1>1, <2>2 DEF Into
    <2>4. /\ heap'[Old] = <<>> /\ heap'[Third] = <<>>
          /\ Used(heap'[now]) <= end /\ Len(heap'[now]) = Len(heap[now])
      BY <1>3, <1>4 DEF Mutating, FieldSet
    <2>5. (\A m \in 1 .. Len(heap[now]) : Clean(heap, heap[now][m]))'
      <3>1. \A m \in 1 .. Len(heap'[now]) : Clean(heap', heap'[now][m])
        BY <1>7, <2>4
      <3> QED
        BY <1>1, <3>1 DEF Clean, Into
    <2>6. (heap[Old] = <<>> /\ heap[Third] = <<>> /\ Used(heap[now]) <= end)'
      BY <1>1, <2>1, <2>4
    <2> QED
      BY <2>3, <2>5, <2>6 DEF Mutating
  <1> QED
    BY <1>1, <1>5, <1>8 DEF CollectorInv, Phases

\* A root takes a value of the working heap.
LEMMA RootTakes ==
  ASSUME Frame, Mutating, pc = "run", NEW x \in Root, NEW v, Into(heap, now, v),
         root' = [root EXCEPT ![x] = v], UNCHANGED <<pc, call, memory>>
  PROVE  CollectorInv'
  <1>1. v \in Values0 /\ UNCHANGED <<heap, now, end, size, back, next, fate>>
    BY IntoValue DEF Frame, memory
  <1>2. Frame'
    BY <1>1 DEF Frame, Waiting
  <1>3. /\ Old' = Old /\ Third' = Third
        /\ \A d : Clean(heap, d)' <=> Clean(heap', d)
    BY <1>1, SameHeaps
  <1>4. \A z \in Root : Into(heap, now, root[z])'
    <2>1. \A z \in Root : Into(heap, now, root'[z])
      BY DEF Mutating, Frame
    <2> QED
      BY <1>1, <2>1 DEF Into
  <1>5. Mutating'
    BY <1>1, <1>3, <1>4 DEF Mutating
  <1> QED
    BY <1>2, <1>5 DEF CollectorInv, Phases

LEMMA ReadInv ==
  ASSUME Frame, Mutating, fate = "run", NEW x \in Root, NEW y \in Root, NEW k, Read(x, y, k)
  PROVE  CollectorInv'
  <1>1. /\ root[y] # NULL /\ k \in DOMAIN Cell(heap, root[y]).args
        /\ root' = [root EXCEPT ![x] = Cell(heap, root[y]).args[k]]
        /\ UNCHANGED <<pc, call, memory>> /\ pc = "run"
    BY DEF Read, At
  <1>2. PICK i \in 1 .. Len(heap[now]) : root[y] = <<now, i>>
    BY <1>1 DEF Mutating, Into
  <1>3. Cell(heap, root[y]) = heap[now][i]
    BY <1>2 DEF Cell
  <1>4. Into(heap, now, Cell(heap, root[y]).args[k])
    BY <1>1, <1>3 DEF Mutating, Clean
  <1> QED
    BY <1>1, <1>4, RootTakes

\* Nothing happens any more when something has failed.
LEMMA NextRuns == Next => fate = "run"
  <1>1. \A x, kind, from : Call(x, kind, from) => fate = "run"
    BY DEF Call, At
  <1>2. \A x, y, k : Write(x, k, y) \/ Read(x, y, k) => fate = "run"
    BY DEF Write, Read, At
  <1>3. (\A x : Drop(x) => fate = "run") /\ (Collect => fate = "run")
    BY DEF Drop, Collect, At
  <1>4. Collection => fate = "run"
    BY DEF Collection, CopyRoot, RootsDone, ScanCell, idris_gcEnds, At
  <1>5. Allocation => fate = "run"
    BY DEF Allocation, StillNoRoom, RoomNow, Retry, At
  <1> QED
    BY <1>1, <1>2, <1>3, <1>4, <1>5 DEF Next

LEMMA NextCollector ==
  ASSUME CollectorInv, [Next]_vars
  PROVE  CollectorInv'
  <1>1. CASE UNCHANGED vars
    <2>1. UNCHANGED <<heap, now, end, size, root, pc, call, back, next, fate>>
      BY <1>1 DEF vars
    <2>2. /\ Old' = Old /\ Third' = Third /\ (Moving(heap)' <=> Moving(heap'))
          /\ \A c : /\ Clean(heap, c)' <=> Clean(heap', c)
                    /\ Unscanned(heap, c)' <=> Unscanned(heap', c)
      BY <2>1, SameHeaps
    <2>3. \A s, v : Into(heap, s, v)' <=> Into(heap', s, v)
      BY DEF Into
    <2>4. /\ Frame' <=> Frame
          /\ Mutating' <=> Mutating
          /\ CopyingRoots' <=> CopyingRoots
          /\ Scanning' <=> Scanning
      <3>1. Frame' <=> Frame
        BY <2>1 DEF Frame, Waiting
      <3>2. Mutating' <=> Mutating
        BY <2>1, <2>2 DEF Mutating, Into
      <3>3. CopyingRoots' <=> CopyingRoots
        BY <2>1, <2>2 DEF CopyingRoots, Into
      <3>4. Scanning' <=> Scanning
        BY <2>1, <2>2 DEF Scanning, Into
      <3> QED
        BY <3>1, <3>2, <3>3, <3>4
    <2> QED
      BY <2>1, <2>4 DEF CollectorInv, Phases
  <1>2. CASE Next
    <2>1. fate = "run"
      BY <1>2, NextRuns
    <2>2. Frame /\ Phases
      BY <2>1 DEF CollectorInv
    <2>3. CASE Collection
      <3>1. /\ CopyRoot \/ RootsDone => CopyingRoots
            /\ ScanCell \/ idris_gcEnds => Scanning
        BY <2>2 DEF Phases, CopyRoot, RootsDone, ScanCell, idris_gcEnds, At
      <3> QED
        BY <2>1, <2>2, <2>3, <3>1, CopyRootInv, RootsDoneInv, ScanCellInv, CollectionEndsInv
           DEF Collection
    <2>4. CASE Allocation
      BY <2>1, <2>2, <2>4, AllocationInv
    <2>5. CASE Collect
      <3>1. pc = "run" /\ idris_gc(size, "run") /\ size \in Nat
        BY <2>2, <2>5 DEF Collect, At, Frame
      <3> QED
        BY <2>2, <3>1, CollectionStarts DEF Phases
    <2>6. ASSUME NEW x \in Root, NEW kind \in Kinds, NEW from \in [1 .. kind[2] -> Root],
                 Call(x, kind, from)
          PROVE  CollectorInv'
      <3>1. pc = "run"
        BY <2>6 DEF Call, At
      <3> QED
        BY <2>1, <2>2, <2>6, <3>1, CallInv DEF Phases
    <2>7. ASSUME NEW x \in Root, NEW y \in Root, NEW k \in 1 .. 2, Write(x, k, y) \/ Read(x, y, k)
          PROVE  CollectorInv'
      <3>1. pc = "run"
        BY <2>7 DEF Write, Read, At
      <3> QED
        BY <2>1, <2>2, <2>7, <3>1, WriteInv, ReadInv DEF Phases
    <2>8. ASSUME NEW x \in Root, Drop(x) PROVE CollectorInv'
      <3>1. pc = "run" /\ root' = [root EXCEPT ![x] = NULL] /\ UNCHANGED <<pc, call, memory>>
        BY <2>8 DEF Drop, At
      <3>2. Into(heap, now, NULL)
        BY DEF Into
      <3> QED
        BY <2>2, <3>1, <3>2, RootTakes DEF Phases
    <2> QED
      BY <1>2, <2>3, <2>4, <2>5, <2>6, <2>7, <2>8 DEF Next
  <1> QED
    BY <1>1, <1>2

----------------------------------------------------------------------------
(* What the inductive invariant shows                                      *)

LEMMA CollectorInvariance == Spec => []CollectorInv
  BY InitCollector, NextCollector, PTL DEF Spec

\* heap_check_all holds whenever the program runs: whatever it allocates, writes
\* and drops, and however often the heap is collected and grows, a pointer of a
\* root or of the working heap points into the working heap, no cell of it is a
\* forward, and its cells fit.  While cheney runs, this holds of the roots and of
\* the cells it has scanned.
THEOREM HeapAlwaysChecks == Spec => []HeapChecks
  <1>1. CollectorInv => HeapChecks
    <2> SUFFICES ASSUME Frame, Phases, fate = "run", pc # "roots" PROVE HeapChecks
      BY DEF CollectorInv, HeapChecks
    <2>1. (pc # "cheney" /\ Mutating) \/ (pc = "cheney" /\ Scanning)
      BY DEF Frame, Phases
    <2>2. heap[now] \in Seq(Cells) /\ DOMAIN heap[now] = 1 .. Len(heap[now])
      BY DEF Frame, Heaps
    <2>3. \A v : Into(heap, now, v) => Current(v)
      BY DEF Into, Current
    <2>4. \A x \in Root : Current(root[x])
      BY <2>1, <2>3 DEF Mutating, Scanning
    <2>5. \A i \in DOMAIN heap[now] : heap[now][i].ty # "FWD"
      BY <2>1, <2>2 DEF Mutating, Scanning, Clean, Unscanned
    <2>6. Used(heap[now]) <= end
      BY <2>1 DEF Mutating, Scanning, Moving
    <2>7. ASSUME NEW i \in CurrentCells, NEW k \in DOMAIN heap[now][i].args
          PROVE  Current(heap[now][i].args[k])
      <3>1. Clean(heap, heap[now][i])
        <4>1. CASE pc # "cheney" /\ Mutating
          BY <2>2, <2>7, <4>1 DEF CurrentCells, Mutating
        <4>2. CASE pc = "cheney" /\ Scanning
          <5>1. next \in Nat /\ Len(heap[now]) \in Nat /\ next <= Len(heap[now]) + 1
            BY <4>2 DEF Frame, Heaps, Scanning
          <5>2. i \in 1 .. next - 1
            BY <2>7, <4>2 DEF CurrentCells
          <5>3. i \in 1 .. Len(heap[now]) /\ i < next
            BY <5>1, <5>2
          <5> QED
            BY <4>2, <5>3 DEF Scanning
        <4> QED
          BY <2>1, <4>1, <4>2
      <3> QED
        BY <2>3, <2>7, <3>1 DEF Clean
    <2> QED
      BY <2>4, <2>5, <2>6, <2>7 DEF HeapChecks
  <1> QED
    BY <1>1, CollectorInvariance, PTL

----------------------------------------------------------------------------
(* Objects and what is reached                                             *)

\* The cell that holds what v points to: of a forward, the copy.
Target(h, v) == IF Cell(h, v).ty = "FWD" THEN Cell(h, v).args[1] ELSE v
Points(h, v) == \E s \in Heap : \E n \in 1 .. Len(h[s]) : v = <<s, n>>
IdIn(h, v)   == IF v = NULL THEN 0 ELSE Cell(h, v).id
Names(h, S)  == {Cell(h, v).id : v \in S}

\* Two pointers to one object: to one cell, or to copies of raw bits.
Leaf(c) == c.ty \in Unshared /\ c.args = <<>>
Alike(h, v, w) ==
  \/ Target(h, v) = Target(h, w)
  \/ Leaf(Deref(h, v)) /\ Leaf(Deref(h, w)) /\ Deref(h, v).ty = Deref(h, w).ty

\* Pointers that lead only to each other, and to one object with each identity.
Proper(h, v) ==
  /\ v # NULL /\ Points(h, v) /\ Points(h, Target(h, v))
  /\ Cell(h, v).id \in Id /\ Deref(h, v).id = Cell(h, v).id /\ Deref(h, v).ty # "FWD"
Sound(h, L) ==
  /\ \A v \in L : Proper(h, v) /\ Kids(h, v) \subseteq L
  /\ \A v, w \in L : Cell(h, v).id = Cell(h, w).id => Alike(h, v, w)

\* An object as the program sees it.
Obj(h, v) == [ty |-> Deref(h, v).ty,
              args |-> [k \in DOMAIN Deref(h, v).args |-> IdIn(h, Deref(h, v).args[k])]]
Represents(h, L, o) == Sound(h, L) /\ \A v \in L : Obj(h, v) = o[Cell(h, v).id]

LEMMA DerefTarget ==
  ASSUME NEW h, NEW v
  PROVE  Deref(h, v) = Cell(h, Target(h, v))
  BY DEF Deref, Target

LEMMA AlikeTwice ==
  ASSUME NEW h, NEW u, NEW v, NEW w
  PROVE  /\ Alike(h, v, v)
         /\ Alike(h, v, w) => Alike(h, w, v)
         /\ Alike(h, u, v) /\ Alike(h, v, w) => Alike(h, u, w)
  <1>1. Target(h, u) = Target(h, v) => Deref(h, u) = Deref(h, v)
    BY DerefTarget
  <1>2. Target(h, v) = Target(h, w) => Deref(h, v) = Deref(h, w)
    BY DerefTarget
  <1> QED
    BY <1>1, <1>2 DEF Alike

\* Pointers to one object have the same fields.
LEMMA AlikeKids ==
  ASSUME NEW h, NEW v, NEW w, Alike(h, v, w)
  PROVE  Kids(h, v) = Kids(h, w)
  <1>1. CASE Target(h, v) = Target(h, w)
    BY <1>1, DerefTarget DEF Kids
  <1>2. CASE Leaf(Deref(h, v)) /\ Leaf(Deref(h, w))
    <2>1. Deref(h, v).args = <<>> /\ Deref(h, w).args = <<>>
      BY <1>2 DEF Leaf
    <2> QED
      BY <2>1 DEF Kids
  <1> QED
    BY <1>1, <1>2 DEF Alike

\* The recursion of ReachedFrom.
Grown(h, S) == S \cup UNION {Kids(h, v) : v \in S}
After(h, S0, f) ==
  f = [n \in 0 .. MaxObjects |-> IF n = 0 THEN S0 \ {NULL} ELSE Grown(h, f[n - 1])]

LEMMA MaxNat == MaxObjects \in Nat \ {0}
  BY CollectorAssumption

LEMMA ReachedIs ==
  ASSUME NEW h, NEW S0, NEW L, Sound(h, L), S0 \ {NULL} \subseteq L
  PROVE  \E f : /\ After(h, S0, f) /\ ReachedFrom(h, S0) = f[MaxObjects]
                /\ \A n \in 0 .. MaxObjects : f[n] \subseteq L
  <1> DEFINE D == SUBSET L
             a == S0 \ {NULL}
             g == [p \in (1 .. MaxObjects) \X D |-> Grown(h, p[2])]
             c == CHOOSE f : After(h, S0, f)
  <1>1. g \in [(1 .. MaxObjects) \X D -> D] /\ a \in D
    BY DEF Grown, Sound
  <1>2. PICK f \in [0 .. MaxObjects -> D] : Steps(f, MaxObjects, a, g)
    <2> HIDE DEF D, a, g
    <2> QED
      BY <1>1, MaxNat, StepsExist
  <1>3. After(h, S0, f)
    <2>1. f[0] = a /\ \A n \in 1 .. MaxObjects : f[n] = g[<<n, f[n - 1]>>]
      BY <1>2 DEF Steps
    <2>2. ASSUME NEW n \in 1 .. MaxObjects PROVE f[n] = Grown(h, f[n - 1])
      <3>1. n - 1 \in 0 .. MaxObjects
        BY MaxNat
      <3>2. f[n - 1] \in D
        BY <1>2, <3>1
      <3> QED
        BY <2>1, <3>2
    <2>3. f = [n \in 0 .. MaxObjects |-> f[n]]
      BY <1>2
    <2>4. \A n \in 0 .. MaxObjects : n # 0 => n \in 1 .. MaxObjects
      BY MaxNat
    <2> QED
      BY <2>1, <2>2, <2>3, <2>4 DEF After
  <1>4. After(h, S0, c)
    <2> HIDE DEF c
    <2> QED
      BY <1>3 DEF c
  <1>5. ReachedFrom(h, S0) = c[MaxObjects]
    BY DEF ReachedFrom, After, Grown
  <1>6. \A n \in 0 .. MaxObjects : c[n] \subseteq L
    <2> DEFINE Bad == {n \in 0 .. MaxObjects : ~(c[n] \subseteq L)}
    <2> HIDE DEF c
    <2>1. SUFFICES ASSUME Bad # {} PROVE FALSE
      OBVIOUS
    <2>2. PICK n \in Bad : \A m \in Bad : n <= m
      <3>1. Bad \subseteq Nat
        OBVIOUS
      <3> HIDE DEF Bad
      <3> QED
        BY <2>1, <3>1, LeastNumber
    <2>3. n \in 0 .. MaxObjects /\ ~(c[n] \subseteq L)
      BY <2>2
    <2>4. c[n] = IF n = 0 THEN S0 \ {NULL} ELSE Grown(h, c[n - 1])
      BY <1>4, <2>3 DEF After
    <2>5. n # 0
      BY <2>3, <2>4
    <2>6. n - 1 \in 0 .. MaxObjects /\ n - 1 \notin Bad
      BY <2>2, <2>3, <2>5, MaxNat
    <2>7. c[n - 1] \subseteq L
      BY <2>6
    <2>8. Grown(h, c[n - 1]) \subseteq L
      BY <2>7 DEF Grown, Sound
    <2> QED
      BY <2>3, <2>4, <2>5, <2>8
  <1> QED
    BY <1>4, <1>5, <1>6

LEMMA AfterSteps ==
  ASSUME NEW h, NEW S0, NEW f, After(h, S0, f)
  PROVE  /\ f[0] = S0 \ {NULL}
         /\ \A n \in 1 .. MaxObjects : n - 1 \in 0 .. MaxObjects /\ f[n] = Grown(h, f[n - 1])
  <1>1. 0 \in 0 .. MaxObjects
    BY MaxNat
  <1>2. \A n \in 1 .. MaxObjects : n - 1 \in 0 .. MaxObjects /\ n \in 0 .. MaxObjects /\ n # 0
    BY MaxNat
  <1> QED
    BY <1>1, <1>2 DEF After

\* More identities, or no more pointers.
LEMMA MoreNames ==
  ASSUME NEW h, NEW L, Sound(h, L), NEW S, S \subseteq L,
         Names(h, Grown(h, S)) = Names(h, S)
  PROVE  \A v \in Grown(h, S) : Kids(h, v) \subseteq Grown(h, S)
  <1> SUFFICES ASSUME NEW v \in Grown(h, S) PROVE Kids(h, v) \subseteq Grown(h, S)
    OBVIOUS
  <1>1. Grown(h, S) \subseteq L
    BY DEF Grown, Sound
  <1>2. PICK w \in S : Cell(h, v).id = Cell(h, w).id
    BY DEF Names
  <1>3. Kids(h, v) = Kids(h, w)
    BY <1>1, <1>2, AlikeKids DEF Sound
  <1> QED
    BY <1>2, <1>3 DEF Grown

LEMMA NamesOf ==
  ASSUME NEW h, NEW L, Sound(h, L), NEW S, S \subseteq L
  PROVE  /\ Names(h, S) \subseteq Id /\ IsFiniteSet(Names(h, S))
         /\ Cardinality(Names(h, S)) \in Nat /\ Cardinality(Names(h, S)) <= MaxObjects
  <1>1. Names(h, S) \subseteq Id
    BY DEF Names, Sound, Proper
  <1>2. IsFiniteSet(Id) /\ Cardinality(Id) = MaxObjects
    <2>1. 1 \in Int /\ MaxObjects \in Int /\ MaxObjects >= 1
      BY MaxNat
    <2>2. IsFiniteSet(1 .. MaxObjects) /\ Cardinality(1 .. MaxObjects) = MaxObjects - 1 + 1
      BY <2>1, FS_Interval
    <2> QED
      BY <2>1, <2>2 DEF Id
  <1> QED
    BY <1>1, <1>2, FS_Subset, FS_CardinalityType

\* There are no more identities than MaxObjects: that many rounds reach all there is.
LEMMA AllReached ==
  ASSUME NEW h, NEW S0, NEW L, Sound(h, L), NEW f, After(h, S0, f),
         \A n \in 0 .. MaxObjects : f[n] \subseteq L
  PROVE  \A v \in f[MaxObjects] : Kids(h, v) \subseteq f[MaxObjects]
  <1> DEFINE Shut(n) == \A v \in f[n] : Kids(h, v) \subseteq f[n]
             count(n) == Cardinality(Names(h, f[n]))
             Bad == {n \in 0 .. MaxObjects : ~(Shut(n) \/ count(n) >= n + 1)}
  <1>1. Bad = {}
    <2>1. SUFFICES ASSUME Bad # {} PROVE FALSE
      OBVIOUS
    <2>2. PICK n \in Bad : \A m \in Bad : n <= m
      <3>1. Bad \subseteq Nat
        OBVIOUS
      <3> HIDE DEF Bad
      <3> QED
        BY <2>1, <3>1, LeastNumber
    <2>3. n \in 0 .. MaxObjects /\ ~Shut(n) /\ ~(count(n) >= n + 1)
      BY <2>2
    <2>4. f[n] \subseteq L /\ Sound(h, L)
      BY <2>3
    <2>5. /\ IsFiniteSet(Names(h, f[n])) /\ count(n) \in Nat
      BY <2>4, NamesOf
    <2>6. n # 0
      <3> SUFFICES ASSUME n = 0 PROVE FALSE
        OBVIOUS
      <3>1. PICK v : v \in f[0]
        BY <2>3
      <3>2. Names(h, f[0]) # {}
        BY <3>1 DEF Names
      <3>3. count(0) # 0
        BY <2>5, <3>2, FS_EmptySet
      <3> QED
        BY <2>3, <2>5, <3>3
    <2>7. n \in 1 .. MaxObjects /\ n - 1 \in 0 .. MaxObjects /\ n - 1 \notin Bad
      BY <2>2, <2>3, <2>6, MaxNat
    <2>8. f[n] = Grown(h, f[n - 1])
      BY <2>7, AfterSteps
    <2>9. Shut(n - 1) \/ count(n - 1) >= (n - 1) + 1
      BY <2>7
    <2>10. ~Shut(n - 1)
      <3> SUFFICES ASSUME Shut(n - 1) PROVE FALSE
        OBVIOUS
      <3>1. f[n] = f[n - 1]
        BY <2>8 DEF Grown
      <3> QED
        BY <2>3, <3>1
    <2>11. f[n - 1] \subseteq L /\ Names(h, f[n]) # Names(h, f[n - 1])
      BY <2>3, <2>7, <2>8, MoreNames
    <2>12. Names(h, f[n - 1]) \subseteq Names(h, f[n])
      BY <2>8 DEF Grown, Names
    <2>13. count(n - 1) \in Nat /\ count(n - 1) <= count(n) /\ count(n - 1) # count(n)
      BY <2>5, <2>11, <2>12, FS_Subset, FS_CardinalityType
    <2> HIDE DEF count, Shut, Bad
    <2> QED
      BY <2>3, <2>5, <2>7, <2>9, <2>10, <2>13
  <1>2. MaxObjects \in 0 .. MaxObjects /\ f[MaxObjects] \subseteq L
    BY MaxNat
  <1>3. count(MaxObjects) \in Nat /\ count(MaxObjects) <= MaxObjects
    BY <1>2, NamesOf
  <1>4. ~(count(MaxObjects) >= MaxObjects + 1)
    <2> HIDE DEF count
    <2> QED
      BY <1>3, MaxNat
  <1> QED
    BY <1>1, <1>2, <1>4

\* What is reached is sound itself, and the least set that has the roots and is closed.
LEMMA ReachedSound ==
  ASSUME NEW h, NEW S0, NEW L, Sound(h, L), S0 \ {NULL} \subseteq L
  PROVE  LET R == ReachedFrom(h, S0)
         IN  /\ S0 \ {NULL} \subseteq R /\ R \subseteq L /\ Sound(h, R)
             /\ \A K : S0 \ {NULL} \subseteq K /\ (\A v \in K : Kids(h, v) \subseteq K) => R \subseteq K
  <1> DEFINE R == ReachedFrom(h, S0)
  <1>1. PICK f : /\ After(h, S0, f) /\ R = f[MaxObjects]
                 /\ \A n \in 0 .. MaxObjects : f[n] \subseteq L
    BY ReachedIs
  <1>2. MaxObjects \in 0 .. MaxObjects /\ MaxObjects \in Nat
    BY MaxNat
  <1>3. \A v \in R : Kids(h, v) \subseteq R
    BY <1>1, AllReached
  <1>4. R \subseteq L
    BY <1>1, <1>2
  <1>5. Sound(h, R)
    BY <1>3, <1>4 DEF Sound
  <1>6. S0 \ {NULL} \subseteq R
    <2> DEFINE Bad == {n \in 0 .. MaxObjects : ~(S0 \ {NULL} \subseteq f[n])}
    <2>1. SUFFICES ASSUME Bad # {} PROVE FALSE
      BY <1>1, <1>2
    <2>2. PICK n \in Bad : \A m \in Bad : n <= m
      <3>1. Bad \subseteq Nat
        OBVIOUS
      <3> HIDE DEF Bad
      <3> QED
        BY <2>1, <3>1, LeastNumber
    <2>3. n # 0 /\ n \in 0 .. MaxObjects
      BY <1>1, <2>2, AfterSteps
    <2>4. n \in 1 .. MaxObjects /\ n - 1 \in 0 .. MaxObjects /\ n - 1 \notin Bad
      BY <2>2, <2>3, MaxNat
    <2>5. f[n] = Grown(h, f[n - 1])
      BY <1>1, <2>4, AfterSteps
    <2> QED
      BY <2>2, <2>4, <2>5 DEF Grown
  <1>7. ASSUME NEW K, S0 \ {NULL} \subseteq K, \A v \in K : Kids(h, v) \subseteq K
        PROVE  R \subseteq K
    <2> DEFINE Bad == {n \in 0 .. MaxObjects : ~(f[n] \subseteq K)}
    <2>1. SUFFICES ASSUME Bad # {} PROVE FALSE
      BY <1>1, <1>2
    <2>2. PICK n \in Bad : \A m \in Bad : n <= m
      <3>1. Bad \subseteq Nat
        OBVIOUS
      <3> HIDE DEF Bad
      <3> QED
        BY <2>1, <3>1, LeastNumber
    <2>3. n # 0 /\ n \in 0 .. MaxObjects
      BY <1>1, <1>7, <2>2, AfterSteps
    <2>4. n \in 1 .. MaxObjects /\ n - 1 \in 0 .. MaxObjects /\ n - 1 \notin Bad
      BY <2>2, <2>3, MaxNat
    <2>5. f[n] = Grown(h, f[n - 1]) /\ f[n - 1] \subseteq K
      BY <1>1, <2>4, AfterSteps
    <2>6. Grown(h, f[n - 1]) \subseteq K
      BY <1>7, <2>5 DEF Grown
    <2> QED
      BY <2>2, <2>5, <2>6
  <1> QED
    BY <1>4, <1>5, <1>6, <1>7

----------------------------------------------------------------------------
(* What the program sees                                                   *)

\* The objects that the values of r reach, as the refinement mapping has them.
Pointers(r)   == {r[x] : x \in Root}
Shown(h, r)   == ReachedFrom(h, Pointers(r))
RootIds(h, r) == [x \in Root |-> IdIn(h, r[x])]
Objects(h, r) ==
  [i \in Names(h, Shown(h, r)) |-> Obj(h, CHOOSE v \in Shown(h, r) : Cell(h, v).id = i)]

\* A value of L, or NULL.
ValueOf(L, v) == v = NULL \/ v \in L

LEMMA NoZero == 0 \notin Id
  BY DEF Id

LEMMA IdOfValue ==
  ASSUME NEW h, NEW L, Sound(h, L), NEW v, ValueOf(L, v)
  PROVE  /\ IdIn(h, v) = 0 <=> v = NULL
         /\ v # NULL => v \in L /\ IdIn(h, v) = Cell(h, v).id
  BY NoZero DEF ValueOf, IdIn, Sound, Proper

LEMMA FieldNames ==
  ASSUME NEW h, NEW L, NEW o, Represents(h, L, o), NEW v \in L
  PROVE  store!Fields(o, Cell(h, v).id) = Names(h, Kids(h, v))
  <1> DEFINE d == Deref(h, v)
             i == Cell(h, v).id
  <1>1. o[i] = Obj(h, v) /\ Sound(h, L) /\ Kids(h, v) \subseteq L
    BY DEF Represents, Sound
  <1>2. o[i].args = [k \in DOMAIN d.args |-> IdIn(h, d.args[k])]
    BY <1>1 DEF Obj
  <1>3. store!Fields(o, i) = {IdIn(h, d.args[k]) : k \in DOMAIN d.args} \ {0}
    BY <1>2 DEF store!Fields
  <1>4. \A k \in DOMAIN d.args : ValueOf(L, d.args[k])
    BY <1>1 DEF Kids, ValueOf
  <1>5. \A k \in DOMAIN d.args : /\ IdIn(h, d.args[k]) = 0 <=> d.args[k] = NULL
                                 /\ d.args[k] # NULL => IdIn(h, d.args[k]) = Cell(h, d.args[k]).id
    BY <1>1, <1>4, IdOfValue
  <1> HIDE DEF d, i
  <1>6. Kids(h, v) = {d.args[k] : k \in DOMAIN d.args} \ {NULL}
    BY DEF Kids, d
  <1>7. {IdIn(h, d.args[k]) : k \in DOMAIN d.args} \ {0} = Names(h, Kids(h, v))
    BY <1>5, <1>6 DEF Names
  <1> QED
    BY <1>3, <1>7 DEF i

\* The recursion of Reached.
Wider(o, S) == S \cup UNION {store!Fields(o, i) : i \in S}
StoreAfter(r, o, f) ==
  f = [n \in Id \cup {0} |-> IF n = 0 THEN {r[x] : x \in Root} \ {0} ELSE Wider(o, f[n - 1])]

LEMMA LastId == Id \cup {0} = 0 .. MaxObjects /\ (CHOOSE n \in Id : \A m \in Id : m <= n) = MaxObjects
  <1>1. Id = 1 .. MaxObjects /\ MaxObjects \in Nat \ {0}
    BY MaxNat DEF Id
  <1>2. MaxObjects \in Id /\ \A m \in Id : m <= MaxObjects
    BY <1>1
  <1>3. \A n \in Id : (\A m \in Id : m <= n) => n = MaxObjects
    BY <1>1, <1>2
  <1>4. (CHOOSE n \in Id : \A m \in Id : m <= n) = MaxObjects
    <2> DEFINE q == CHOOSE n \in Id : \A m \in Id : m <= n
    <2>1. q \in Id /\ \A m \in Id : m <= q
      BY <1>2
    <2> HIDE DEF q
    <2>2. q = MaxObjects
      BY <1>3, <2>1
    <2> QED
      BY <2>2 DEF q
  <1> QED
    BY <1>1, <1>4

LEMMA WiderNames ==
  ASSUME NEW h, NEW L, NEW o, Represents(h, L, o), NEW S, S \subseteq L
  PROVE  Names(h, Grown(h, S)) = Wider(o, Names(h, S))
  <1>1. \A v \in S : store!Fields(o, Cell(h, v).id) = Names(h, Kids(h, v))
    BY FieldNames
  <1>2. UNION {store!Fields(o, i) : i \in Names(h, S)} = UNION {Names(h, Kids(h, v)) : v \in S}
    BY <1>1 DEF Names
  <1>3. Names(h, Grown(h, S)) = Names(h, S) \cup UNION {Names(h, Kids(h, v)) : v \in S}
    BY DEF Names, Grown
  <1> QED
    BY <1>2, <1>3 DEF Wider

\* What the store reaches are the identities of what is reached in the heaps.
LEMMA StoreReaches ==
  ASSUME NEW h, NEW L, NEW o, Represents(h, L, o), NEW r, Pointers(r) \ {NULL} \subseteq L
  PROVE  store!Reached(RootIds(h, r), o) = Names(h, Shown(h, r))
  <1> DEFINE S0 == Pointers(r)
             ids == RootIds(h, r)
             c == CHOOSE f : StoreAfter(ids, o, f)
  <1>0. Sound(h, L) /\ S0 \ {NULL} \subseteq L
    BY DEF Represents
  <1>1. PICK f : /\ After(h, S0, f) /\ Shown(h, r) = f[MaxObjects]
                 /\ \A n \in 0 .. MaxObjects : f[n] \subseteq L
    BY <1>0, ReachedIs DEF Shown
  <1> DEFINE g == [n \in Id \cup {0} |-> Names(h, f[n])]
  <1>2. {ids[x] : x \in Root} \ {0} = Names(h, S0 \ {NULL})
    <2>1. \A x \in Root : ValueOf(L, r[x])
      BY <1>0 DEF Pointers, ValueOf
    <2>2. \A x \in Root : /\ IdIn(h, r[x]) = 0 <=> r[x] = NULL
                          /\ r[x] # NULL => IdIn(h, r[x]) = Cell(h, r[x]).id
      BY <1>0, <2>1, IdOfValue
    <2>3. \A x \in Root : ids[x] = IdIn(h, r[x])
      BY DEF RootIds
    <2> HIDE DEF ids
    <2> QED
      BY <2>2, <2>3 DEF Names, Pointers
  <1>3. StoreAfter(ids, o, g)
    <2>1. ASSUME NEW n \in Id \cup {0}
          PROVE  g[n] = IF n = 0 THEN {ids[x] : x \in Root} \ {0} ELSE Wider(o, g[n - 1])
      <3>1. CASE n = 0
        <4>1. f[0] = S0 \ {NULL}
          BY <1>1, AfterSteps
        <4>2. g[0] = Names(h, f[0])
          OBVIOUS
        <4> HIDE DEF g, ids
        <4> QED
          BY <1>2, <3>1, <4>1, <4>2
      <3>2. CASE n # 0
        <4>1. n \in 1 .. MaxObjects /\ n - 1 \in 0 .. MaxObjects /\ n - 1 \in Id \cup {0}
          BY <3>2, LastId, MaxNat
        <4>2. f[n] = Grown(h, f[n - 1]) /\ f[n - 1] \subseteq L
          BY <1>1, <4>1, AfterSteps
        <4>3. Names(h, f[n]) = Wider(o, Names(h, f[n - 1]))
          BY <4>2, WiderNames
        <4> QED
          BY <3>2, <4>1, <4>3
      <3> QED
        BY <3>1, <3>2
    <2> HIDE DEF g, ids
    <2>2. g = [n \in Id \cup {0} |-> g[n]]
      BY DEF g
    <2> QED
      BY <2>1, <2>2 DEF StoreAfter
  <1>4. StoreAfter(ids, o, c)
    <2> HIDE DEF c, g, ids
    <2> QED
      BY <1>3 DEF c
  <1>5. store!Reached(ids, o) = c[MaxObjects]
    <2>1. store!Reached(ids, o) = c[CHOOSE n \in Id : \A m \in Id : m <= n]
      BY DEF store!Reached, StoreAfter, Wider
    <2> QED
      BY <2>1, LastId
  <1> HIDE DEF c, ids
  <1>6. \A n \in 0 .. MaxObjects : c[n] = g[n]
    <2> DEFINE Bad == {n \in 0 .. MaxObjects : c[n] # g[n]}
    <2> HIDE DEF g
    <2>1. SUFFICES ASSUME Bad # {} PROVE FALSE
      OBVIOUS
    <2>2. PICK n \in Bad : \A m \in Bad : n <= m
      <3>1. Bad \subseteq Nat
        OBVIOUS
      <3> HIDE DEF Bad
      <3> QED
        BY <2>1, <3>1, LeastNumber
    <2>3. n \in 0 .. MaxObjects /\ n \in Id \cup {0} /\ c[n] # g[n]
      BY <2>2, LastId
    <2>4. /\ c[n] = IF n = 0 THEN {ids[x] : x \in Root} \ {0} ELSE Wider(o, c[n - 1])
          /\ g[n] = IF n = 0 THEN {ids[x] : x \in Root} \ {0} ELSE Wider(o, g[n - 1])
      BY <1>3, <1>4, <2>3 DEF StoreAfter
    <2>5. n # 0
      BY <2>3, <2>4
    <2>6. n - 1 \in 0 .. MaxObjects /\ n - 1 \notin Bad
      BY <2>2, <2>3, <2>5, MaxNat
    <2> QED
      BY <2>3, <2>4, <2>5, <2>6
  <1>7. MaxObjects \in 0 .. MaxObjects /\ MaxObjects \in Id \cup {0}
    BY MaxNat, LastId
  <1> QED
    BY <1>1, <1>5, <1>6, <1>7 DEF ids

\* Pointers to one object show it alike.
LEMMA AlikeObjects ==
  ASSUME NEW h, NEW v, NEW w, Alike(h, v, w)
  PROVE  Obj(h, v) = Obj(h, w)
  <1>1. CASE Target(h, v) = Target(h, w)
    BY <1>1, DerefTarget DEF Obj
  <1>2. CASE Leaf(Deref(h, v)) /\ Leaf(Deref(h, w)) /\ Deref(h, v).ty = Deref(h, w).ty
    BY <1>2 DEF Leaf, Obj
  <1> QED
    BY <1>1, <1>2 DEF Alike

\* Whatever represents the reached pointers gives the objects of the store.
LEMMA StoreView ==
  ASSUME NEW h, NEW L, NEW o, Represents(h, L, o), NEW r, Pointers(r) \ {NULL} \subseteq L
  PROVE  Objects(h, r) = [i \in store!Reached(RootIds(h, r), o) |-> o[i]]
  <1>1. Shown(h, r) \subseteq L
    BY ReachedSound DEF Represents, Shown
  <1>2. ASSUME NEW i \in Names(h, Shown(h, r))
        PROVE  Obj(h, CHOOSE v \in Shown(h, r) : Cell(h, v).id = i) = o[i]
    <2>1. \E v \in Shown(h, r) : Cell(h, v).id = i
      BY DEF Names
    <2> DEFINE w == CHOOSE v \in Shown(h, r) : Cell(h, v).id = i
    <2>2. w \in Shown(h, r) /\ Cell(h, w).id = i
      BY <2>1
    <2> HIDE DEF w
    <2>3. Obj(h, w) = o[i]
      BY <1>1, <2>2 DEF Represents
    <2> QED
      BY <2>3 DEF w
  <1>3. Objects(h, r) = [i \in Names(h, Shown(h, r)) |-> o[i]]
    BY <1>2 DEF Objects
  <1> QED
    BY <1>3, StoreReaches

\* The objects represent what is reached, and nothing else is there.
LEMMA ObjectsRepresent ==
  ASSUME NEW h, NEW L, Sound(h, L), NEW r, Pointers(r) \ {NULL} \subseteq L
  PROVE  LET o == Objects(h, r)
         IN  /\ Represents(h, Shown(h, r), o) /\ Pointers(r) \ {NULL} \subseteq Shown(h, r)
             /\ Shown(h, r) \subseteq L /\ DOMAIN o = Names(h, Shown(h, r))
             /\ o = [i \in store!Reached(RootIds(h, r), o) |-> o[i]]
  <1> DEFINE S == Shown(h, r)
             o == Objects(h, r)
  <1>1. Sound(h, S) /\ S \subseteq L /\ Pointers(r) \ {NULL} \subseteq S
    BY ReachedSound DEF Shown
  <1>2. DOMAIN o = Names(h, S)
    BY DEF Objects
  <1>3. ASSUME NEW v \in S PROVE Obj(h, v) = o[Cell(h, v).id]
    <2> DEFINE i == Cell(h, v).id
               w == CHOOSE u \in S : Cell(h, u).id = i
    <2>1. i \in Names(h, S)
      BY DEF Names
    <2>2. o[i] = Obj(h, w)
      BY <2>1 DEF Objects
    <2>3. w \in S /\ Cell(h, w).id = i
      OBVIOUS
    <2> HIDE DEF w
    <2>4. Alike(h, v, w)
      BY <1>1, <2>3 DEF Sound
    <2> QED
      BY <2>2, <2>4, AlikeObjects
  <1>4. Represents(h, S, o)
    BY <1>1, <1>3 DEF Represents
  <1> HIDE DEF S, o
  <1>5. Objects(h, r) = [i \in store!Reached(RootIds(h, r), o) |-> o[i]]
    BY <1>1, <1>4, StoreView
  <1> QED
    BY <1>1, <1>2, <1>4, <1>5 DEF S, o

----------------------------------------------------------------------------
(* Views that a change of the heaps keeps                                  *)

\* The pointers of L show in g what they showed in h.
SameView(h, g, L) ==
  /\ \A v \in L : /\ Points(g, v) /\ Points(g, Target(g, v))
                  /\ Cell(g, v).id = Cell(h, v).id /\ Deref(g, v) = Deref(h, v)
  /\ \A v, w \in L : Target(h, v) = Target(h, w) => Target(g, v) = Target(g, w)

LEMMA ViewKept ==
  ASSUME NEW h, NEW g, NEW L, NEW o, Represents(h, L, o), SameView(h, g, L)
  PROVE  /\ Represents(g, L, o)
         /\ \A v \in L : Kids(g, v) = Kids(h, v)
         /\ \A v, w \in L : Alike(h, v, w) => Alike(g, v, w)
         /\ \A v : ValueOf(L, v) => IdIn(g, v) = IdIn(h, v)
  <1>0. Sound(h, L) /\ \A v \in L : Obj(h, v) = o[Cell(h, v).id]
    BY DEF Represents
  <1>1. \A v \in L : Kids(g, v) = Kids(h, v)
    BY DEF SameView, Kids
  <1>2. \A v, w \in L : Alike(h, v, w) => Alike(g, v, w)
    BY DEF SameView, Alike
  <1>3. \A v : ValueOf(L, v) => IdIn(g, v) = IdIn(h, v)
    BY DEF SameView, ValueOf, IdIn
  <1>4. ASSUME NEW v \in L PROVE Proper(g, v) /\ Kids(g, v) \subseteq L
    <2>1. Proper(h, v) /\ Kids(h, v) \subseteq L
      BY <1>0 DEF Sound
    <2> QED
      BY <1>1, <2>1 DEF SameView, Proper
  <1>5. Sound(g, L)
    <2>1. \A v, w \in L : Cell(g, v).id = Cell(g, w).id => Alike(g, v, w)
      BY <1>0, <1>2 DEF SameView, Sound
    <2> QED
      BY <1>4, <2>1 DEF Sound
  <1>6. ASSUME NEW v \in L PROVE Obj(g, v) = o[Cell(g, v).id]
    <2>1. Deref(g, v) = Deref(h, v) /\ Cell(g, v).id = Cell(h, v).id
      BY DEF SameView
    <2>2. \A k \in DOMAIN Deref(h, v).args : ValueOf(L, Deref(h, v).args[k])
      BY <1>0 DEF Sound, Kids, ValueOf
    <2>3. Obj(g, v) = Obj(h, v)
      BY <1>3, <2>1, <2>2 DEF Obj
    <2> QED
      BY <1>0, <2>1, <2>3
  <1> QED
    BY <1>1, <1>2, <1>3, <1>5, <1>6 DEF Represents

\* Another pointer to an object that is there.
LEMMA OneMore ==
  ASSUME NEW h, NEW L, NEW o, Represents(h, L, o), NEW v \in L, NEW to,
         Proper(h, to), Alike(h, to, v), Cell(h, to).id = Cell(h, v).id
  PROVE  Represents(h, L \cup {to}, o)
  <1>0. Sound(h, L) /\ \A u \in L : Obj(h, u) = o[Cell(h, u).id]
    BY DEF Represents
  <1>1. Kids(h, to) = Kids(h, v) /\ Kids(h, v) \subseteq L
    BY <1>0, AlikeKids DEF Sound
  <1>2. Obj(h, to) = Obj(h, v)
    BY AlikeObjects
  <1>3. \A u \in L : Cell(h, u).id = Cell(h, to).id => Alike(h, u, to) /\ Alike(h, to, u)
    <2> SUFFICES ASSUME NEW u \in L, Cell(h, u).id = Cell(h, to).id
                 PROVE  Alike(h, u, to) /\ Alike(h, to, u)
      OBVIOUS
    <2>1. Alike(h, v, u)
      BY <1>0 DEF Sound
    <2>2. Alike(h, to, u)
      BY <2>1, AlikeTwice
    <2> QED
      BY <2>2, AlikeTwice
  <1>4. Sound(h, L \cup {to})
    <2>1. \A u \in L \cup {to} : Proper(h, u) /\ Kids(h, u) \subseteq L \cup {to}
      BY <1>0, <1>1 DEF Sound
    <2>2. \A u, w \in L \cup {to} : Cell(h, u).id = Cell(h, w).id => Alike(h, u, w)
      <3>1. Alike(h, to, to)
        BY AlikeTwice
      <3> QED
        BY <1>0, <1>3, <3>1 DEF Sound
    <2> QED
      BY <2>1, <2>2 DEF Sound
  <1>5. \A u \in L \cup {to} : Obj(h, u) = o[Cell(h, u).id]
    BY <1>0, <1>2
  <1> QED
    BY <1>4, <1>5 DEF Represents

\* A cell at the end of the working heap leaves the others where they are.
LEMMA Appended ==
  ASSUME now \in Heap, NEW h \in Heaps, NEW c \in Cells
  PROVE  LET g == [h EXCEPT ![now] = Append(@, c)]
             to == <<now, Len(h[now]) + 1>>
         IN  /\ g \in Heaps /\ g[now] = Append(h[now], c)
             /\ \A s \in Heap : s # now => g[s] = h[s]
             /\ Points(g, to) /\ ~Points(h, to) /\ Cell(g, to) = c
             /\ \A v : Points(h, v) => Points(g, v) /\ Cell(g, v) = Cell(h, v)
             /\ \A v : Points(g, v) => Points(h, v) \/ v = to
  <1> DEFINE g == [h EXCEPT ![now] = Append(@, c)]
             n == Len(h[now]) + 1
  <1>1. h[now] \in Seq(Cells) /\ Len(h[now]) \in Nat
    BY DEF Heaps
  <1>2. g \in Heaps /\ g[now] = Append(h[now], c) /\ \A s \in Heap : s # now => g[s] = h[s]
    BY <1>1 DEF Heaps
  <1> HIDE DEF g
  <1>3. /\ Len(g[now]) = n /\ n \in 1 .. n /\ g[now][n] = c /\ n \notin 1 .. Len(h[now])
        /\ \A m \in 1 .. Len(h[now]) : m \in 1 .. n /\ g[now][m] = h[now][m]
        /\ \A m \in 1 .. n : m = n \/ m \in 1 .. Len(h[now])
    BY <1>1, <1>2
  <1>4. Points(g, <<now, n>>) /\ Cell(g, <<now, n>>) = c
    BY <1>3 DEF Points, Cell
  <1>5. ~Points(h, <<now, n>>)
    BY <1>3 DEF Points
  <1>6. ASSUME NEW v, Points(h, v) PROVE Points(g, v) /\ Cell(g, v) = Cell(h, v)
    <2>1. PICK s, m : s \in Heap /\ m \in 1 .. Len(h[s]) /\ v = <<s, m>>
      BY <1>6 DEF Points
    <2>2. CASE s = now
      BY <1>3, <2>1, <2>2 DEF Points, Cell
    <2>3. CASE s # now
      BY <1>2, <2>1, <2>3 DEF Points, Cell
    <2> QED
      BY <2>2, <2>3
  <1>7. ASSUME NEW v, Points(g, v) PROVE Points(h, v) \/ v = <<now, n>>
    <2>1. PICK s, m : s \in Heap /\ m \in 1 .. Len(g[s]) /\ v = <<s, m>>
      BY <1>7 DEF Points
    <2>2. CASE s = now
      BY <1>3, <2>1, <2>2 DEF Points
    <2>3. CASE s # now
      BY <1>2, <2>1, <2>3 DEF Points
    <2> QED
      BY <2>2, <2>3
  <1>8. /\ g \in Heaps /\ g[now] = Append(h[now], c)
        /\ \A s \in Heap : s # now => g[s] = h[s]
        /\ Points(g, <<now, n>>) /\ ~Points(h, <<now, n>>) /\ Cell(g, <<now, n>>) = c
        /\ \A v : Points(h, v) => Points(g, v) /\ Cell(g, v) = Cell(h, v)
        /\ \A v : Points(g, v) => Points(h, v) \/ v = <<now, n>>
    BY <1>2, <1>4, <1>5, <1>6, <1>7
  <1> QED
    BY <1>8 DEF g

\* Another cell where a cell of the old heap was.
CellReplaced(h, n, d, g) ==
  /\ g \in Heaps /\ g[Old] = [h[Old] EXCEPT ![n] = d] /\ Len(g[Old]) = Len(h[Old])
  /\ \A s \in Heap : s # Old => g[s] = h[s]
  /\ \A v : Points(g, v) <=> Points(h, v)
  /\ \A v : Points(h, v) => Cell(g, v) = IF v = <<Old, n>> THEN d ELSE Cell(h, v)

LEMMA Replaced ==
  ASSUME now \in Heap, NEW h \in Heaps, NEW n \in 1 .. Len(h[Old]), NEW d \in Cells
  PROVE  CellReplaced(h, n, d, [h EXCEPT ![Old][n] = d])
  <1> DEFINE g == [h EXCEPT ![Old][n] = d]
             w == [h[Old] EXCEPT ![n] = d]
  <1>1. Old \in Heap /\ h[Old] \in Seq(Cells)
    BY ThreeHeaps DEF Heaps
  <1>2. w \in Seq(Cells) /\ Len(w) = Len(h[Old])
        /\ \A m \in 1 .. Len(h[Old]) : w[m] = IF m = n THEN d ELSE h[Old][m]
    BY <1>1
  <1>3. g = [h EXCEPT ![Old] = w]
    BY <1>1 DEF Heaps
  <1> HIDE DEF w
  <1>4. g \in Heaps /\ g[Old] = w /\ \A s \in Heap : s # Old => g[s] = h[s]
    BY <1>1, <1>2, <1>3 DEF Heaps
  <1> HIDE DEF g
  <1>5. \A s \in Heap : Len(g[s]) = Len(h[s])
    BY <1>2, <1>4
  <1>6. \A v : Points(g, v) <=> Points(h, v)
    BY <1>5 DEF Points
  <1>7. ASSUME NEW v, Points(h, v) PROVE Cell(g, v) = IF v = <<Old, n>> THEN d ELSE Cell(h, v)
    <2>1. PICK s, m : s \in Heap /\ m \in 1 .. Len(h[s]) /\ v = <<s, m>>
      BY <1>7 DEF Points
    <2>2. CASE s = Old
      <3>1. v = <<Old, n>> <=> m = n
        BY <2>1, <2>2
      <3> QED
        BY <1>2, <1>4, <2>1, <2>2, <3>1 DEF Cell
    <2>3. CASE s # Old
      <3>1. v # <<Old, n>>
        BY <2>1, <2>3
      <3> QED
        BY <1>4, <2>1, <2>3, <3>1 DEF Cell
    <2> QED
      BY <2>2, <2>3
  <1>8. CellReplaced(h, n, d, g)
    BY <1>2, <1>4, <1>6, <1>7 DEF CellReplaced, w
  <1> QED
    BY <1>8 DEF g

----------------------------------------------------------------------------
(* What copying a value shows                                              *)

WellMade(h)  == \A v : Points(h, v) => Cell(h, v).id \in Id /\ HasItsFields(Cell(h, v))
NoForward(h) == \A m \in 1 .. Len(h[now]) : h[now][m].ty # "FWD"
MarksOf(h)   == {h[now][m].id : m \in {j \in 1 .. Len(h[now]) : h[now][j].ty = "CDATA"}}

\* In g the value w shows what v showed in h, and so does all of L.
Follows(h, v, g, w, L, o) ==
  /\ Represents(g, L \cup ({w} \ {NULL}), o) /\ SameView(h, g, L) /\ (w = NULL <=> v = NULL)
  /\ v # NULL => Cell(g, w).id = Cell(h, v).id /\ Deref(g, w) = Deref(h, v)
  /\ g \in Heaps /\ WellMade(g) /\ NoForward(g)
  /\ \A m \in 1 .. Len(h[now]) : m \in 1 .. Len(g[now]) /\ g[now][m] = h[now][m]
  /\ \A m \in 1 .. Len(g[now]) : m \in 1 .. Len(h[now]) \/ w = <<now, m>>

LEMMA FollowsItself ==
  ASSUME NEW h \in Heaps, WellMade(h), NoForward(h), NEW L, NEW o, Represents(h, L, o),
         NEW v, ValueOf(L, v)
  PROVE  Follows(h, v, h, v, L, o)
  <1>1. L \cup ({v} \ {NULL}) = L
    BY DEF ValueOf
  <1>2. SameView(h, h, L)
    BY DEF SameView, Represents, Sound, Proper
  <1> QED
    BY <1>1, <1>2 DEF Follows

LEMMA AppendedCells ==
  ASSUME NEW s \in Seq(Cells), NEW c \in Cells
  PROVE  /\ \A m \in 1 .. Len(s) : m \in 1 .. Len(Append(s, c)) /\ Append(s, c)[m] = s[m]
         /\ \A m \in 1 .. Len(Append(s, c)) : m \in 1 .. Len(s) \/ m = Len(s) + 1
  OBVIOUS

\* What was forwarded: its copy is the same object.
LEMMA FollowsForward ==
  ASSUME NEW h \in Heaps, WellMade(h), NoForward(h), NEW L, NEW o, Represents(h, L, o),
         NEW v \in L, Cell(h, v).ty = "FWD"
  PROVE  Follows(h, v, h, Cell(h, v).args[1], L, o)
  <1> DEFINE w == Target(h, v)
  <1>1. Proper(h, v)
    BY DEF Represents, Sound
  <1>2. w = Cell(h, v).args[1] /\ Cell(h, w) = Deref(h, v)
    BY DerefTarget DEF Target
  <1> HIDE DEF w
  <1>3. Cell(h, w).ty # "FWD" /\ Cell(h, w).id = Cell(h, v).id /\ Cell(h, w).id \in Id
    BY <1>1, <1>2 DEF Proper
  <1>4. Target(h, w) = w /\ Deref(h, w) = Cell(h, w) /\ Points(h, w)
    BY <1>1, <1>3 DEF Target, Deref, Proper, w
  <1>5. w # NULL
    BY <1>4 DEF Points, NULL
  <1>6. Proper(h, w)
    BY <1>3, <1>4, <1>5 DEF Proper
  <1>7. Alike(h, w, v)
    BY <1>4 DEF Alike, w
  <1>8. Represents(h, L \cup {w}, o)
    BY <1>3, <1>6, <1>7, OneMore
  <1>9. SameView(h, h, L)
    BY DEF SameView, Represents, Sound, Proper
  <1>10. {w} \ {NULL} = {w} /\ v # NULL
    BY <1>1, <1>5 DEF Proper
  <1>11. Follows(h, v, h, w, L, o)
    BY <1>2, <1>3, <1>4, <1>5, <1>8, <1>9, <1>10 DEF Follows
  <1> QED
    BY <1>2, <1>11

\* A cell that is there is shown as before when another is appended.
LEMMA AppendShows ==
  ASSUME now \in Heap, NEW h \in Heaps, NEW c \in Cells, NEW L, NEW o, Represents(h, L, o),
         WellMade(h), NoForward(h), c.id \in Id, HasItsFields(c), c.ty # "FWD"
  PROVE  LET g == [h EXCEPT ![now] = Append(@, c)]
             to == <<now, Len(h[now]) + 1>>
         IN  /\ SameView(h, g, L) /\ WellMade(g) /\ NoForward(g)
             /\ \A v \in L : Target(g, v) = Target(h, v) /\ Cell(g, v) = Cell(h, v)
             /\ Target(g, to) = to /\ Deref(g, to) = c /\ to # NULL
  <1> DEFINE g == [h EXCEPT ![now] = Append(@, c)]
             to == <<now, Len(h[now]) + 1>>
  <1>1. /\ g \in Heaps /\ g[now] = Append(h[now], c)
        /\ Points(g, to) /\ Cell(g, to) = c
        /\ \A v : Points(h, v) => Points(g, v) /\ Cell(g, v) = Cell(h, v)
        /\ \A v : Points(g, v) => Points(h, v) \/ v = to
    BY Appended
  <1> HIDE DEF g, to
  <1>2. ASSUME NEW v \in L
        PROVE  /\ Target(g, v) = Target(h, v) /\ Cell(g, v) = Cell(h, v) /\ Points(g, v)
               /\ Points(g, Target(h, v)) /\ Deref(g, v) = Deref(h, v)
    <2>1. Points(h, v) /\ Points(h, Target(h, v))
      BY DEF Represents, Sound, Proper
    <2>2. Target(g, v) = Target(h, v) /\ Cell(g, v) = Cell(h, v)
      BY <1>1, <2>1 DEF Target
    <2>3. Cell(g, Target(h, v)) = Cell(h, Target(h, v))
      BY <1>1, <2>1
    <2> QED
      BY <1>1, <2>1, <2>2, <2>3, DerefTarget
  <1>3. SameView(h, g, L)
    BY <1>2 DEF SameView
  <1>4. WellMade(g)
    BY <1>1 DEF WellMade
  <1>5. NoForward(g)
    <2>1. h[now] \in Seq(Cells) /\ Len(h[now]) \in Nat
      BY DEF Heaps
    <2>2. \A m \in 1 .. Len(g[now]) :
            IF m \in 1 .. Len(h[now]) THEN g[now][m] = h[now][m] ELSE g[now][m] = c
      BY <1>1, <2>1
    <2> QED
      BY <2>2 DEF NoForward
  <1>6. Target(g, to) = to /\ Deref(g, to) = c
    BY <1>1 DEF Target, Deref
  <1>7. to # NULL
    BY <1>1 DEF Points, NULL
  <1> QED
    BY <1>2, <1>3, <1>4, <1>5, <1>6, <1>7 DEF g, to

\* Raw bits are copied for each pointer to them: the copies are alike.
LEMMA FollowsCopy ==
  ASSUME now \in Heap, NEW h \in Heaps, WellMade(h), NoForward(h), NEW L, NEW o,
         Represents(h, L, o), NEW v \in L, Cell(h, v) \in Cells, Cell(h, v).ty # "FWD",
         ~Forwarded(Cell(h, v))
  PROVE  Follows(h, v, [h EXCEPT ![now] = Append(@, Cell(h, v))], <<now, Len(h[now]) + 1>>, L, o)
  <1> DEFINE c == Cell(h, v)
             g == [h EXCEPT ![now] = Append(@, c)]
             to == <<now, Len(h[now]) + 1>>
  <1>1. Proper(h, v) /\ c.id \in Id /\ HasItsFields(c) /\ Deref(h, v) = c
    BY DEF Represents, Sound, Proper, WellMade, Deref
  <1>2. c.ty \in Unshared /\ c \in Cells /\ c.ty # "FWD"
    BY DEF Forwarded
  <1>3. c.args = <<>>
    <2>1. PICK kind \in Kinds : c.ty = kind[1] /\ Len(c.args) = Fields(kind)
      BY <1>1, <1>2 DEF HasItsFields
    <2>2. Len(c.args) = 0
      BY <1>2, <2>1, KindsAssumption DEF Fields, Unshared
    <2>3. c.args \in Seq(Values0)
      BY <1>2 DEF Cells
    <2> HIDE DEF c
    <2> QED
      BY <2>2, <2>3
  <1> HIDE DEF c
  <1>4. /\ SameView(h, g, L) /\ WellMade(g) /\ NoForward(g)
        /\ Target(g, to) = to /\ Deref(g, to) = c /\ to # NULL
    BY <1>1, <1>2, AppendShows
  <1>5. g \in Heaps /\ g[now] = Append(h[now], c) /\ Points(g, to) /\ Cell(g, to) = c
    BY <1>2, Appended
  <1> HIDE DEF g
  <1>6. Represents(g, L, o) /\ Cell(g, v).id = c.id /\ Deref(g, v) = c
    BY <1>1, <1>4, ViewKept DEF SameView, c
  <1>7. Proper(g, to)
    BY <1>1, <1>2, <1>4, <1>5 DEF Proper
  <1>8. Alike(g, to, v)
    BY <1>2, <1>3, <1>4, <1>6 DEF Alike, Leaf
  <1>9. Represents(g, L \cup {to}, o)
    BY <1>5, <1>6, <1>7, <1>8, OneMore
  <1>10. /\ \A m \in 1 .. Len(h[now]) : m \in 1 .. Len(g[now]) /\ g[now][m] = h[now][m]
         /\ \A m \in 1 .. Len(g[now]) : m \in 1 .. Len(h[now]) \/ m = Len(h[now]) + 1
    <2>1. h[now] \in Seq(Cells) /\ Len(h[now]) \in Nat
      BY DEF Heaps
    <2> QED
      BY <1>2, <1>5, <2>1
  <1>11. {to} \ {NULL} = {to} /\ v # NULL
    BY <1>1, <1>4 DEF Proper
  <1>12. Follows(h, v, g, to, L, o)
    BY <1>1, <1>4, <1>5, <1>9, <1>10, <1>11 DEF Follows, c
  <1> QED
    BY <1>12 DEF g, to, c

\* The cell moves, and what it leaves behind leads to it.
LEMMA FollowsMove ==
  ASSUME now \in Heap, NEW h \in Heaps, WellMade(h), NoForward(h), NEW L, NEW o,
         Represents(h, L, o), NEW v \in L, NEW n \in 1 .. Len(h[Old]), v = <<Old, n>>,
         Cell(h, v) \in Cells, Cell(h, v).ty # "FWD",
         \A m \in 1 .. Len(h[Old]) : h[Old][m].ty = "FWD" => Forward(h, h[Old][m]), h[Third] = <<>>
  PROVE  LET there == [h EXCEPT ![now] = Append(@, Cell(h, v))]
             to == <<now, Len(h[now]) + 1>>
             fwd == [ty |-> "FWD", id |-> Cell(h, v).id, args |-> <<to>>]
         IN  Follows(h, v, [there EXCEPT ![v[1]][v[2]] = fwd], to, L, o)
  <1> DEFINE c == Cell(h, v)
             there == [h EXCEPT ![now] = Append(@, c)]
             to == <<now, Len(h[now]) + 1>>
             fwd == [ty |-> "FWD", id |-> c.id, args |-> <<to>>]
             g == [there EXCEPT ![Old][n] = fwd]
  <1>0. Old \in Heap /\ Third \in Heap /\ Old # now /\ Third # now /\ Old # Third
        /\ \A s \in Heap : s \in {now, Old, Third}
    BY ThreeHeaps
  <1>1. Proper(h, v) /\ c.id \in Id /\ HasItsFields(c) /\ Deref(h, v) = c /\ Target(h, v) = v
        /\ Points(h, v) /\ v # NULL
    BY DEF Represents, Sound, Proper, WellMade, Deref, Target
  <1>2. c \in Cells /\ c.ty # "FWD"
    OBVIOUS
  <1> HIDE DEF c
  <1>3. /\ SameView(h, there, L) /\ WellMade(there) /\ NoForward(there)
        /\ Target(there, to) = to /\ Deref(there, to) = c /\ to # NULL
        /\ \A u \in L : Target(there, u) = Target(h, u) /\ Cell(there, u) = Cell(h, u)
    BY <1>1, <1>2, AppendShows
  <1>4. /\ there \in Heaps /\ there[now] = Append(h[now], c) /\ Points(there, to)
        /\ Cell(there, to) = c /\ there[Old] = h[Old] /\ ~Points(h, to)
        /\ \A u : Points(h, u) => Points(there, u) /\ Cell(there, u) = Cell(h, u)
    <2>1. /\ there \in Heaps /\ there[now] = Append(h[now], c) /\ Points(there, to)
          /\ Cell(there, to) = c /\ ~Points(h, to)
          /\ \A u : Points(h, u) => Points(there, u) /\ Cell(there, u) = Cell(h, u)
      BY <1>2, Appended
    <2>2. there[Old] = h[Old]
      BY <1>0 DEF Heaps
    <2> QED
      BY <2>1, <2>2
  <1>5. fwd \in Cells
    <2>1. Len(h[now]) + 1 \in Nat
      BY DEF Heaps
    <2>2. to \in Values0 /\ "FWD" \in Types /\ c.id \in Ids
      BY <1>1, <2>1 DEF Values0, Types, Ids
    <2>3. <<to>> \in Seq(Values0)
      BY <2>2
    <2> QED
      BY <2>2, <2>3 DEF Cells
  <1>6. fwd.ty = "FWD" /\ fwd.id = c.id /\ fwd.args[1] = to /\ HasItsFields(fwd)
    BY DEF HasItsFields
  <1> HIDE DEF fwd, there, to
  <1>7. /\ g \in Heaps /\ \A s \in Heap : s # Old => g[s] = there[s]
        /\ \A u : Points(g, u) <=> Points(there, u)
        /\ \A u : Points(there, u) => Cell(g, u) = IF u = v THEN fwd ELSE Cell(there, u)
    <2>1. there \in Heaps /\ n \in 1 .. Len(there[Old])
      BY <1>4
    <2>2. CellReplaced(there, n, fwd, g)
      BY <1>5, <2>1, Replaced
    <2> HIDE DEF g
    <2> QED
      BY <2>2 DEF CellReplaced
  <1>8. g = [there EXCEPT ![v[1]][v[2]] = fwd] /\ to # v /\ Points(there, v)
    BY <1>1, <1>4
  <1> HIDE DEF g
  <1>9. Cell(g, to) = c /\ Points(g, to) /\ Cell(g, v) = fwd
    BY <1>4, <1>7, <1>8
  <1>10. Target(g, v) = to /\ Deref(g, v) = c /\ Target(g, to) = to /\ Deref(g, to) = c
    BY <1>2, <1>6, <1>9 DEF Target, Deref
  <1>11. ASSUME NEW u \in L, u # v
         PROVE  /\ Target(g, u) = Target(h, u) /\ Target(h, u) # v /\ Points(g, u)
                /\ Points(g, Target(h, u)) /\ Cell(g, u) = Cell(h, u) /\ Deref(g, u) = Deref(h, u)
    <2>1. Proper(h, u) /\ Points(h, u) /\ Points(h, Target(h, u))
      BY DEF Represents, Sound, Proper
    <2>2. Cell(g, u) = Cell(h, u) /\ Points(g, u) /\ Points(g, Target(h, u))
      BY <1>4, <1>7, <1>11, <2>1
    <2>3. Target(g, u) = Target(h, u)
      BY <2>2 DEF Target
    <2>4. Target(h, u) # v
      <3>1. CASE Cell(h, u).ty # "FWD"
        BY <1>11, <3>1 DEF Target
      <3>2. CASE Cell(h, u).ty = "FWD"
        <4>1. PICK s, m : s \in Heap /\ m \in 1 .. Len(h[s]) /\ u = <<s, m>>
          BY <2>1 DEF Points
        <4>2. Cell(h, u) = h[s][m]
          BY <4>1 DEF Cell
        <4>3. s = Old
          <5>1. s # now
            BY <3>2, <4>1, <4>2 DEF NoForward
          <5>2. s # Third
            BY <4>1
          <5> QED
            BY <1>0, <4>1, <5>1, <5>2
        <4>4. Forward(h, Cell(h, u))
          BY <3>2, <4>1, <4>2, <4>3
        <4>5. PICK k \in 1 .. Len(h[now]) : Cell(h, u).args = <<<<now, k>>>>
          BY <4>4 DEF Forward
        <4>6. Target(h, u) = <<now, k>>
          BY <3>2, <4>5 DEF Target
        <4> QED
          BY <1>0, <4>6
      <3> QED
        BY <3>1, <3>2
    <2>5. Deref(g, u) = Deref(h, u)
      <3>1. Cell(g, Target(h, u)) = Cell(h, Target(h, u))
        BY <1>4, <1>7, <2>1, <2>4
      <3> QED
        BY <2>3, <3>1, DerefTarget
    <2> QED
      BY <2>2, <2>3, <2>4, <2>5
  <1>12. SameView(h, g, L)
    <2>1. ASSUME NEW u \in L
          PROVE  /\ Points(g, u) /\ Points(g, Target(g, u))
                 /\ Cell(g, u).id = Cell(h, u).id /\ Deref(g, u) = Deref(h, u)
      <3>1. CASE u = v
        <4>1. Points(g, v) /\ Cell(g, v).id = c.id
          BY <1>6, <1>7, <1>8, <1>9
        <4> QED
          BY <1>1, <1>9, <1>10, <3>1, <4>1 DEF c
      <3>2. CASE u # v
        BY <1>11, <3>2
      <3> QED
        BY <3>1, <3>2
    <2>2. ASSUME NEW u \in L, NEW w \in L, Target(h, u) = Target(h, w)
          PROVE  Target(g, u) = Target(g, w)
      BY <1>1, <1>11, <2>2
    <2> QED
      BY <2>1, <2>2 DEF SameView
  <1>13. Represents(g, L, o)
    BY <1>12, ViewKept
  <1>14. Proper(g, to) /\ Alike(g, to, v) /\ Cell(g, to).id = Cell(g, v).id
    BY <1>1, <1>2, <1>3, <1>6, <1>9, <1>10 DEF Proper, Alike
  <1>15. Represents(g, L \cup {to}, o)
    BY <1>13, <1>14, OneMore
  <1>16. /\ \A m \in 1 .. Len(h[now]) : m \in 1 .. Len(g[now]) /\ g[now][m] = h[now][m]
         /\ \A m \in 1 .. Len(g[now]) : m \in 1 .. Len(h[now]) \/ m = Len(h[now]) + 1
    <2>1. h[now] \in Seq(Cells) /\ Len(h[now]) \in Nat /\ g[now] = Append(h[now], c)
      BY <1>0, <1>4, <1>7 DEF Heaps
    <2> QED
      BY <1>2, <2>1, AppendedCells
  <1>17. WellMade(g) /\ NoForward(g)
    <2>1. WellMade(g)
      BY <1>1, <1>3, <1>6, <1>7 DEF WellMade
    <2>2. g[now] = there[now]
      BY <1>0, <1>7
    <2> QED
      BY <1>3, <2>1, <2>2 DEF NoForward
  <1>18. {to} \ {NULL} = {to}
    BY <1>3
  <1>19. Follows(h, v, g, to, L, o)
    <2>1. Cell(g, to).id = Cell(h, v).id /\ Deref(g, to) = Deref(h, v)
      BY <1>1, <1>9, <1>10 DEF c
    <2>2. \A m \in 1 .. Len(g[now]) : m \in 1 .. Len(h[now]) \/ to = <<now, m>>
      BY <1>16 DEF to
    <2> QED
      BY <1>1, <1>3, <1>7, <1>12, <1>15, <1>16, <1>17, <1>18, <2>1, <2>2 DEF Follows
  <1>20. Follows(h, v, [there EXCEPT ![v[1]][v[2]] = fwd], to, L, o)
    BY <1>8, <1>19
  <1> QED
    BY <1>20 DEF there, to, fwd, c

\* Whatever copying a value does, it goes on showing what it showed.
LEMMA CopyFollows ==
  ASSUME now \in Heap, NEW h, Moving(h), WellMade(h), NoForward(h), NEW L, NEW o,
         Represents(h, L, o), NEW v, ValueOf(L, v), Into(h, Old, v)
  PROVE  Follows(h, v, Copied(h, v).heap, Copied(h, v).val, L, o)
  <1> DEFINE r == Copied(h, v)
             c == Cell(h, v)
             to == <<now, Len(h[now]) + 1>>
             there == [h EXCEPT ![now] = Append(@, c)]
             fwd == [ty |-> "FWD", id |-> c.id, args |-> <<to>>]
             moved == [there EXCEPT ![v[1]][v[2]] = fwd]
  <1>0. h \in Heaps /\ h[Third] = <<>> /\ Old \in Heap
        /\ \A m \in 1 .. Len(h[Old]) : h[Old][m].ty = "FWD" => Forward(h, h[Old][m])
    BY ThreeHeaps DEF Moving, OldOK, Unscanned
  <1>1. CASE r.heap = h /\ r.val = v
    BY <1>0, <1>1, FollowsItself
  <1>2. CASE v # NULL /\ c.ty = "FWD" /\ r.heap = h /\ r.val = c.args[1]
    <2>1. v \in L
      BY <1>2 DEF ValueOf
    <2>2. Follows(h, v, h, Cell(h, v).args[1], L, o)
      BY <1>0, <1>2, <2>1, FollowsForward
    <2> QED
      BY <1>2, <2>2
  <1>3. CASE v # NULL /\ c.ty # "FWD" /\ r.val = to
             /\ ((~Forwarded(c) /\ r.heap = there) \/ r.heap = moved)
    <2>1. v \in L
      BY <1>3 DEF ValueOf
    <2>2. PICK n \in 1 .. Len(h[Old]) : v = <<Old, n>>
      BY <1>3 DEF Into
    <2>3. c \in Cells
      <3>1. h[Old] \in Seq(Cells)
        BY <1>0 DEF Heaps
      <3>2. h[Old][n] \in Cells
        BY <3>1
      <3> QED
        BY <2>2, <3>2 DEF Cell
    <2>4. ~Forwarded(c) => Follows(h, v, there, to, L, o)
      BY <1>0, <1>3, <2>1, <2>3, FollowsCopy
    <2>5. Follows(h, v, moved, to, L, o)
      BY <1>0, <1>3, <2>1, <2>2, <2>3, FollowsMove
    <2> HIDE DEF there, moved, to, c
    <2> QED
      BY <1>3, <2>4, <2>5
  <1>4. \/ r.heap = h /\ r.val = v
        \/ v # NULL /\ c.ty = "FWD" /\ r.heap = h /\ r.val = c.args[1]
        \/ v # NULL /\ c.ty # "FWD" /\ r.val = to
             /\ ((~Forwarded(c) /\ r.heap = there) \/ r.heap = moved)
    <2> HIDE DEF there, moved, to, c, fwd
    <2>1. CASE v = NULL
      BY <2>1 DEF Copied
    <2>2. CASE v # NULL /\ c.ty = "FWD"
      BY <2>2 DEF Copied, c
    <2>3. CASE v # NULL /\ c.ty # "FWD" /\ ~RoomToCopy(h, c)
      BY <2>3 DEF Copied, c
    <2>4. CASE v # NULL /\ c.ty # "FWD" /\ RoomToCopy(h, c) /\ ~Forwarded(c)
      BY <2>4 DEF Copied, c, there, to
    <2>5. CASE v # NULL /\ c.ty # "FWD" /\ RoomToCopy(h, c) /\ Forwarded(c) /\ Size(c) < FwdSize
      BY <2>5 DEF Copied, c
    <2>6. CASE v # NULL /\ c.ty # "FWD" /\ RoomToCopy(h, c) /\ Forwarded(c) /\ ~(Size(c) < FwdSize)
      BY <2>6 DEF Copied, c, there, to, moved, fwd
    <2> QED
      BY <2>1, <2>2, <2>3, <2>4, <2>5, <2>6
  <1> HIDE DEF r, c, there, moved, to
  <1> QED
    BY <1>1, <1>2, <1>3, <1>4 DEF r

----------------------------------------------------------------------------
(* What writing a field shows                                              *)

\* In w the field k of the cell i of the working heap holds v, all else is as in g.
FieldShows(g, i, k, v, w) ==
  /\ w \in Heaps /\ Len(w[now]) = Len(g[now])
  /\ \A u : Points(w, u) <=> Points(g, u)
  /\ \A u : Points(g, u) /\ u # <<now, i>> => Cell(w, u) = Cell(g, u)
  /\ Cell(w, <<now, i>>).ty = Cell(g, <<now, i>>).ty
  /\ Cell(w, <<now, i>>).id = Cell(g, <<now, i>>).id
  /\ Cell(w, <<now, i>>).args = [Cell(g, <<now, i>>).args EXCEPT ![k] = v]

LEMMA FieldCells ==
  ASSUME now \in Heap, NEW g \in Heaps, NEW i \in 1 .. Len(g[now]),
         NEW k \in DOMAIN g[now][i].args, NEW v \in Values0
  PROVE  FieldShows(g, i, k, v, [g EXCEPT ![now][i].args[k] = v])
  <1> DEFINE c == g[now][i]
             args == [c.args EXCEPT ![k] = v]
             d == [c EXCEPT !.args = args]
             w == [g EXCEPT ![now][i].args[k] = v]
  <1>1. g[now] \in Seq(Cells) /\ c \in Cells /\ c.args \in Seq(Values0)
    <2>1. g[now] \in Seq(Cells)
      BY DEF Heaps
    <2>2. c \in Cells
      BY <2>1
    <2> QED
      BY <2>1, <2>2 DEF Cells
  <1>2. args \in Seq(Values0)
    BY <1>1
  <1> HIDE DEF args
  <1>3. d \in Cells /\ d.args = args /\ d.ty = c.ty /\ d.id = c.id
    BY <1>1, <1>2 DEF Cells
  <1>4. w = [g EXCEPT ![now] = [g[now] EXCEPT ![i] = d]]
    BY DEF args
  <1> HIDE DEF d, w
  <1>5. [g[now] EXCEPT ![i] = d] \in Seq(Cells) /\ Len([g[now] EXCEPT ![i] = d]) = Len(g[now])
        /\ \A m \in 1 .. Len(g[now]) : [g[now] EXCEPT ![i] = d][m] = IF m = i THEN d ELSE g[now][m]
    BY <1>1, <1>3
  <1>6. w \in Heaps /\ w[now] = [g[now] EXCEPT ![i] = d] /\ \A s \in Heap : s # now => w[s] = g[s]
    BY <1>4, <1>5 DEF Heaps
  <1>7. \A s \in Heap : Len(w[s]) = Len(g[s])
    BY <1>5, <1>6
  <1>8. \A u : Points(w, u) <=> Points(g, u)
    BY <1>7 DEF Points
  <1>9. ASSUME NEW u, Points(g, u), u # <<now, i>> PROVE Cell(w, u) = Cell(g, u)
    <2>1. PICK s, m : s \in Heap /\ m \in 1 .. Len(g[s]) /\ u = <<s, m>>
      BY <1>9 DEF Points
    <2>2. CASE s = now
      <3>1. m # i
        BY <1>9, <2>1, <2>2
      <3> QED
        BY <1>5, <1>6, <2>1, <2>2, <3>1 DEF Cell
    <2>3. CASE s # now
      BY <1>6, <2>1, <2>3 DEF Cell
    <2> QED
      BY <2>2, <2>3
  <1>10. Cell(w, <<now, i>>) = d /\ Cell(g, <<now, i>>) = c
    BY <1>5, <1>6 DEF Cell
  <1>11. FieldShows(g, i, k, v, w)
    BY <1>3, <1>6, <1>7, <1>8, <1>9, <1>10 DEF FieldShows, args
  <1> QED
    BY <1>11 DEF w

\* The object when its field k is v.
ObjWith(g, u, k, v) ==
  [ty |-> Deref(g, u).ty,
   args |-> [j \in DOMAIN Deref(g, u).args |-> IF j = k THEN IdIn(g, v) ELSE IdIn(g, Deref(g, u).args[j])]]

\* What a pointer shows, and leads to, when the field is written.
FieldSeen(g, i, k, v, w, u) ==
  /\ Points(w, u) /\ Target(w, u) = Target(g, u) /\ Cell(w, u).id = Cell(g, u).id
  /\ Points(w, Target(w, u))
  /\ Target(g, u) # <<now, i>> => Deref(w, u) = Deref(g, u)
  /\ Target(g, u) = <<now, i>> =>
       /\ Deref(w, u).ty = Deref(g, u).ty /\ Deref(w, u).id = Deref(g, u).id
       /\ Deref(w, u).args = [Deref(g, u).args EXCEPT ![k] = v]
       /\ k \in DOMAIN Deref(g, u).args
  /\ Kids(w, u) \subseteq Kids(g, u) \cup ({v} \ {NULL})
  /\ Target(g, u) # <<now, i>> => Kids(w, u) = Kids(g, u)
  /\ Target(g, u) = <<now, i>> =>
       /\ Kids(g, u) \subseteq Kids(w, u) \cup {Cell(g, <<now, i>>).args[k]}
       /\ v # NULL => v \in Kids(w, u)

LEMMA FieldView ==
  ASSUME now \in Heap, NEW g \in Heaps, NEW i \in 1 .. Len(g[now]),
         Cell(g, <<now, i>>).ty # "FWD", NEW k \in DOMAIN Cell(g, <<now, i>>).args,
         NEW L, NEW o, Represents(g, L, o), NEW v, ValueOf(L, v),
         NEW w, FieldShows(g, i, k, v, w), NEW u \in L
  PROVE  FieldSeen(g, i, k, v, w, u)
  <1> DEFINE p == <<now, i>>
             t == Target(g, u)
  <1>1. Points(g, u) /\ Points(g, t)
    BY DEF Represents, Sound, Proper
  <1>2. Points(w, u) /\ Points(w, t)
    BY <1>1 DEF FieldShows
  <1>3. t = Target(w, u) /\ Cell(w, u).id = Cell(g, u).id
    <2>1. CASE u = p
      BY <2>1 DEF FieldShows, Target
    <2>2. CASE u # p
      BY <1>1, <2>2 DEF FieldShows, Target
    <2> QED
      BY <2>1, <2>2
  <1>4. Deref(w, u) = Cell(w, t) /\ Deref(g, u) = Cell(g, t)
    BY <1>3, DerefTarget
  <1> HIDE DEF t
  <1>5. t # p => Deref(w, u) = Deref(g, u)
    BY <1>1, <1>4 DEF FieldShows
  <1>6. t = p => /\ Deref(w, u).ty = Deref(g, u).ty /\ Deref(w, u).id = Deref(g, u).id
                 /\ Deref(w, u).args = [Deref(g, u).args EXCEPT ![k] = v]
                 /\ k \in DOMAIN Deref(g, u).args
    BY <1>4 DEF FieldShows
  <1>7. t # p => Kids(w, u) = Kids(g, u)
    BY <1>5 DEF Kids
  <1>8. t = p => /\ Kids(w, u) \subseteq Kids(g, u) \cup ({v} \ {NULL})
                 /\ Kids(g, u) \subseteq Kids(w, u) \cup {Cell(g, p).args[k]}
                 /\ v # NULL => v \in Kids(w, u)
    <2> SUFFICES ASSUME t = p
                 PROVE  /\ Kids(w, u) \subseteq Kids(g, u) \cup ({v} \ {NULL})
                        /\ Kids(g, u) \subseteq Kids(w, u) \cup {Cell(g, p).args[k]}
                        /\ v # NULL => v \in Kids(w, u)
      OBVIOUS
    <2> DEFINE a == Deref(g, u).args
               b == Deref(w, u).args
    <2>1. b = [a EXCEPT ![k] = v] /\ k \in DOMAIN a /\ a = Cell(g, p).args
      BY <1>4, <1>6
    <2>2. Kids(w, u) = {b[j] : j \in DOMAIN b} \ {NULL} /\ Kids(g, u) = {a[j] : j \in DOMAIN a} \ {NULL}
      BY DEF Kids
    <2> HIDE DEF a, b
    <2>3. DOMAIN b = DOMAIN a /\ b[k] = v /\ \A j \in DOMAIN a : j # k => b[j] = a[j]
      BY <2>1
    <2> QED
      BY <2>1, <2>2, <2>3
  <1>9. Kids(w, u) \subseteq Kids(g, u) \cup ({v} \ {NULL})
    BY <1>7, <1>8
  <1> QED
    BY <1>2, <1>3, <1>5, <1>6, <1>7, <1>8, <1>9 DEF FieldSeen, t

LEMMA FieldRepresents ==
  ASSUME now \in Heap, NEW g \in Heaps, NEW i \in 1 .. Len(g[now]),
         Cell(g, <<now, i>>).ty # "FWD", NEW k \in DOMAIN Cell(g, <<now, i>>).args,
         NEW L, NEW o, Represents(g, L, o), NEW v, ValueOf(L, v),
         NEW w, FieldShows(g, i, k, v, w), NEW q,
         \A u \in L : q[Cell(g, u).id] = IF Target(g, u) = <<now, i>> THEN ObjWith(g, u, k, v)
                                         ELSE o[Cell(g, u).id]
  PROVE  Represents(w, L, q) /\ \A u : ValueOf(L, u) => IdIn(w, u) = IdIn(g, u)
  <1> DEFINE p == <<now, i>>
  <1>0. Sound(g, L) /\ \A u \in L : Obj(g, u) = o[Cell(g, u).id]
    BY DEF Represents
  <1>f. \A u \in L : FieldSeen(g, i, k, v, w, u)
    BY FieldView
  <1>1. \A u \in L : Cell(w, u).id = Cell(g, u).id
    BY <1>f DEF FieldSeen
  <1>2. \A u : ValueOf(L, u) => IdIn(w, u) = IdIn(g, u)
    BY <1>1 DEF ValueOf, IdIn
  <1>3. ASSUME NEW u \in L PROVE Proper(w, u) /\ Kids(w, u) \subseteq L
    <2>1. Proper(g, u) /\ Kids(g, u) \subseteq L
      BY <1>0 DEF Sound
    <2>2. /\ Points(w, u) /\ Points(w, Target(w, u)) /\ Cell(w, u).id = Cell(g, u).id
          /\ Deref(w, u).ty = Deref(g, u).ty /\ Deref(w, u).id = Deref(g, u).id
      BY <1>f DEF FieldSeen
    <2>3. Kids(w, u) \subseteq Kids(g, u) \cup ({v} \ {NULL})
      BY <1>f DEF FieldSeen
    <2> QED
      BY <2>1, <2>2, <2>3 DEF Proper, ValueOf
  <1>4. ASSUME NEW u \in L, Leaf(Deref(g, u)) PROVE Deref(w, u) = Deref(g, u)
    <2>1. Deref(g, u).args = <<>>
      BY <1>4 DEF Leaf
    <2>2. Target(g, u) # p
      <3>1. k \notin DOMAIN Deref(g, u).args
        BY <2>1
      <3> QED
        BY <3>1, <1>f DEF FieldSeen
    <2> QED
      BY <2>2, <1>f DEF FieldSeen
  <1>5. ASSUME NEW u1 \in L, NEW u2 \in L, Cell(w, u1).id = Cell(w, u2).id
        PROVE  Alike(w, u1, u2)
    <2>1. Alike(g, u1, u2)
      BY <1>0, <1>1, <1>5 DEF Sound
    <2>2. CASE Target(g, u1) = Target(g, u2)
      <3>1. Target(w, u1) = Target(g, u1) /\ Target(w, u2) = Target(g, u2)
        BY <1>f DEF FieldSeen
      <3> QED
        BY <2>2, <3>1 DEF Alike
    <2>3. CASE Leaf(Deref(g, u1)) /\ Leaf(Deref(g, u2)) /\ Deref(g, u1).ty = Deref(g, u2).ty
      <3>1. Deref(w, u1) = Deref(g, u1) /\ Deref(w, u2) = Deref(g, u2)
        BY <1>4, <2>3
      <3> QED
        BY <2>3, <3>1 DEF Alike
    <2> QED
      BY <2>1, <2>2, <2>3 DEF Alike
  <1>6. Sound(w, L)
    BY <1>3, <1>5 DEF Sound
  <1>7. ASSUME NEW u \in L PROVE Obj(w, u) = q[Cell(w, u).id]
    <2>1. \A j \in DOMAIN Deref(g, u).args : ValueOf(L, Deref(g, u).args[j])
      BY <1>0 DEF Sound, Kids, ValueOf
    <2>2. CASE Target(g, u) # p
      <3>1. Deref(w, u) = Deref(g, u)
        BY <2>2, <1>f DEF FieldSeen
      <3>2. Obj(w, u) = Obj(g, u)
        BY <1>2, <2>1, <3>1 DEF Obj
      <3> QED
        BY <1>0, <1>1, <2>2, <3>2
    <2>3. CASE Target(g, u) = p
      <3>1. /\ Deref(w, u).ty = Deref(g, u).ty
            /\ Deref(w, u).args = [Deref(g, u).args EXCEPT ![k] = v]
            /\ k \in DOMAIN Deref(g, u).args
        BY <2>3, <1>f DEF FieldSeen
      <3>2. IdIn(w, v) = IdIn(g, v)
        BY <1>2
      <3> DEFINE a == Deref(g, u).args
                 b == Deref(w, u).args
      <3>3. DOMAIN b = DOMAIN a /\ \A j \in DOMAIN a : b[j] = IF j = k THEN v ELSE a[j]
        BY <3>1
      <3>4. \A j \in DOMAIN a : IdIn(w, b[j]) = IF j = k THEN IdIn(g, v) ELSE IdIn(g, a[j])
        <4> HIDE DEF a, b
        <4>1. \A j \in DOMAIN a : ValueOf(L, a[j])
          BY <2>1 DEF a
        <4> QED
          BY <1>2, <3>2, <3>3, <4>1
      <3>5. [j \in DOMAIN b |-> IdIn(w, b[j])]
              = [j \in DOMAIN a |-> IF j = k THEN IdIn(g, v) ELSE IdIn(g, a[j])]
        <4> HIDE DEF a, b
        <4> QED
          BY <3>3, <3>4
      <3>6. Obj(w, u) = ObjWith(g, u, k, v)
        BY <3>1, <3>5 DEF Obj, ObjWith
      <3> QED
        BY <1>1, <2>3, <3>6
    <2> QED
      BY <2>2, <2>3
  <1> QED
    BY <1>2, <1>6, <1>7 DEF Represents

\* A field that is written with what it showed before: the objects are the same.
LEMMA FieldFollows ==
  ASSUME now \in Heap, NEW g \in Heaps, NEW i \in 1 .. Len(g[now]),
         Cell(g, <<now, i>>).ty # "FWD", NEW k \in DOMAIN Cell(g, <<now, i>>).args,
         NEW L, NEW o, Represents(g, L, o), NEW v, ValueOf(L, v),
         NEW w, FieldShows(g, i, k, v, w),
         IdIn(g, Cell(g, <<now, i>>).args[k]) = IdIn(g, v)
  PROVE  Represents(w, L, o) /\ \A u : ValueOf(L, u) => IdIn(w, u) = IdIn(g, u)
  <1>1. ASSUME NEW u \in L
        PROVE  o[Cell(g, u).id] = IF Target(g, u) = <<now, i>> THEN ObjWith(g, u, k, v)
                                  ELSE o[Cell(g, u).id]
    <2> SUFFICES ASSUME Target(g, u) = <<now, i>> PROVE o[Cell(g, u).id] = ObjWith(g, u, k, v)
      OBVIOUS
    <2>1. Obj(g, u) = o[Cell(g, u).id]
      BY DEF Represents
    <2>2. Deref(g, u) = Cell(g, <<now, i>>)
      BY DerefTarget
    <2>3. \A j \in DOMAIN Deref(g, u).args :
            IdIn(g, Deref(g, u).args[j]) = IF j = k THEN IdIn(g, v) ELSE IdIn(g, Deref(g, u).args[j])
      BY <2>2
    <2>4. Obj(g, u) = ObjWith(g, u, k, v)
      BY <2>3 DEF Obj, ObjWith
    <2> QED
      BY <2>1, <2>4
  <1> QED
    BY <1>1, FieldRepresents

----------------------------------------------------------------------------
(* What is copied is reached                                               *)

LEMMA NotNull == \A s, n : <<s, n>> # NULL
  BY DEF NULL

CopiesIn(h, S) == \A m \in 1 .. Len(h[now]) : <<now, m>> \in S

CopiedShown(g, q, L, w) ==
  CopiesIn(g, Shown(g, q)) /\ Pointers(q) \ {NULL} \subseteq L \cup ({w} \ {NULL})

\* A root that is copied: what was copied before is reached still, and so is the copy.
LEMMA RootCopied ==
  ASSUME now \in Heap, NEW h, NEW L, NEW o, Represents(h, L, o), NEW v, ValueOf(L, v),
         NEW g, NEW w, Follows(h, v, g, w, L, o), Into(h, Old, v),
         NEW r, NEW q, NEW x \in Root, r[x] = v, q[x] = w, \A y \in Root : y # x => q[y] = r[y],
         Pointers(r) \ {NULL} \subseteq L, CopiesIn(h, Shown(h, r))
  PROVE  CopiedShown(g, q, L, w)
  <1> DEFINE N == L \cup ({w} \ {NULL})
             S == Shown(g, q)
             K == (S \cap L) \cup ({v} \ {NULL})
  <1>1. Sound(h, L) /\ Sound(g, N) /\ \A u \in L : Kids(g, u) = Kids(h, u)
    BY ViewKept DEF Represents, Follows
  <1>2. Pointers(q) \ {NULL} \subseteq N
    BY DEF Pointers
  <1>3. S \subseteq N /\ Pointers(q) \ {NULL} \subseteq S /\ \A u \in S : Kids(g, u) \subseteq S
    <2> HIDE DEF N, S
    <2>1. Pointers(q) \ {NULL} \subseteq S /\ S \subseteq N /\ Sound(g, S)
      BY <1>1, <1>2, ReachedSound DEF Shown, S
    <2> QED
      BY <2>1 DEF Sound
  <1> HIDE DEF S
  <1>4. Pointers(r) \ {NULL} \subseteq K
    <2> SUFFICES ASSUME NEW y \in Root, r[y] # NULL PROVE r[y] \in K
      BY DEF Pointers
    <2>1. CASE y = x
      BY <2>1
    <2>2. CASE y # x
      <3>1. q[y] = r[y] /\ q[y] \in Pointers(q) /\ r[y] \in Pointers(r)
        BY <2>2 DEF Pointers
      <3> QED
        BY <1>3, <3>1
    <2> QED
      BY <2>1, <2>2
  <1>5. ASSUME NEW u \in K PROVE Kids(h, u) \subseteq K
    <2>1. CASE u \in S \cap L
      BY <1>1, <1>3, <2>1 DEF Sound
    <2>2. CASE u = v /\ v # NULL
      <3>1. v \in L /\ Kids(h, v) \subseteq L
        BY <1>1, <2>2 DEF ValueOf, Sound
      <3>2. w # NULL /\ Kids(g, w) = Kids(h, v)
        BY <2>2 DEF Follows, Kids
      <3>3. w \in S
        BY <1>3, <3>2 DEF Pointers
      <3> QED
        BY <1>3, <2>2, <3>1, <3>2, <3>3
    <2> QED
      BY <2>1, <2>2
  <1>6. Shown(h, r) \subseteq K
    <2> HIDE DEF K
    <2> QED
      BY <1>1, <1>4, <1>5, ReachedSound DEF Shown
  <1>7. \A m : v # <<now, m>>
    BY ThreeHeaps, NotNull DEF Into
  <1>8. ASSUME NEW m \in 1 .. Len(g[now]) PROVE <<now, m>> \in S
    <2>1. CASE m \in 1 .. Len(h[now])
      BY <1>6, <1>7, <2>1 DEF CopiesIn
    <2>2. CASE w = <<now, m>>
      <3>1. w # NULL
        BY <2>2 DEF NULL
      <3> QED
        BY <1>3, <2>2, <3>1 DEF Pointers
    <2> QED
      BY <2>1, <2>2 DEF Follows
  <1> QED
    BY <1>2, <1>8 DEF CopiesIn, S, CopiedShown

CopyShown(h, L, w, z, r, o) ==
  /\ Represents(z, L \cup ({w} \ {NULL}), o) /\ CopiesIn(z, Shown(z, r))
  /\ \A u : ValueOf(L, u) => IdIn(z, u) = IdIn(h, u)

\* A field that is copied, and then holds the copy.
LEMMA FieldCopied ==
  ASSUME now \in Heap, NEW h, NEW L, NEW o, Represents(h, L, o), NEW v, ValueOf(L, v),
         NEW g, NEW w, Follows(h, v, g, w, L, o), Into(h, Old, v),
         NEW i \in 1 .. Len(h[now]), NEW k \in DOMAIN h[now][i].args, h[now][i].args[k] = v,
         NEW z, FieldShows(g, i, k, w, z), h[now][i].ty # "FWD",
         NEW r, Pointers(r) \ {NULL} \subseteq L, CopiesIn(h, Shown(h, r))
  PROVE  CopyShown(h, L, w, z, r, o)
  <1> DEFINE N == L \cup ({w} \ {NULL})
             S == Shown(z, r)
             p == <<now, i>>
             K == (S \cap L) \cup (IF w \in S THEN {v} \ {NULL} ELSE {})
  <1>1. /\ Sound(h, L) /\ Represents(g, N, o)
        /\ \A u \in L : Kids(g, u) = Kids(h, u)
        /\ \A u : ValueOf(L, u) => IdIn(g, u) = IdIn(h, u)
    BY ViewKept DEF Represents, Follows
  <1>2. /\ g \in Heaps /\ i \in 1 .. Len(g[now]) /\ Cell(g, p) = h[now][i] /\ Cell(g, p).ty # "FWD"
        /\ k \in DOMAIN Cell(g, p).args /\ Cell(g, p).args[k] = v
    BY DEF Follows, Cell
  <1>3. ValueOf(N, w) /\ IdIn(g, v) = IdIn(g, w) /\ ValueOf(L, v)
    <2>1. v # NULL => Cell(g, w).id = Cell(h, v).id
      BY DEF Follows
    <2>2. v # NULL => v \in L
      BY DEF ValueOf
    <2>3. v # NULL => Cell(g, v).id = Cell(h, v).id
      BY <2>2 DEF Follows, SameView
    <2> QED
      BY <2>1, <2>3 DEF ValueOf, IdIn, Follows
  <1>4. Represents(z, N, o) /\ \A u : ValueOf(N, u) => IdIn(z, u) = IdIn(g, u)
    <2> HIDE DEF N
    <2> QED
      BY <1>1, <1>2, <1>3, FieldFollows
  <1>5. \A u \in N : FieldSeen(g, i, k, w, z, u)
    <2> HIDE DEF N
    <2> QED
      BY <1>1, <1>2, <1>3, FieldView
  <1>6. S \subseteq N /\ Pointers(r) \ {NULL} \subseteq S /\ \A u \in S : Kids(z, u) \subseteq S
    <2>1. Sound(z, N) /\ Pointers(r) \ {NULL} \subseteq N
      BY <1>4 DEF Represents
    <2> HIDE DEF N, S
    <2>2. Pointers(r) \ {NULL} \subseteq S /\ S \subseteq N /\ Sound(z, S)
      BY <2>1, ReachedSound DEF Shown, S
    <2> QED
      BY <2>2 DEF Sound
  <1> HIDE DEF S
  <1>7. Pointers(r) \ {NULL} \subseteq K
    BY <1>6
  <1>8. ASSUME NEW u \in S, Kids(g, u) \subseteq L PROVE Kids(g, u) \subseteq K
    <2>1. FieldSeen(g, i, k, w, z, u) /\ Kids(z, u) \subseteq S
      BY <1>5, <1>6
    <2>2. CASE Target(g, u) # p
      BY <1>8, <2>1, <2>2 DEF FieldSeen
    <2>3. CASE Target(g, u) = p
      <3>1. /\ Kids(g, u) \subseteq Kids(z, u) \cup {v}
            /\ w # NULL => w \in Kids(z, u)
        BY <1>2, <2>1, <2>3 DEF FieldSeen
      <3>2. NULL \notin Kids(g, u)
        BY DEF Kids
      <3>3. w = NULL <=> v = NULL
        BY DEF Follows
      <3> QED
        BY <1>8, <2>1, <3>1, <3>2, <3>3
    <2> QED
      BY <2>2, <2>3
  <1>9. ASSUME NEW u \in K PROVE Kids(h, u) \subseteq K
    <2>1. CASE u \in S \cap L
      BY <1>1, <1>8, <2>1 DEF Sound
    <2>2. CASE u = v /\ v # NULL /\ w \in S
      <3>1. v \in L /\ Kids(h, v) \subseteq L
        BY <1>1, <2>2 DEF ValueOf, Sound
      <3>2. Kids(g, w) = Kids(h, v)
        BY <2>2 DEF Follows, Kids
      <3> QED
        BY <1>8, <2>2, <3>1, <3>2
    <2> QED
      BY <2>1, <2>2
  <1>10. Shown(h, r) \subseteq K
    <2> HIDE DEF K
    <2> QED
      BY <1>1, <1>7, <1>9, ReachedSound DEF Shown
  <1>11. \A m : v # <<now, m>>
    BY ThreeHeaps, NotNull DEF Into
  <1>12. \A m \in 1 .. Len(h[now]) : <<now, m>> \in S
    BY <1>10, <1>11 DEF CopiesIn
  <1>13. w # NULL => w \in S
    <2>1. p \in S
      BY <1>12
    <2>2. Target(g, p) = p
      BY <1>2 DEF Target
    <2>3. FieldSeen(g, i, k, w, z, p) /\ Kids(z, p) \subseteq S
      BY <1>5, <1>6, <2>1
    <2> QED
      BY <2>2, <2>3 DEF FieldSeen
  <1>14. ASSUME NEW m \in 1 .. Len(z[now]) PROVE <<now, m>> \in S
    <2>1. m \in 1 .. Len(g[now])
      BY DEF FieldShows
    <2>2. CASE w = <<now, m>>
      <3>1. w # NULL
        BY <2>2 DEF NULL
      <3> QED
        BY <1>13, <2>2, <3>1
    <2> QED
      BY <1>12, <2>1, <2>2 DEF Follows
  <1>15. \A u : ValueOf(L, u) => IdIn(z, u) = IdIn(h, u)
    BY <1>1, <1>4 DEF ValueOf
  <1> QED
    BY <1>4, <1>14, <1>15 DEF CopiesIn, S, CopyShown

----------------------------------------------------------------------------
(* Room for what is left to copy                                           *)

\* The words of the cells that are not forwarded, a step at a time.
Left(c) == IF c.ty = "FWD" THEN 0 ELSE Size(c)
LeftTo(cells, n, f) ==
  f = [m \in 0 .. n |-> IF m = 0 THEN 0 ELSE f[m - 1] + Left(cells[m])]

LEMMA LeftNat ==
  ASSUME NEW cells \in Seq(Cells), NEW f, LeftTo(cells, Len(cells), f)
  PROVE  \A m \in 0 .. Len(cells) : f[m] \in Nat
  <1> DEFINE n == Len(cells)
             Bad == {m \in 0 .. n : f[m] \notin Nat}
  <1>0. n \in Nat
    OBVIOUS
  <1>1. SUFFICES ASSUME Bad # {} PROVE FALSE
    OBVIOUS
  <1>2. PICK m \in Bad : \A k \in Bad : m <= k
    <2>1. Bad \subseteq Nat
      BY <1>0
    <2> HIDE DEF Bad
    <2> QED
      BY <1>1, <2>1, LeastNumber
  <1>3. m \in 0 .. n /\ f[m] \notin Nat
    BY <1>2
  <1>4. f[m] = IF m = 0 THEN 0 ELSE f[m - 1] + Left(cells[m])
    BY <1>3 DEF LeftTo
  <1>5. m # 0
    BY <1>3, <1>4
  <1>6. m - 1 \in 0 .. n /\ m - 1 \notin Bad /\ m \in 1 .. n
    BY <1>0, <1>2, <1>3, <1>5
  <1>7. f[m - 1] \in Nat
    BY <1>6
  <1>8. Left(cells[m]) \in Nat
    <2>1. cells[m] \in Cells
      BY <1>6
    <2> QED
      BY <2>1, CellSize DEF Left
  <1> QED
    BY <1>3, <1>4, <1>5, <1>7, <1>8

\* Of cells that are all still there everything is left.
LEMMA LeftAll ==
  ASSUME NEW cells \in Seq(Cells), \A m \in 1 .. Len(cells) : cells[m].ty # "FWD"
  PROVE  \E f : LeftTo(cells, Len(cells), f) /\ f[Len(cells)] = Used(cells)
  <1>1. PICK f : SumTo(cells, Len(cells), f) /\ Used(cells) = f[Len(cells)]
    BY SumOfUsed
  <1>2. \A m \in 0 .. Len(cells) : m # 0 => Left(cells[m]) = Size(cells[m])
    <2>1. \A m \in 0 .. Len(cells) : m # 0 => m \in 1 .. Len(cells)
      OBVIOUS
    <2> QED
      BY <2>1 DEF Left
  <1>3. \A m \in 0 .. Len(cells) : f[m] = IF m = 0 THEN 0 ELSE f[m - 1] + Left(cells[m])
    BY <1>1, <1>2 DEF SumTo
  <1>4. f = [m \in 0 .. Len(cells) |-> f[m]]
    BY <1>1 DEF SumTo
  <1>5. LeftTo(cells, Len(cells), f)
    BY <1>3, <1>4 DEF LeftTo
  <1> QED
    BY <1>1, <1>5

\* Of a cell that is forwarded nothing is left.
LEMMA LeftLess ==
  ASSUME NEW cells \in Seq(Cells), NEW n \in 1 .. Len(cells), cells[n].ty # "FWD",
         NEW d \in Cells, d.ty = "FWD", NEW f, LeftTo(cells, Len(cells), f)
  PROVE  \E e : /\ LeftTo([cells EXCEPT ![n] = d], Len(cells), e)
                /\ f[Len(cells)] = e[Len(cells)] + Size(cells[n]) /\ e[Len(cells)] \in Nat
  <1> DEFINE t == Len(cells)
             more == [cells EXCEPT ![n] = d]
             s == Size(cells[n])
             e == [m \in 0 .. t |-> IF m < n THEN f[m] ELSE f[m] - s]
  <1>1. t \in Nat /\ n \in 1 .. t /\ more \in Seq(Cells) /\ Len(more) = t
        /\ \A m \in 1 .. t : more[m] = IF m = n THEN d ELSE cells[m]
    OBVIOUS
  <1>2. \A m \in 0 .. t : f[m] \in Nat
    BY LeftNat
  <1>3. s \in Nat
    <2>1. cells[n] \in Cells
      OBVIOUS
    <2> QED
      BY <2>1, CellSize
  <1> HIDE DEF s
  <1>4. Left(cells[n]) = s /\ Left(d) = 0
    BY DEF Left, s
  <1>5. \A m \in 1 .. t : Left(more[m]) = IF m = n THEN 0 ELSE Left(cells[m])
    BY <1>1, <1>4
  <1> HIDE DEF more
  <1>6. ASSUME NEW m \in 0 .. t
        PROVE  e[m] = IF m = 0 THEN 0 ELSE e[m - 1] + Left(more[m])
    <2>1. f[m] = IF m = 0 THEN 0 ELSE f[m - 1] + Left(cells[m])
      BY DEF LeftTo
    <2>2. CASE m = 0
      BY <1>1, <2>1, <2>2
    <2>3. CASE m # 0
      <3>1. m \in 1 .. t /\ m - 1 \in 0 .. t
        BY <1>1, <2>3
      <3>2. f[m - 1] \in Nat /\ f[m] \in Nat /\ f[m] = f[m - 1] + Left(cells[m])
        BY <1>2, <2>1, <2>3, <3>1
      <3>3. Left(cells[m]) \in Nat
        <4>1. cells[m] \in Cells
          BY <3>1
        <4> QED
          BY <4>1, CellSize DEF Left
      <3>4. /\ e[m] = IF m < n THEN f[m] ELSE f[m] - s
            /\ e[m - 1] = IF m - 1 < n THEN f[m - 1] ELSE f[m - 1] - s
        BY <3>1
      <3>5. Left(more[m]) = IF m = n THEN 0 ELSE Left(cells[m])
        BY <1>5, <3>1
      <3> HIDE DEF e
      <3>6. CASE m < n
        BY <1>1, <2>3, <3>1, <3>2, <3>4, <3>5, <3>6
      <3>7. CASE m = n
        BY <1>1, <1>3, <1>4, <2>3, <3>1, <3>2, <3>4, <3>5, <3>7
      <3>8. CASE m > n
        BY <1>1, <1>3, <2>3, <3>1, <3>2, <3>3, <3>4, <3>5, <3>8
      <3> QED
        BY <1>1, <3>1, <3>6, <3>7, <3>8
    <2> QED
      BY <2>2, <2>3
  <1>7. LeftTo(more, t, e)
    <2>1. e = [m \in 0 .. t |-> e[m]]
      OBVIOUS
    <2> HIDE DEF e
    <2> QED
      BY <1>6, <2>1 DEF LeftTo
  <1>8. e[t] = f[t] - s /\ f[t] \in Nat
    BY <1>1, <1>2
  <1>9. e[t] \in Nat
    <2> HIDE DEF e
    <2>1. LeftTo(more, Len(more), e) /\ t \in 0 .. Len(more)
      BY <1>1, <1>7
    <2> QED
      BY <1>1, <2>1, LeftNat
  <1> HIDE DEF e
  <1> QED
    BY <1>3, <1>7, <1>8, <1>9 DEF more, s

\* A type of which a copy can take more room than the object had.
Greedy(o)   == \E j \in DOMAIN o : o[j].ty \in Unshared \cup {"BIGINT"}
Fieldless(o) == \E j \in DOMAIN o : o[j].ty = "ARRAY" /\ o[j].args = <<>>
\* There is room for all that is left, or there are objects of such types.
Enough(h, o) ==
  /\ Used(h[now]) < end
  /\ Greedy(o) \/ \E f : /\ LeftTo(h[Old], Len(h[Old]), f)
                         /\ Used(h[now]) + f[Len(h[Old])] < end

\* Copying leaves enough, and stops only at objects of the types that can stop it.
Stops(h, v, o) ==
  /\ Copied(h, v).fate \in {"run", "nested", "smashed"}
  /\ Enough(Copied(h, v).heap, o)
  /\ Copied(h, v).fate = "nested" => Greedy(o)
  /\ Copied(h, v).fate = "smashed" => Fieldless(o)
\* What it marks are the items that it copied.
Marks(h, v) ==
  /\ Copied(h, v).marks \subseteq Id
  /\ Copied(h, v).fate = "run" =>
       MarksOf(Copied(h, v).heap) = MarksOf(h) \cup Copied(h, v).marks

LEMMA MarkAppended ==
  ASSUME NEW s \in Seq(Cells), NEW c \in Cells
  PROVE  {Append(s, c)[m].id : m \in {j \in 1 .. Len(Append(s, c)) : Append(s, c)[j].ty = "CDATA"}}
           = {s[m].id : m \in {j \in 1 .. Len(s) : s[j].ty = "CDATA"}}
               \cup (IF c.ty = "CDATA" THEN {c.id} ELSE {})
  <1> DEFINE t == Append(s, c)
             n == Len(s)
  <1>1. /\ n + 1 \in 1 .. Len(t) /\ t[n + 1] = c
        /\ \A m \in 1 .. n : m \in 1 .. Len(t) /\ t[m] = s[m]
        /\ \A m \in 1 .. Len(t) : m \in 1 .. n \/ m = n + 1
    <2>1. Len(t) = n + 1 /\ n \in Nat /\ t[n + 1] = c
      OBVIOUS
    <2>2. n + 1 \in 1 .. Len(t)
      BY <2>1
    <2> QED
      BY <2>1, <2>2, AppendedCells
  <1> HIDE DEF t, n
  <1>2. {t[m].id : m \in {j \in 1 .. Len(t) : t[j].ty = "CDATA"}}
          = {s[m].id : m \in {j \in 1 .. n : s[j].ty = "CDATA"}}
              \cup (IF c.ty = "CDATA" THEN {c.id} ELSE {})
    BY <1>1
  <1> QED
    BY <1>2 DEF t, n

LEMMA StillEnough ==
  ASSUME NEW a \in Nat, NEW s \in Nat, NEW e \in Nat, NEW f, NEW t \in Nat, f = e + s, a + f < t
  PROVE  a + s < t /\ (a + s) + e < t
  OBVIOUS

LEMMA CopyStops ==
  ASSUME now \in Heap, end \in Nat, NEW h, Moving(h), WellMade(h), NEW L, NEW o,
         Represents(h, L, o), Names(h, L) \subseteq DOMAIN o, Enough(h, o),
         NEW v, ValueOf(L, v), Into(h, Old, v)
  PROVE  Stops(h, v, o) /\ Marks(h, v)
  <1> DEFINE r == Copied(h, v)
             c == Cell(h, v)
             to == <<now, Len(h[now]) + 1>>
             there == [h EXCEPT ![now] = Append(@, c)]
             fwd == [ty |-> "FWD", id |-> c.id, args |-> <<to>>]
             moved == [there EXCEPT ![v[1]][v[2]] = fwd]
  <1>0. /\ h \in Heaps /\ h[now] \in Seq(Cells) /\ h[Old] \in Seq(Cells) /\ Old # now /\ Old \in Heap
        /\ Len(h[Old]) \in Nat
    BY ThreeHeaps DEF Moving, Heaps
  <1>1. CASE r.heap = h /\ r.fate = "run" /\ r.marks = {}
    BY <1>1 DEF Stops, Marks
  <1>2. CASE v = NULL \/ c.ty = "FWD"
    <2>1. r.heap = h /\ r.fate = "run" /\ r.marks = {}
      BY <1>2 DEF Copied
    <2> QED
      BY <1>1, <2>1
  <1>3. CASE v # NULL /\ c.ty # "FWD"
    <2>1. v \in L
      BY <1>3 DEF ValueOf
    <2>2. PICK n \in 1 .. Len(h[Old]) : v = <<Old, n>>
      BY <1>3 DEF Into
    <2>3. c = h[Old][n]
      BY <2>2 DEF Cell
    <2>3a. c \in Cells
      BY <1>0, <2>3
    <2>4. c.id \in DOMAIN o /\ o[c.id].ty = c.ty /\ DOMAIN o[c.id].args = DOMAIN c.args
          /\ (c.args = <<>> => o[c.id].args = <<>>)
      <3>1. Obj(h, v) = o[c.id] /\ Deref(h, v) = c /\ c.id \in Names(h, L)
        BY <1>3, <2>1 DEF Represents, Deref, Names
      <3>2. o[c.id].ty = c.ty /\ o[c.id].args = [k \in DOMAIN c.args |-> IdIn(h, c.args[k])]
        BY <3>1 DEF Obj
      <3> HIDE DEF c
      <3> QED
        BY <3>1, <3>2
    <2>5. c.id \in Id
      <3>1. Points(h, v)
        BY <2>1 DEF Represents, Sound, Proper
      <3> QED
        BY <3>1 DEF WellMade
    <2>6. Size(c) \in Nat \ {0} /\ (c.ty = "BIGINT" => Size(c) <= MaxGmp) /\ MaxGmp \in Nat
      <3>1. MaxGmp \in Nat /\ MaxGmp >= 3
        BY CollectorAssumption, GmpAssumption
      <3>2. c.ty = "BIGINT" => Size(c) = 3
        BY DEF Size, WordsOf
      <3> HIDE DEF c
      <3> QED
        BY <2>3a, <3>1, <3>2, CellSize
    <2>7. Used(h[now]) \in Nat /\ Used(Append(h[now], c)) = Used(h[now]) + Size(c)
      BY <1>0, <2>3a, UsedNat, UsedAppend
    <2> HIDE DEF c
    <2>8. ASSUME ~Greedy(o), NEW f, LeftTo(h[Old], Len(h[Old]), f)
          PROVE  \E e : /\ LeftTo([h[Old] EXCEPT ![n] = fwd], Len(h[Old]), e)
                        /\ f[Len(h[Old])] = e[Len(h[Old])] + Size(c) /\ e[Len(h[Old])] \in Nat
      <3>1. fwd \in Cells /\ fwd.ty = "FWD"
        <4>1. Len(h[now]) + 1 \in Nat
          BY <1>0
        <4>2. to \in Values0 /\ "FWD" \in Types /\ c.id \in Ids
          BY <2>5, <4>1 DEF Values0, Types, Ids
        <4>3. <<to>> \in Seq(Values0)
          BY <4>2
        <4> QED
          BY <4>2, <4>3 DEF Cells
      <3> HIDE DEF fwd
      <3> QED
        BY <1>0, <1>3, <2>3, <2>8, <3>1, LeftLess
    <2>9. CASE ~RoomToCopy(h, c)
      <3>1. r.heap = h /\ r.fate = "nested" /\ r.marks = {}
        BY <1>3, <2>9 DEF Copied, c
      <3>2. Greedy(o)
        <4> SUFFICES ASSUME ~Greedy(o) PROVE FALSE
          OBVIOUS
        <4>1. PICK f : LeftTo(h[Old], Len(h[Old]), f) /\ Used(h[now]) + f[Len(h[Old])] < end
          BY DEF Enough
        <4>2. PICK e : f[Len(h[Old])] = e[Len(h[Old])] + Size(c) /\ e[Len(h[Old])] \in Nat
          BY <2>8, <4>1
        <4>3. c.ty # "BIGINT"
          BY <2>4 DEF Greedy
        <4>4. ~(Used(h[now]) + Size(c) < end)
          BY <2>9, <4>3 DEF RoomToCopy, Room
        <4>5. Used(h[now]) + Size(c) < end
          BY <2>6, <2>7, <4>1, <4>2, StillEnough
        <4> QED
          BY <4>4, <4>5
      <3> QED
        BY <3>1, <3>2 DEF Stops, Marks
    <2>10. CASE RoomToCopy(h, c)
      <3>1. Used(h[now]) + Size(c) < end
        BY <2>6, <2>7, <2>10 DEF RoomToCopy, Room
      <3>2. /\ there \in Heaps /\ there[now] = Append(h[now], c) /\ there[Old] = h[Old]
        BY <1>0, <2>3a DEF Heaps
      <3>3. MarksOf(there) = MarksOf(h) \cup (IF c.ty = "CDATA" THEN {c.id} ELSE {})
        BY <1>0, <2>3a, <3>2, MarkAppended DEF MarksOf
      <3>4. CASE ~Forwarded(c)
        <4>1. r.heap = there /\ r.fate = "run" /\ r.marks = {}
          BY <1>3, <2>10, <3>4 DEF Copied, c
        <4>2. c.ty \in Unshared
          BY <3>4 DEF Forwarded
        <4>3. Greedy(o) /\ c.ty # "CDATA"
          BY <2>4, <4>2 DEF Greedy, Unshared
        <4>4. Enough(there, o)
          BY <2>7, <3>1, <3>2, <4>3 DEF Enough
        <4>5. MarksOf(there) = MarksOf(h)
          BY <3>3, <4>3
        <4> HIDE DEF there
        <4> QED
          BY <4>1, <4>4, <4>5 DEF Stops, Marks
      <3>5. CASE Forwarded(c) /\ Size(c) < FwdSize
        <4>1. r.heap = h /\ r.fate = "smashed" /\ r.marks = {}
          BY <1>3, <2>10, <3>5 DEF Copied, c
        <4>2. c.ty = "ARRAY" /\ Len(c.args) = 0 /\ c.args \in Seq(Values0)
          <5>1. Len(c.args) \in Nat
            BY <2>3a, CellSize
          <5> QED
            BY <2>3a, <3>5, <5>1 DEF Cells, Size, FwdSize, WordsOf
        <4>3. c.args = <<>>
          BY <4>2
        <4>4. Fieldless(o)
          BY <2>4, <4>2, <4>3 DEF Fieldless
        <4> QED
          BY <4>1, <4>4 DEF Stops, Marks
      <3>6. CASE Forwarded(c) /\ ~(Size(c) < FwdSize)
        <4>1. r.heap = moved /\ r.fate = "run"
              /\ r.marks = IF c.ty = "CDATA" THEN {c.id} ELSE {}
          BY <1>3, <2>10, <3>6 DEF Copied, c
        <4>2. /\ moved[now] = Append(h[now], c) /\ moved[Old] = [h[Old] EXCEPT ![n] = fwd]
              /\ Len(moved[Old]) = Len(h[Old])
          <5> HIDE DEF fwd, there
          <5>1. moved = [there EXCEPT ![Old] = [there[Old] EXCEPT ![n] = fwd]]
            BY <1>0, <2>2, <3>2 DEF Heaps
          <5>2. moved[Old] = [there[Old] EXCEPT ![n] = fwd] /\ moved[now] = there[now]
            BY <1>0, <3>2, <5>1 DEF Heaps
          <5>3. Len([h[Old] EXCEPT ![n] = fwd]) = Len(h[Old])
            BY <1>0
          <5> QED
            BY <3>2, <5>2, <5>3
        <4> HIDE DEF moved, there
        <4>3. MarksOf(moved) = MarksOf(there)
          BY <3>2, <4>2 DEF MarksOf
        <4>4. Enough(moved, o)
          <5>1. CASE Greedy(o)
            BY <2>7, <3>1, <4>2, <5>1 DEF Enough
          <5>2. CASE ~Greedy(o)
            <6>1. PICK f : LeftTo(h[Old], Len(h[Old]), f) /\ Used(h[now]) + f[Len(h[Old])] < end
              BY <5>2 DEF Enough
            <6>2. PICK e : /\ LeftTo([h[Old] EXCEPT ![n] = fwd], Len(h[Old]), e)
                           /\ f[Len(h[Old])] = e[Len(h[Old])] + Size(c) /\ e[Len(h[Old])] \in Nat
              BY <2>8, <5>2, <6>1
            <6>3. Used(moved[now]) + e[Len(moved[Old])] < end
              BY <2>6, <2>7, <4>2, <6>1, <6>2, StillEnough
            <6>4. LeftTo(moved[Old], Len(moved[Old]), e)
              BY <4>2, <6>2
            <6> QED
              BY <2>7, <3>1, <4>2, <6>3, <6>4 DEF Enough
          <5> QED
            BY <5>1, <5>2
        <4>5. (IF c.ty = "CDATA" THEN {c.id} ELSE {}) \subseteq Id
          BY <2>5
        <4> QED
          BY <3>3, <4>1, <4>3, <4>4, <4>5 DEF Stops, Marks
      <3> QED
        BY <3>4, <3>5, <3>6
    <2> QED
      BY <2>9, <2>10
  <1> QED
    BY <1>2, <1>3

----------------------------------------------------------------------------
(* What a scanned cell shows                                               *)

\* The values of r in h are the identities ids, and what they reach are objects of o.
Shows(h, r, ids, o) ==
  \E L : /\ Represents(h, L, o) /\ Pointers(r) \ {NULL} \subseteq L
         /\ Names(h, L) \subseteq DOMAIN o /\ RootIds(h, r) = ids
Known(h, r) == \E L : Sound(h, L) /\ Pointers(r) \ {NULL} \subseteq L

LEMMA KnownShows ==
  ASSUME NEW h, NEW r, Known(h, r)
  PROVE  Shows(h, r, RootIds(h, r), Objects(h, r))
  <1>1. PICK L : Sound(h, L) /\ Pointers(r) \ {NULL} \subseteq L
    BY DEF Known
  <1>2. /\ Represents(h, Shown(h, r), Objects(h, r)) /\ Pointers(r) \ {NULL} \subseteq Shown(h, r)
        /\ DOMAIN Objects(h, r) = Names(h, Shown(h, r))
    BY <1>1, ObjectsRepresent
  <1> QED
    BY <1>2 DEF Shows

\* What shows the same objects to the same roots is the same view.
LEMMA ShowsSame ==
  ASSUME NEW h, NEW r, Known(h, r), NEW g, NEW q, Shows(g, q, RootIds(h, r), Objects(h, r))
  PROVE  Known(g, q) /\ RootIds(g, q) = RootIds(h, r) /\ Objects(g, q) = Objects(h, r)
  <1> DEFINE o == Objects(h, r)
             ids == RootIds(h, r)
  <1>1. PICK L : Sound(h, L) /\ Pointers(r) \ {NULL} \subseteq L
    BY DEF Known
  <1>2. o = [i \in store!Reached(ids, o) |-> o[i]]
    BY <1>1, ObjectsRepresent
  <1> HIDE DEF o, ids
  <1>3. PICK N : /\ Represents(g, N, o) /\ Pointers(q) \ {NULL} \subseteq N
                 /\ RootIds(g, q) = ids
    BY DEF Shows, o, ids
  <1>4. Objects(g, q) = [i \in store!Reached(RootIds(g, q), o) |-> o[i]]
    BY <1>3, StoreView
  <1>5. Known(g, q)
    BY <1>3 DEF Known, Represents
  <1> QED
    BY <1>2, <1>3, <1>4, <1>5 DEF o, ids

LEMMA PointsValue ==
  ASSUME NEW h \in Heaps, NEW v, v = NULL \/ Points(h, v)
  PROVE  v \in Values0
  <1>1. \A s \in Heap : Len(h[s]) \in Nat
    BY DEF Heaps
  <1>2. CASE v = NULL
    BY <1>2 DEF Values0
  <1>3. CASE Points(h, v)
    <2>1. PICK s, n : s \in Heap /\ n \in 1 .. Len(h[s]) /\ v = <<s, n>>
      BY <1>3 DEF Points
    <2>2. n \in Nat
      BY <1>1, <2>1
    <2> QED
      BY <2>1, <2>2 DEF Values0
  <1> QED
    BY <1>2, <1>3

CopyShows(h, v, g, w, L, o) ==
  /\ Names(g, L \cup ({w} \ {NULL})) \subseteq DOMAIN o
  /\ IdIn(g, w) = IdIn(h, v) /\ w \in Values0
  /\ \A u : ValueOf(L, u) => IdIn(g, u) = IdIn(h, u)

\* What copying shows, when the root x or the field k takes the copy.
LEMMA FollowsShows ==
  ASSUME NEW h, NEW L, NEW o, Represents(h, L, o), Names(h, L) \subseteq DOMAIN o,
         NEW v, ValueOf(L, v), NEW g, NEW w, Follows(h, v, g, w, L, o)
  PROVE  CopyShows(h, v, g, w, L, o)
  <1>1. \A u : ValueOf(L, u) => IdIn(g, u) = IdIn(h, u)
    BY ViewKept DEF Follows
  <1>2. v # NULL => v \in L /\ Cell(g, w).id = Cell(h, v).id
    BY DEF Follows, ValueOf
  <1>3. w = NULL <=> v = NULL
    BY DEF Follows
  <1>4. \A u \in L : Cell(g, u).id = Cell(h, u).id
    BY DEF Follows, SameView
  <1>5. Names(g, L \cup ({w} \ {NULL})) \subseteq Names(h, L)
    BY <1>2, <1>3, <1>4 DEF Names
  <1>6. w = NULL \/ Points(g, w)
    BY DEF Follows, Represents, Sound, Proper
  <1> QED
    BY <1>1, <1>2, <1>3, <1>5, <1>6, PointsValue DEF IdIn, Follows, CopyShows

\* The fields up to k of the cell i are scanned: what is seen does not change, what
\* is copied is reached, and the other fields are what they were.
ScanSeen(h, i, k, o) ==
  /\ h \in Heaps /\ WellMade(h) /\ NoForward(h)
  /\ Shows(h, root, RootIds(heap, root), o)
  /\ CopiesIn(h, Shown(h, root))
  /\ i \in 1 .. Len(h[now])
  /\ h[now][i].args \in Seq(Values0) /\ DOMAIN h[now][i].args = DOMAIN heap[now][i].args
  /\ \A j \in DOMAIN heap[now][i].args : j > k => h[now][i].args[j] = heap[now][i].args[j]
FieldsSeen(a, i, k, o) ==
  /\ ScanSeen(a.heap, i, k, o) /\ Enough(a.heap, o) /\ a.marks \subseteq Id
  /\ a.fate \in {"run", "nested", "smashed"}
  /\ a.fate = "run" => MarksOf(a.heap) = MarksOf(heap) \cup a.marks
  /\ a.fate = "nested" => Greedy(o)
  /\ a.fate = "smashed" => Fieldless(o)

LEMMA CellAt ==
  ASSUME NEW s \in Seq(Cells), NEW i \in 1 .. Len(s)
  PROVE  s[i] \in Cells /\ s[i].args \in Seq(Values0)
  <1>1. s[i] \in Cells
    OBVIOUS
  <1> QED
    BY <1>1 DEF Cells

LEMMA FieldMade ==
  ASSUME now \in Heap, NEW g \in Heaps, WellMade(g), NEW i \in 1 .. Len(g[now]),
         NEW k \in DOMAIN g[now][i].args, NEW w \in Values0,
         NEW z, z = [g EXCEPT ![now][i].args[k] = w]
  PROVE  WellMade(z)
  <1> DEFINE p == <<now, i>>
  <1>1. FieldShows(g, i, k, w, z)
    BY FieldCells
  <1>2. g[now][i].args \in Seq(Values0)
    <2>1. g[now] \in Seq(Cells)
      BY DEF Heaps
    <2> QED
      BY <2>1, CellAt
  <1> SUFFICES ASSUME NEW u, Points(z, u) PROVE Cell(z, u).id \in Id /\ HasItsFields(Cell(z, u))
    BY DEF WellMade
  <1>3. Points(g, u) /\ Cell(g, u).id \in Id /\ HasItsFields(Cell(g, u))
    BY <1>1 DEF FieldShows, WellMade
  <1>4. CASE u # p
    BY <1>1, <1>3, <1>4 DEF FieldShows
  <1>5. CASE u = p
    <2>1. /\ Cell(z, p).ty = Cell(g, p).ty /\ Cell(z, p).id = Cell(g, p).id
          /\ Cell(z, p).args = [Cell(g, p).args EXCEPT ![k] = w]
      BY <1>1 DEF FieldShows
    <2>2. Cell(g, p) = g[now][i]
      BY DEF Cell
    <2>3. Len(Cell(z, p).args) = Len(Cell(g, p).args)
      BY <1>2, <2>1, <2>2
    <2> QED
      BY <1>3, <1>5, <2>1, <2>3 DEF HasItsFields
  <1> QED
    BY <1>4, <1>5

FieldKept(g, i, k, w, o, z) ==
  /\ FieldShows(g, i, k, w, z) /\ z \in Heaps /\ WellMade(z) /\ NoForward(z)
  /\ Enough(z, o) /\ MarksOf(z) = MarksOf(g) /\ i \in 1 .. Len(z[now])
  /\ z[now][i].args \in Seq(Values0) /\ DOMAIN z[now][i].args = DOMAIN g[now][i].args
  /\ \A j \in DOMAIN g[now][i].args : z[now][i].args[j] = IF j = k THEN w ELSE g[now][i].args[j]

\* A field of a cell that is copied holds the copy.
LEMMA FieldKeeps ==
  ASSUME now \in Heap, NEW g \in Heaps, WellMade(g), NoForward(g), NEW i \in 1 .. Len(g[now]),
         NEW k \in DOMAIN g[now][i].args, NEW w \in Values0, NEW o, Enough(g, o),
         NEW z, z = [g EXCEPT ![now][i].args[k] = w]
  PROVE  FieldKept(g, i, k, w, o, z)
  <1> DEFINE p == <<now, i>>
  <1>1. FieldShows(g, i, k, w, z) /\ FieldSet(g, i, k, w, z)
    BY FieldCells, FieldWritten
  <1>2. z \in Heaps /\ Len(z[now]) = Len(g[now])
    BY <1>1 DEF FieldShows
  <1>3. \A m \in 1 .. Len(g[now]) : z[now][m].ty = g[now][m].ty /\ z[now][m].id = g[now][m].id
    <2> SUFFICES ASSUME NEW m \in 1 .. Len(g[now])
                 PROVE  z[now][m].ty = g[now][m].ty /\ z[now][m].id = g[now][m].id
      OBVIOUS
    <2>1. CASE m = i
      BY <1>1, <2>1 DEF FieldShows, Cell
    <2>2. CASE m # i
      BY <1>1, <2>2 DEF FieldSet
    <2> QED
      BY <2>1, <2>2
  <1>4. NoForward(z)
    BY <1>2, <1>3 DEF NoForward
  <1>5. MarksOf(z) = MarksOf(g)
    BY <1>2, <1>3 DEF MarksOf
  <1>6. g[now][i].args \in Seq(Values0) /\ z[now][i].args \in Seq(Values0)
    <2>1. g[now] \in Seq(Cells) /\ z[now] \in Seq(Cells)
      BY <1>2 DEF Heaps
    <2>2. i \in 1 .. Len(z[now])
      BY <1>2
    <2> QED
      BY <2>1, <2>2, CellAt
  <1>7. WellMade(z)
    BY FieldMade
  <1>8. Enough(z, o)
    <2>1. z[Old] = g[Old] /\ Used(z[now]) = Used(g[now])
      BY <1>1, ThreeHeaps DEF FieldSet
    <2> QED
      BY <2>1 DEF Enough
  <1> QED
    BY <1>1, <1>2, <1>4, <1>5, <1>6, <1>7, <1>8 DEF FieldSet, FieldKept

LEMMA FieldScanned ==
  ASSUME now \in Heap, end \in Nat, heap \in Heaps, NEW i \in 1 .. Len(heap[now]),
         Unscanned(heap, heap[now][i]), NEW k \in DOMAIN heap[now][i].args, k \in Nat \ {0},
         NEW a, NEW o, FieldsSeen(a, i, k - 1, o), a.fate = "run", PartScanned(a.heap, i, k - 1)
  PROVE  FieldsSeen(ScanNext(i, k, a), i, k, o)
  <1> DEFINE h == a.heap
             v == heap[now][i].args[k]
             r == Copied(h, v)
             z == [r.heap EXCEPT ![now][i].args[k] = r.val]
             p == <<now, i>>
  <1>0. heap[now][i].args \in Seq(Values0)
    <2>1. heap[now] \in Seq(Cells)
      BY DEF Heaps
    <2> QED
      BY <2>1, CellAt
  <1>1. /\ Moving(h) /\ h \in Heaps /\ WellMade(h) /\ NoForward(h) /\ i \in 1 .. Len(h[now])
        /\ Enough(h, o) /\ CopiesIn(h, Shown(h, root))
        /\ k \in DOMAIN h[now][i].args /\ h[now][i].args[k] = v /\ h[now][i].ty # "FWD"
        /\ \A j \in DOMAIN heap[now][i].args : j > k => h[now][i].args[j] = heap[now][i].args[j]
    <2>1. k > k - 1 /\ k \in DOMAIN heap[now][i].args
      OBVIOUS
    <2>2. \A j \in DOMAIN heap[now][i].args : j > k => j > k - 1
      <3> SUFFICES ASSUME NEW j \in DOMAIN heap[now][i].args, j > k PROVE j > k - 1
        OBVIOUS
      <3>1. j \in Nat
        BY <1>0
      <3> QED
        BY <3>1
    <2>3. h[now][i].args[k] = v
      BY <2>1 DEF FieldsSeen, ScanSeen
    <2>4. \A j \in DOMAIN heap[now][i].args : j > k => h[now][i].args[j] = heap[now][i].args[j]
      BY <2>2 DEF FieldsSeen, ScanSeen
    <2>5. Moving(h) /\ i \in 1 .. Len(h[now]) /\ k \in DOMAIN h[now][i].args
      BY <2>1 DEF FieldsSeen, ScanSeen, PartScanned
    <2>6. h \in Heaps /\ WellMade(h) /\ NoForward(h) /\ Enough(h, o) /\ CopiesIn(h, Shown(h, root))
      BY DEF FieldsSeen, ScanSeen
    <2>7. h[now][i].ty # "FWD"
      BY <2>5, <2>6 DEF NoForward
    <2> QED
      BY <2>3, <2>4, <2>5, <2>6, <2>7
  <1>2. PICK L : /\ Represents(h, L, o) /\ Pointers(root) \ {NULL} \subseteq L
                 /\ Names(h, L) \subseteq DOMAIN o /\ RootIds(h, root) = RootIds(heap, root)
    BY DEF FieldsSeen, ScanSeen, Shows
  <1>3. Into(h, Old, v)
    BY DEF Unscanned, Into, PartScanned
  <1> HIDE DEF h, v
  <1>4. ValueOf(L, v)
    <2>1. Shown(h, root) \subseteq L /\ Sound(h, L)
      BY <1>2, ReachedSound DEF Shown, Represents
    <2>2. p \in L
      BY <1>1, <2>1 DEF CopiesIn
    <2>3. Deref(h, p) = h[now][i]
      BY <1>1 DEF Deref, Cell
    <2>4. v # NULL => v \in Kids(h, p)
      BY <1>1, <2>3 DEF Kids
    <2> QED
      BY <2>1, <2>2, <2>4 DEF Sound, ValueOf
  <1>5. Follows(h, v, r.heap, r.val, L, o)
    BY <1>1, <1>2, <1>3, <1>4, CopyFollows
  <1>6. Stops(h, v, o) /\ Marks(h, v)
    BY <1>1, <1>2, <1>3, <1>4, CopyStops
  <1> DEFINE g == r.heap
             w == r.val
  <1>7. /\ Enough(g, o) /\ r.fate \in {"run", "nested", "smashed"} /\ r.marks \subseteq Id
        /\ r.fate = "nested" => Greedy(o)
        /\ r.fate = "smashed" => Fieldless(o)
        /\ r.fate = "run" => MarksOf(g) = MarksOf(h) \cup r.marks
    BY <1>6 DEF Stops, Marks
  <1>8. ScanNext(i, k, a) = [heap |-> z, marks |-> a.marks \cup r.marks, fate |-> r.fate]
    BY DEF ScanNext, h, v
  <1> HIDE DEF g, w, r
  <1>8a. z = [g EXCEPT ![now][i].args[k] = w]
    BY DEF g, w
  <1>5a. Follows(h, v, g, w, L, o)
    BY <1>5 DEF g, w
  <1>9. /\ g \in Heaps /\ WellMade(g) /\ NoForward(g) /\ i \in 1 .. Len(g[now])
        /\ g[now][i] = h[now][i]
    BY <1>1, <1>5a DEF Follows
  <1>10. /\ Names(g, L \cup ({w} \ {NULL})) \subseteq DOMAIN o /\ w \in Values0
    <2>1. CopyShows(h, v, g, w, L, o)
      BY <1>2, <1>4, <1>5a, FollowsShows
    <2> QED
      BY <2>1 DEF CopyShows
  <1> HIDE DEF z
  <1>11. /\ FieldShows(g, i, k, w, z) /\ z \in Heaps /\ WellMade(z) /\ NoForward(z)
         /\ Enough(z, o) /\ MarksOf(z) = MarksOf(g) /\ i \in 1 .. Len(z[now])
         /\ z[now][i].args \in Seq(Values0) /\ DOMAIN z[now][i].args = DOMAIN h[now][i].args
         /\ \A j \in DOMAIN h[now][i].args : z[now][i].args[j] = IF j = k THEN w ELSE h[now][i].args[j]
    <2>1. k \in DOMAIN g[now][i].args
      BY <1>1, <1>9
    <2>2. FieldKept(g, i, k, w, o, z)
      BY <1>7, <1>8a, <1>9, <1>10, <2>1, FieldKeeps
    <2> QED
      BY <1>9, <2>2 DEF FieldKept
  <1>12. /\ Represents(z, L \cup ({w} \ {NULL}), o) /\ CopiesIn(z, Shown(z, root))
         /\ \A u : ValueOf(L, u) => IdIn(z, u) = IdIn(h, u)
    <2>1. CopyShown(h, L, w, z, root, o)
      BY <1>1, <1>2, <1>3, <1>4, <1>5a, <1>11, FieldCopied
    <2> QED
      BY <2>1 DEF CopyShown
  <1>13. Shows(z, root, RootIds(heap, root), o)
    <2> DEFINE N == L \cup ({w} \ {NULL})
    <2>1. RootIds(z, root) = RootIds(h, root)
      <3>1. \A x \in Root : ValueOf(L, root[x])
        BY <1>2 DEF Pointers, ValueOf
      <3> QED
        BY <1>12, <3>1 DEF RootIds
    <2>2. Names(z, N) \subseteq Names(g, N)
      <3>1. \A u \in N : Cell(z, u).id = Cell(g, u).id
        <4> SUFFICES ASSUME NEW u \in N PROVE Cell(z, u).id = Cell(g, u).id
          OBVIOUS
        <4>1. Points(g, u)
          BY <1>5a DEF Follows, Represents, Sound, Proper
        <4> QED
          BY <1>11, <4>1 DEF FieldShows
      <3> QED
        BY <3>1 DEF Names
    <2> QED
      BY <1>2, <1>10, <1>12, <2>1, <2>2 DEF Shows
  <1>14. ScanSeen(z, i, k, o)
    <2>1. DOMAIN h[now][i].args = DOMAIN heap[now][i].args
      BY DEF PartScanned, h
    <2>2. \A j \in DOMAIN heap[now][i].args : j > k => j # k
      BY <1>0
    <2> QED
      BY <1>1, <1>11, <1>12, <1>13, <2>1, <2>2 DEF ScanSeen
  <1>15. MarksOf(h) = MarksOf(heap) \cup a.marks /\ a.marks \subseteq Id
    BY DEF FieldsSeen, h
  <1>16. r.fate = "run" => MarksOf(z) = MarksOf(heap) \cup (a.marks \cup r.marks)
    BY <1>7, <1>11, <1>15
  <1> DEFINE b == ScanNext(i, k, a)
  <1>17. b.heap = z /\ b.marks = a.marks \cup r.marks /\ b.fate = r.fate
    BY <1>8
  <1> HIDE DEF b
  <1>18. FieldsSeen(b, i, k, o)
    BY <1>7, <1>11, <1>14, <1>15, <1>16, <1>17 DEF FieldsSeen
  <1> QED
    BY <1>18 DEF b

\* All the fields of a cell.
LEMMA CellScanned ==
  ASSUME now \in Heap, end \in Nat, heap \in Heaps, NEW i \in 1 .. Len(heap[now]),
         Unscanned(heap, heap[now][i]), PartScanned(heap, i, 0), WellMade(heap), NoForward(heap),
         NEW o, Shows(heap, root, RootIds(heap, root), o), CopiesIn(heap, Shown(heap, root)),
         Enough(heap, o)
  PROVE  FieldsSeen(Scanned(i), i, Len(heap[now][i].args), o)
  <1> DEFINE c == heap[now][i]
             n == Len(c.args)
  <1>1. c.args \in Seq(Values0) /\ n \in Nat /\ DOMAIN c.args = 1 .. n
    <2>1. heap[now] \in Seq(Cells)
      BY DEF Heaps
    <2>2. c.args \in Seq(Values0)
      BY <2>1, CellAt
    <2> QED
      BY <2>2
  <1>2. PICK f : ScanTo(i, n, f) /\ Scanned(i) = f[n]
    <2>1. Scans(c) = n
      BY DEF Scans
    <2> HIDE DEF n
    <2> QED
      BY <1>1, <2>1, ScannedIsLast
  <1> HIDE DEF n
  <1>3. /\ f[0] = [heap |-> heap, marks |-> {}, fate |-> "run"]
        /\ \A k \in 1 .. n : f[k] = ScanNext(i, k, f[k - 1])
    BY <1>1, <1>2, ScanSteps
  <1> DEFINE Good(k) == /\ FieldsSeen(f[k], i, k, o)
                        /\ f[k].fate = "run" => PartScanned(f[k].heap, i, k)
             Bad == {k \in 0 .. n : ~Good(k)}
  <1>4. Bad = {}
    <2> SUFFICES ASSUME Bad # {} PROVE FALSE
      OBVIOUS
    <2>1. PICK k \in Bad : \A j \in Bad : k <= j
      <3>1. Bad \subseteq Nat
        BY <1>1
      <3> HIDE DEF Bad
      <3> QED
        BY <3>1, LeastNumber
    <2>2. k \in 0 .. n /\ ~Good(k)
      BY <2>1
    <2>3. k # 0
      <3> SUFFICES ASSUME k = 0 PROVE FALSE
        OBVIOUS
      <3>1. f[0].heap = heap /\ f[0].marks = {} /\ f[0].fate = "run"
        BY <1>3
      <3>2. ScanSeen(heap, i, 0, o)
        BY <1>1 DEF ScanSeen
      <3>3. FieldsSeen(f[0], i, 0, o)
        BY <3>1, <3>2 DEF FieldsSeen
      <3> QED
        BY <2>2, <3>1, <3>3
    <2>4. k - 1 \in 0 .. n /\ k \in Nat \ {0} /\ k \in DOMAIN c.args /\ k \in 1 .. n
      BY <1>1, <2>2, <2>3
    <2>5. f[k] = ScanNext(i, k, f[k - 1])
      BY <1>3, <2>4
    <2>6. Good(k - 1)
      <3>1. k - 1 \notin Bad
        <4>1. ~(k <= k - 1)
          BY <2>4
        <4> HIDE DEF Bad
        <4> QED
          BY <2>1, <4>1
      <3> HIDE DEF Good
      <3> QED
        BY <2>4, <3>1
    <2> HIDE DEF Bad
    <2>7. PICK a : a = f[k - 1]
      OBVIOUS
    <2>8. /\ FieldsSeen(a, i, k - 1, o)
          /\ a.fate = "run" => PartScanned(a.heap, i, k - 1)
          /\ ~(FieldsSeen(ScanNext(i, k, a), i, k, o)
                /\ (ScanNext(i, k, a).fate = "run" => PartScanned(ScanNext(i, k, a).heap, i, k)))
      <3>1. f[k - 1] = a /\ f[k] = ScanNext(i, k, a)
        BY <2>5, <2>7
      <3> QED
        BY <2>2, <2>6, <3>1
    <2> HIDE DEF Good
    <2>9. CASE a.fate # "run"
      <3>1. ScanNext(i, k, a) = a
        BY <2>9, ScanStops
      <3>2. \A j \in DOMAIN c.args : j > k => j > k - 1
        BY <1>1, <2>4
      <3>3. ScanSeen(a.heap, i, k, o)
        BY <2>8, <3>2 DEF FieldsSeen, ScanSeen
      <3>4. FieldsSeen(a, i, k, o)
        BY <2>8, <3>3 DEF FieldsSeen
      <3> QED
        BY <2>8, <2>9, <3>1, <3>4
    <2>10. CASE a.fate = "run"
      <3>1. FieldsSeen(ScanNext(i, k, a), i, k, o)
        BY <2>4, <2>8, <2>10, FieldScanned
      <3>2. ASSUME ScanNext(i, k, a).fate = "run" PROVE PartScanned(ScanNext(i, k, a).heap, i, k)
        BY <2>4, <2>8, <2>10, <3>2, ScanNextScans
      <3> QED
        BY <2>8, <3>1, <3>2
    <2> QED
      BY <2>9, <2>10
  <1>5. n \in 0 .. n
    BY <1>1
  <1>6. Good(n)
    <2> HIDE DEF Good
    <2> QED
      BY <1>4, <1>5
  <1> QED
    BY <1>2, <1>6 DEF n

----------------------------------------------------------------------------
(* The invariant of what is seen                                           *)

\* An allocation that is called for a kind of cell.
Formed(c) ==
  /\ c.root \in Root
  /\ \E kind \in Kinds : /\ c.ty = kind[1] /\ c.from \in [1 .. kind[2] -> Root]
                         /\ DOMAIN c.held = 1 .. kind[2]
Collecting == pc \in {"roots", "cheney"}

Ranges ==
  /\ now \in Heap /\ end \in Nat /\ size \in Nat /\ next \in Nat
  /\ pc \in {"run", "allocate", "again", "roots", "cheney"}
  /\ back \in {"run", "allocate", "again"}
  /\ marked \subseteq Id
  /\ fate \in {"run", "stale", "nested", "smashed"}
  /\ heap \in Heaps /\ root \in [Root -> Values0]

\* While nothing has failed.
Running ==
  /\ end <= size /\ Used(heap[now]) < end
  /\ Waiting => Formed(call) /\ Cardinality(DOMAIN Objects(heap, root)) < MaxObjects
  /\ Collecting => /\ CopiesIn(heap, Shown(heap, root)) /\ marked = MarksOf(heap)
                   /\ Enough(heap, Objects(heap, root))
  /\ ~Collecting => marked = {}
Causes ==
  /\ fate = "nested" => Greedy(Objects(heap, root))
  /\ fate = "smashed" => Fieldless(Objects(heap, root))
  /\ fate = "stale" => call.ty \in HeldInC \cup Copying

IdentityInv ==
  /\ Ranges /\ WellMade(heap) /\ Known(heap, root)
  /\ fate = "run" => Running
  /\ Causes

\* The program sees what it saw.
SameSeen == /\ RootIds(heap', root') = RootIds(heap, root)
            /\ Objects(heap', root') = Objects(heap, root)

LEMMA SeenIs ==
  Known(heap, root) => SeenRoot = RootIds(heap, root) /\ SeenObject = Objects(heap, root)
  <1> SUFFICES ASSUME Known(heap, root)
               PROVE  SeenRoot = RootIds(heap, root) /\ SeenObject = Objects(heap, root)
    OBVIOUS
  <1>1. \A v : IdOf(v) = IdIn(heap, v)
    BY DEF IdOf, IdIn
  <1>2. SeenRoot = RootIds(heap, root)
    BY <1>1 DEF SeenRoot, RootIds
  <1>3. Live = Shown(heap, root)
    BY DEF Live, Roots, Shown, Pointers
  <1>4. PICK L : Sound(heap, L) /\ Pointers(root) \ {NULL} \subseteq L
    BY DEF Known
  <1>5. \A v \in Live : IdOf(v) = Cell(heap, v).id
    <2>1. Shown(heap, root) \subseteq L
      BY <1>4, ObjectsRepresent
    <2> QED
      BY <1>3, <1>4, <2>1 DEF Sound, Proper, IdOf
  <1> DEFINE S == Live
             CellOf(i) == Deref(heap, CHOOSE v \in S : IdOf(v) = i)
             Object(c) == [ty |-> c.ty, args |-> [k \in DOMAIN c.args |-> IdOf(c.args[k])]]
             Of(i) == CHOOSE v \in S : Cell(heap, v).id = i
  <1>6. SeenObject = [i \in {IdOf(v) : v \in S} |-> Object(CellOf(i))]
    BY DEF SeenObject
  <1>7. {IdOf(v) : v \in S} = Names(heap, S)
    BY <1>5 DEF Names
  <1>8. \A i : (CHOOSE v \in S : IdOf(v) = i) = Of(i)
    BY <1>5
  <1>9. \A v : Object(Deref(heap, v)) = Obj(heap, v)
    BY <1>1 DEF Obj
  <1>10. \A i : Object(CellOf(i)) = Obj(heap, Of(i))
    <2> TAKE i
    <2> HIDE DEF Object
    <2> QED
      BY <1>8, <1>9
  <1>11. Objects(heap, root) = [i \in Names(heap, S) |-> Obj(heap, Of(i))]
    BY <1>3 DEF Objects
  <1> HIDE DEF Object, CellOf, Of, S
  <1>12. SeenObject = Objects(heap, root)
    BY <1>6, <1>7, <1>10, <1>11
  <1> QED
    BY <1>2, <1>12

LEMMA SeenNext ==
  ASSUME Known(heap, root)'
  PROVE  SeenRoot' = RootIds(heap', root') /\ SeenObject' = Objects(heap', root')
  <1>1. (Known(heap, root) => SeenRoot = RootIds(heap, root) /\ SeenObject = Objects(heap, root))'
    BY SeenIs, PTL
  <1> QED
    BY <1>1

\* While nothing has failed, no cell of the working heap is a forward.
LEMMA NoForwards ==
  ASSUME Frame, Phases
  PROVE  NoForward(heap)
  <1>1. \A m \in 1 .. Len(heap[now]) : Unscanned(heap, heap[now][m]) \/ Clean(heap, heap[now][m])
    BY DEF Frame, Phases, Mutating, CopyingRoots, Scanning
  <1> QED
    BY <1>1 DEF NoForward, Unscanned, Clean

LEMMA InitIdentity == Init => IdentityInv
  <1> SUFFICES ASSUME Init PROVE IdentityInv
    OBVIOUS
  <1>1. Frame
    BY InitCollector DEF Init, CollectorInv
  <1>2. HeapSize \in Nat \ {0}
    BY CollectorAssumption
  <1>3. Ranges
    BY <1>1 DEF Init, Frame, Ranges
  <1>4. \A v : ~Points(heap, v)
    BY DEF Init, Points, Heap
  <1>5. WellMade(heap)
    BY <1>4 DEF WellMade
  <1>6. Sound(heap, {}) /\ Pointers(root) \ {NULL} \subseteq {}
    BY DEF Sound, Init, Pointers
  <1>7. Known(heap, root)
    BY <1>6 DEF Known
  <1>8. Running
    <2>1. heap[now] = <<>>
      BY <1>1 DEF Init, Frame, Heap
    <2>2. <<>> \in Seq(Cells)
      OBVIOUS
    <2>3. Used(heap[now]) = 0
      BY <2>1, <2>2, UsedNat
    <2> QED
      BY <1>2, <2>3 DEF Init, Running, Waiting, Collecting
  <1> QED
    BY <1>3, <1>5, <1>7, <1>8 DEF IdentityInv, Causes, Init

----------------------------------------------------------------------------
(* The collection shows what was there                                     *)

\* A collection that starts has room for all that is there.
LEMMA StartsIdentity ==
  ASSUME IdentityInv, Frame, Mutating, fate = "run", pc \in {"run", "allocate", "again"},
         NEW s \in Nat, s >= size, NEW to \in {"run", "allocate", "again"}, idris_gc(s, to),
         to # "run" => Formed(call') /\ Cardinality(DOMAIN Objects(heap, root)) < MaxObjects
  PROVE  IdentityInv' /\ SameSeen
  <1>1. /\ now' = (now + 1) % 3 /\ end' = s /\ size' = s /\ pc' = "roots" /\ back' = to
        /\ next' = 1 /\ heap' = heap /\ root' = root /\ fate' = fate /\ marked' = marked
    BY DEF idris_gc, FirstRoot
  <1>2. now' \in Heap /\ now' = Third /\ Old' = now
    <2>1. now = 0 \/ now = 1 \/ now = 2
      BY DEF Frame, Heap
    <2> QED
      BY <1>1, <2>1 DEF Heap, Old, Third
  <1>3. SameSeen /\ Known(heap, root)' /\ WellMade(heap)'
    BY <1>1 DEF SameSeen, IdentityInv
  <1>4. heap'[now'] = <<>> /\ heap'[Old'] = heap[now] /\ Used(heap'[now']) = 0
    <2>1. <<>> \in Seq(Cells)
      OBVIOUS
    <2>2. heap'[now'] = <<>> /\ heap'[Old'] = heap[now]
      BY <1>1, <1>2 DEF Mutating
    <2> QED
      BY <2>1, <2>2, UsedNat
  <1>5. /\ heap[now] \in Seq(Cells) /\ Used(heap[now]) \in Nat /\ Used(heap[now]) < end
        /\ end <= size /\ end \in Nat /\ size \in Nat
    <2>1. heap[now] \in Seq(Cells)
      BY DEF Frame, Heaps
    <2> QED
      BY <2>1, UsedNat DEF IdentityInv, Running, Frame
  <1>6. Enough(heap, Objects(heap, root))'
    <2>1. NoForward(heap)
      BY NoForwards DEF Phases
    <2>2. PICK f : LeftTo(heap[now], Len(heap[now]), f) /\ f[Len(heap[now])] = Used(heap[now])
      BY <1>5, <2>1, LeftAll DEF NoForward
    <2>3. 0 < s /\ 0 + Used(heap[now]) < s
      BY <1>5
    <2> QED
      BY <1>1, <1>4, <2>2, <2>3 DEF Enough
  <1>7. CopiesIn(heap, Shown(heap, root))' /\ (marked = MarksOf(heap))'
    <2>1. Len(heap'[now']) = 0
      BY <1>4
    <2>2. marked = {}
      BY DEF IdentityInv, Running, Collecting
    <2> QED
      BY <1>1, <2>1, <2>2 DEF CopiesIn, MarksOf
  <1>8. Ranges'
    BY <1>1, <1>2 DEF IdentityInv, Ranges
  <1>9. Running'
    <2>1. (end <= size /\ Used(heap[now]) < end)'
      BY <1>1, <1>4, <1>5
    <2>2. (Waiting => Formed(call) /\ Cardinality(DOMAIN Objects(heap, root)) < MaxObjects)'
      BY <1>1 DEF Waiting, Formed
    <2> QED
      BY <1>1, <1>6, <1>7, <2>1, <2>2 DEF Running, Collecting
  <1> QED
    BY <1>1, <1>3, <1>8, <1>9 DEF IdentityInv, Causes

LEMMA RootsDoneIdentity ==
  ASSUME IdentityInv, fate = "run", RootsDone
  PROVE  IdentityInv' /\ SameSeen
  <1>1. /\ pc' = "cheney" /\ next' = 1 /\ pc = "roots"
        /\ UNCHANGED <<heap, now, end, size, root, call, back, marked, fate>>
    BY DEF RootsDone, At
  <1>2. SameSeen /\ Known(heap, root)' /\ WellMade(heap)' /\ Ranges'
    BY <1>1 DEF SameSeen, IdentityInv, Ranges
  <1>3. Running'
    <2>1. Waiting' => Waiting
      BY <1>1 DEF Waiting
    <2>2. Formed(call)' <=> Formed(call)
      BY <1>1 DEF Formed
    <2>3. (CopiesIn(heap, Shown(heap, root)) /\ marked = MarksOf(heap))'
      BY <1>1 DEF IdentityInv, Running, Collecting, CopiesIn, MarksOf
    <2>4. Enough(heap, Objects(heap, root))'
      BY <1>1 DEF IdentityInv, Running, Collecting, Enough, Old
    <2>5. (end <= size /\ Used(heap[now]) < end)'
      BY <1>1 DEF IdentityInv, Running
    <2>6. Waiting' => Formed(call)' /\ (Cardinality(DOMAIN Objects(heap, root)) < MaxObjects)'
      BY <1>1, <2>1, <2>2 DEF IdentityInv, Running
    <2> QED
      BY <1>1, <2>3, <2>4, <2>5, <2>6 DEF Running, Collecting
  <1> QED
    BY <1>1, <1>2, <1>3 DEF IdentityInv, Causes

\* What a step of the collection keeps, when it goes on.
GoesOn == /\ UNCHANGED <<now, end, size, pc, call, back>> /\ Collecting /\ SameSeen
          /\ heap' \in Heaps /\ WellMade(heap') /\ Known(heap', root')
          /\ root' \in [Root -> Values0] /\ next' \in Nat /\ marked' \subseteq Id
          /\ fate' \in {"run", "nested", "smashed"}
          /\ fate' = "nested" => Greedy(Objects(heap, root))
          /\ fate' = "smashed" => Fieldless(Objects(heap, root))
          /\ CopiesIn(heap', Shown(heap', root'))
          /\ fate' = "run" => marked' = MarksOf(heap')
          /\ Enough(heap', Objects(heap, root))

LEMMA GoesOnIdentity ==
  ASSUME IdentityInv, fate = "run", GoesOn
  PROVE  IdentityInv'
  <1>1. /\ UNCHANGED <<now, end, size, pc, call, back>> /\ Collecting
        /\ Objects(heap', root') = Objects(heap, root)
    BY DEF GoesOn, SameSeen
  <1>2. Ranges' /\ WellMade(heap)' /\ Known(heap, root)'
    BY <1>1 DEF GoesOn, IdentityInv, Ranges
  <1>3. ASSUME fate' = "run" PROVE Running'
    <2>1. Used(heap'[now']) < end' /\ end' <= size'
      BY <1>1 DEF GoesOn, Enough, IdentityInv, Running
    <2>2. Waiting' => Waiting
      BY <1>1 DEF Waiting
    <2>3. Formed(call)' <=> Formed(call)
      BY <1>1 DEF Formed
    <2>4. Waiting' => Formed(call)' /\ (Cardinality(DOMAIN Objects(heap, root)) < MaxObjects)'
      BY <1>1, <2>2, <2>3 DEF IdentityInv, Running
    <2>5. CopiesIn(heap, Shown(heap, root))' /\ (marked = MarksOf(heap))'
      BY <1>1, <1>3 DEF GoesOn, CopiesIn, MarksOf
    <2>6. Enough(heap, Objects(heap, root))'
      BY <1>1 DEF GoesOn, Enough, Old
    <2> QED
      BY <1>1, <2>1, <2>4, <2>5, <2>6 DEF Running, Collecting
  <1>4. Causes'
    BY <1>1 DEF GoesOn, Causes
  <1> QED
    BY <1>2, <1>3, <1>4 DEF IdentityInv

LEMMA CopyRootIdentity ==
  ASSUME IdentityInv, Frame, CopyingRoots, fate = "run", CopyRoot
  PROVE  IdentityInv' /\ SameSeen
  <1> DEFINE v == root[next]
             g == Copied(heap, v).heap
             w == Copied(heap, v).val
             o == Objects(heap, root)
             ids == RootIds(heap, root)
  <1>0. /\ next \in Root /\ heap' = g /\ root' = [root EXCEPT ![next] = w]
        /\ marked' = marked \cup Copied(heap, v).marks
        /\ fate' = Copied(heap, v).fate /\ next' = next + 1
        /\ UNCHANGED <<now, end, size, pc, call, back>> /\ pc = "roots"
    BY DEF CopyRoot, At
  <1>1. /\ now \in Heap /\ end \in Nat /\ Moving(heap) /\ WellMade(heap) /\ NoForward(heap)
        /\ next \in Nat /\ root \in [Root -> Values0] /\ Known(heap, root) /\ heap \in Heaps
    BY <1>0, NoForwards DEF Frame, IdentityInv, CopyingRoots, Phases
  <1>2. Into(heap, Old, v)
    BY <1>0, <1>1 DEF CopyingRoots
  <1>3. PICK L : /\ Represents(heap, L, o) /\ Pointers(root) \ {NULL} \subseteq L
                 /\ Names(heap, L) \subseteq DOMAIN o
    BY <1>1, KnownShows DEF Shows
  <1>4. ValueOf(L, v)
    BY <1>0, <1>3 DEF ValueOf, Pointers
  <1>5. Enough(heap, o) /\ CopiesIn(heap, Shown(heap, root)) /\ marked = MarksOf(heap)
    BY <1>0 DEF IdentityInv, Running, Collecting
  <1> HIDE DEF v, o
  <1>6. Follows(heap, v, g, w, L, o)
    BY <1>1, <1>2, <1>3, <1>4, CopyFollows
  <1>7. Stops(heap, v, o) /\ Marks(heap, v)
    BY <1>1, <1>2, <1>3, <1>4, <1>5, CopyStops
  <1> HIDE DEF g, w
  <1>8. /\ Names(g, L \cup ({w} \ {NULL})) \subseteq DOMAIN o /\ IdIn(g, w) = IdIn(heap, v)
        /\ w \in Values0 /\ \A u : ValueOf(L, u) => IdIn(g, u) = IdIn(heap, u)
    <2>1. CopyShows(heap, v, g, w, L, o)
      BY <1>3, <1>4, <1>6, FollowsShows
    <2> QED
      BY <2>1 DEF CopyShows
  <1>9. /\ root'[next] = w /\ \A y \in Root : y # next => root'[y] = root[y]
        /\ root' \in [Root -> Values0]
    BY <1>0, <1>1, <1>8
  <1>10. CopiesIn(g, Shown(g, root')) /\ Pointers(root') \ {NULL} \subseteq L \cup ({w} \ {NULL})
    <2>1. root[next] = v
      BY DEF v
    <2>2. PICK q : q = root'
      OBVIOUS
    <2>3. q[next] = w /\ \A y \in Root : y # next => q[y] = root[y]
      BY <1>9, <2>2
    <2>4. CopiedShown(g, q, L, w)
      BY <1>0, <1>1, <1>2, <1>3, <1>4, <1>5, <1>6, <2>1, <2>3, RootCopied
    <2> QED
      BY <2>2, <2>4 DEF CopiedShown
  <1>11. RootIds(g, root') = ids
    <2>1. \A y \in Root : IdIn(g, root'[y]) = IdIn(heap, root[y])
      <3> SUFFICES ASSUME NEW y \in Root PROVE IdIn(g, root'[y]) = IdIn(heap, root[y])
        OBVIOUS
      <3>1. CASE y = next
        BY <1>8, <1>9, <3>1 DEF v
      <3>2. CASE y # next
        <4>1. ValueOf(L, root[y])
          BY <1>3 DEF ValueOf, Pointers
        <4> QED
          BY <1>8, <1>9, <3>2, <4>1
      <3> QED
        BY <3>1, <3>2
    <2> QED
      BY <2>1 DEF RootIds
  <1>12. Shows(g, root', ids, o)
    <2> HIDE DEF ids
    <2> QED
      BY <1>6, <1>8, <1>10, <1>11 DEF Shows, Follows
  <1>13. Known(g, root') /\ RootIds(g, root') = ids /\ Objects(g, root') = o
    BY <1>1, <1>12, ShowsSame DEF o
  <1>14. GoesOn
    <2>1. SameSeen
      BY <1>0, <1>13 DEF SameSeen, o
    <2>2. g \in Heaps /\ WellMade(g)
      BY <1>6 DEF Follows
    <2>3. /\ fate' \in {"run", "nested", "smashed"} /\ Enough(g, o) /\ marked' \subseteq Id
          /\ fate' = "nested" => Greedy(o)
          /\ fate' = "smashed" => Fieldless(o)
          /\ fate' = "run" => marked' = MarksOf(g)
      BY <1>0, <1>5, <1>7 DEF Stops, Marks, IdentityInv, Ranges, g
    <2> QED
      BY <1>0, <1>1, <1>9, <1>10, <1>13, <2>1, <2>2, <2>3 DEF GoesOn, Collecting, o
  <1> QED
    BY <1>14, GoesOnIdentity DEF GoesOn

LEMMA ScanCellIdentity ==
  ASSUME IdentityInv, Frame, Scanning, fate = "run", ScanCell
  PROVE  IdentityInv' /\ SameSeen
  <1> DEFINE o == Objects(heap, root)
             n == Len(heap[now][next].args)
  <1>0. /\ next <= Len(heap[now]) /\ heap' = Scanned(next).heap /\ fate' = Scanned(next).fate
        /\ next' = next + 1 /\ marked' = marked \cup Scanned(next).marks
        /\ UNCHANGED <<now, end, size, root, pc, call, back>> /\ pc = "cheney"
    BY DEF ScanCell, At
  <1>1. /\ now \in Heap /\ end \in Nat /\ heap \in Heaps /\ next \in Nat /\ next >= 1
        /\ Len(heap[now]) \in Nat /\ WellMade(heap) /\ NoForward(heap) /\ Known(heap, root)
        /\ root \in [Root -> Values0]
    BY <1>0, NoForwards DEF Frame, Scanning, Heaps, IdentityInv, Phases
  <1>2. next \in 1 .. Len(heap[now])
    BY <1>0, <1>1
  <1>3. Unscanned(heap, heap[now][next])
    BY <1>1, <1>2 DEF Scanning
  <1>4. PartScanned(heap, next, 0)
    <2>1. \A j \in DOMAIN heap[now][next].args : ~(j <= 0)
      <3>1. heap[now] \in Seq(Cells)
        BY <1>1 DEF Heaps
      <3>2. heap[now][next].args \in Seq(Values0)
        BY <1>2, <3>1, CellAt
      <3> QED
        BY <3>2
    <2> QED
      BY <1>1, <1>2, <1>3, <2>1 DEF PartScanned, Scanning, Unscanned
  <1>5. Enough(heap, o) /\ CopiesIn(heap, Shown(heap, root)) /\ marked = MarksOf(heap)
        /\ marked \subseteq Id
    BY <1>0 DEF IdentityInv, Running, Collecting, Ranges
  <1>6. Shows(heap, root, RootIds(heap, root), o)
    BY <1>1, KnownShows
  <1>7. PICK a : a = Scanned(next)
    OBVIOUS
  <1>8. FieldsSeen(a, next, n, o)
    <2> HIDE DEF o
    <2>1. FieldsSeen(Scanned(next), next, n, o)
      BY <1>1, <1>2, <1>3, <1>4, <1>5, <1>6, CellScanned
    <2> QED
      BY <1>7, <2>1
  <1> HIDE DEF n
  <1>9. /\ Shows(a.heap, root, RootIds(heap, root), o) /\ a.heap \in Heaps /\ WellMade(a.heap)
        /\ CopiesIn(a.heap, Shown(a.heap, root)) /\ Enough(a.heap, o) /\ a.marks \subseteq Id
        /\ a.fate \in {"run", "nested", "smashed"}
        /\ a.fate = "run" => MarksOf(a.heap) = MarksOf(heap) \cup a.marks
        /\ a.fate = "nested" => Greedy(o)
        /\ a.fate = "smashed" => Fieldless(o)
    BY <1>8 DEF FieldsSeen, ScanSeen
  <1>10. Known(a.heap, root) /\ RootIds(a.heap, root) = RootIds(heap, root) /\ Objects(a.heap, root) = o
    BY <1>1, <1>9, ShowsSame
  <1>11. heap' = a.heap /\ fate' = a.fate /\ marked' = marked \cup a.marks /\ root' = root
    BY <1>0, <1>7
  <1>12. GoesOn
    <2>1. SameSeen
      BY <1>10, <1>11 DEF SameSeen
    <2> QED
      BY <1>0, <1>1, <1>5, <1>9, <1>10, <1>11, <2>1 DEF GoesOn, Collecting
  <1> QED
    BY <1>12, GoesOnIdentity DEF GoesOn

\* The working heap when the scan has reached its end: what is reached is there,
\* and nothing else is.
LEMMA AllScanned ==
  ASSUME now \in Heap, heap \in Heaps, next \in Nat, Scanning, next > Len(heap[now]), Known(heap, root),
         CopiesIn(heap, Shown(heap, root))
  PROVE  /\ Shown(heap, root) = {<<now, m>> : m \in 1 .. Len(heap[now])}
         /\ \A v \in Shown(heap, root) : Target(heap, v) = v
  <1> DEFINE K == {<<now, m>> : m \in 1 .. Len(heap[now])}
  <1>1. PICK L : Sound(heap, L) /\ Pointers(root) \ {NULL} \subseteq L
    BY DEF Known
  <1>2. Pointers(root) \ {NULL} \subseteq K
    BY DEF Scanning, Into, Pointers
  <1>3. \A m \in 1 .. Len(heap[now]) : Clean(heap, heap[now][m])
    <2>1. Len(heap[now]) \in Nat
      BY DEF Heaps
    <2>2. \A m \in 1 .. Len(heap[now]) : m < next
      <3>1. next <= Len(heap[now]) + 1 /\ next >= 1
        BY DEF Scanning
      <3> QED
        BY <2>1, <3>1
    <2> QED
      BY <2>2 DEF Scanning
  <1>4. ASSUME NEW u \in K PROVE Target(heap, u) = u /\ Kids(heap, u) \subseteq K
    <2>1. PICK m \in 1 .. Len(heap[now]) : u = <<now, m>>
      OBVIOUS
    <2>2. Cell(heap, u) = heap[now][m] /\ Clean(heap, heap[now][m])
      BY <1>3, <2>1 DEF Cell
    <2>3. Target(heap, u) = u /\ Deref(heap, u) = heap[now][m]
      BY <2>2 DEF Target, Deref, Clean
    <2> QED
      BY <2>2, <2>3 DEF Kids, Clean, Into
  <1>5. Shown(heap, root) \subseteq K
    <2> HIDE DEF K
    <2> QED
      BY <1>1, <1>2, <1>4, ReachedSound DEF Shown
  <1>6. K \subseteq Shown(heap, root)
    BY DEF CopiesIn
  <1> QED
    BY <1>4, <1>5, <1>6

\* What a collection leaves when it ends.
Collected ==
  /\ Shown(heap', root') = {<<now, m>> : m \in 1 .. Len(heap[now])}
  /\ heap'[now] = heap[now] /\ now' = now /\ root' = root
  /\ \A v \in Shown(heap', root') : Target(heap', v) = v

LEMMA EndsIdentity ==
  ASSUME IdentityInv, Frame, Scanning, fate = "run", idris_gcEnds
  PROVE  IdentityInv' /\ SameSeen /\ Collected
  <1> DEFINE o == Objects(heap, root)
             S == Shown(heap, root)
             K == {<<now, m>> : m \in 1 .. Len(heap[now])}
  <1>1. /\ next > Len(heap[now]) /\ size' = NextSize /\ heap' = [heap EXCEPT ![Old] = <<>>]
        /\ pc' = back /\ next' = 0 /\ back' = "run" /\ pc = "cheney" /\ marked' = {}
        /\ UNCHANGED <<now, end, root, call, fate>>
    BY DEF idris_gcEnds, At, Swept
  <1>2. /\ now \in Heap /\ heap \in Heaps /\ Old \in Heap /\ Old # now /\ WellMade(heap)
        /\ Known(heap, root) /\ CopiesIn(heap, S) /\ root \in [Root -> Values0] /\ next \in Nat
    BY <1>1, ThreeHeaps DEF Frame, IdentityInv, Running, Collecting
  <1>3. /\ heap' \in Heaps /\ heap'[now] = heap[now] /\ heap'[Old] = <<>>
        /\ \A s \in Heap : s # Old => heap'[s] = heap[s]
    BY <1>1, <1>2 DEF Heaps
  <1>4. S = K /\ \A v \in S : Target(heap, v) = v
    BY <1>1, <1>2, AllScanned
  <1>5. PICK L : Sound(heap, L) /\ Pointers(root) \ {NULL} \subseteq L
    BY <1>2 DEF Known
  <1>6. Represents(heap, S, o) /\ Pointers(root) \ {NULL} \subseteq S /\ DOMAIN o = Names(heap, S)
    BY <1>5, ObjectsRepresent
  <1>7. \A v \in S : /\ Points(heap', v) /\ Cell(heap', v) = Cell(heap, v)
                     /\ Target(heap', v) = v /\ Deref(heap', v) = Deref(heap, v)
    <2> SUFFICES ASSUME NEW v \in S
                 PROVE  /\ Points(heap', v) /\ Cell(heap', v) = Cell(heap, v)
                        /\ Target(heap', v) = v /\ Deref(heap', v) = Deref(heap, v)
      OBVIOUS
    <2>1. PICK m \in 1 .. Len(heap[now]) : v = <<now, m>>
      BY <1>4
    <2>2. Cell(heap', v) = Cell(heap, v)
      BY <1>3, <2>1 DEF Cell
    <2>3. Points(heap', v)
      BY <1>2, <1>3, <2>1 DEF Points
    <2>4. Target(heap', v) = v
      BY <1>4, <2>2 DEF Target
    <2> QED
      BY <1>4, <2>2, <2>3, <2>4, DerefTarget
  <1>8. PICK g : g = heap'
    OBVIOUS
  <1> HIDE DEF S, o, K
  <1>9. SameView(heap, g, S)
    BY <1>4, <1>7, <1>8 DEF SameView
  <1>10. /\ Represents(g, S, o) /\ \A v \in S : Kids(g, v) = Kids(heap, v)
         /\ \A v : ValueOf(S, v) => IdIn(g, v) = IdIn(heap, v)
    BY <1>6, <1>9, ViewKept
  <1>11. Shows(g, root, RootIds(heap, root), o)
    <2>1. Names(g, S) = Names(heap, S)
      BY <1>7, <1>8 DEF Names
    <2>2. \A x \in Root : ValueOf(S, root[x])
      BY <1>6 DEF Pointers, ValueOf
    <2>3. RootIds(g, root) = RootIds(heap, root)
      BY <1>10, <2>2 DEF RootIds
    <2> QED
      BY <1>6, <1>10, <2>1, <2>3 DEF Shows
  <1>12. Known(g, root) /\ RootIds(g, root) = RootIds(heap, root) /\ Objects(g, root) = o
    BY <1>2, <1>11, ShowsSame DEF o
  <1>13. Shown(g, root) = S
    <2>1. /\ Pointers(root) \ {NULL} \subseteq Shown(g, root) /\ Shown(g, root) \subseteq S
          /\ Sound(g, Shown(g, root))
      BY <1>6, <1>10, ReachedSound DEF Shown, Represents
    <2>2. \A v \in Shown(g, root) : Kids(heap, v) \subseteq Shown(g, root)
      BY <1>10, <2>1 DEF Sound
    <2>3. S \subseteq Shown(g, root)
      BY <1>5, <2>1, <2>2, ReachedSound DEF Shown, S
    <2> QED
      BY <2>1, <2>3
  <1>14. SameSeen /\ Collected
    BY <1>1, <1>3, <1>4, <1>7, <1>8, <1>12, <1>13 DEF SameSeen, Collected, o, K
  <1>15. WellMade(g)
    <2> SUFFICES ASSUME NEW v, Points(g, v) PROVE Cell(g, v).id \in Id /\ HasItsFields(Cell(g, v))
      BY DEF WellMade
    <2>1. PICK s, m : s \in Heap /\ m \in 1 .. Len(g[s]) /\ v = <<s, m>>
      BY DEF Points
    <2>2. s # Old
      <3>1. Len(<<>>) = 0
        OBVIOUS
      <3> QED
        BY <1>3, <1>8, <2>1, <3>1
    <2>3. g[s] = heap[s]
      BY <1>3, <1>8, <2>1, <2>2
    <2>4. Points(heap, v) /\ Cell(g, v) = Cell(heap, v)
      BY <2>1, <2>3 DEF Points, Cell
    <2> QED
      BY <1>2, <2>4 DEF WellMade
  <1>16. size' \in Nat /\ end' <= size'
    <2>1. size \in Nat /\ HeapSize \in Nat /\ end \in Nat /\ end <= size
      BY CollectorAssumption DEF Frame, IdentityInv, Running
    <2> QED
      BY <1>1, <2>1 DEF NextSize
  <1>17. Ranges'
    BY <1>1, <1>3, <1>16 DEF IdentityInv, Ranges
  <1>18. Running'
    <2>1. ~Collecting' /\ (Waiting' => Waiting)
      BY <1>1 DEF Collecting, Waiting, Frame
    <2>2. Formed(call)' <=> Formed(call)
      BY <1>1 DEF Formed
    <2>3. Objects(heap', root') = Objects(heap, root)
      BY <1>14 DEF SameSeen
    <2>4. Waiting' => Formed(call)' /\ (Cardinality(DOMAIN Objects(heap, root)) < MaxObjects)'
      BY <2>1, <2>2, <2>3 DEF IdentityInv, Running
    <2>5. (Used(heap[now]) < end)'
      BY <1>1, <1>3 DEF IdentityInv, Running
    <2> QED
      BY <1>1, <1>16, <2>1, <2>4, <2>5 DEF Running
  <1> QED
    BY <1>1, <1>8, <1>12, <1>14, <1>15, <1>17, <1>18 DEF IdentityInv, Causes

----------------------------------------------------------------------------
(* The program sees what the store lets it see                             *)

\* What the store says its variables become.
SeenBecomes(h, r, ids, o) ==
  RootIds(h, r) = ids /\ Objects(h, r) = [i \in store!Reached(ids, o) |-> o[i]]
ObjectOf(h, c) == [ty |-> c.ty, args |-> [k \in DOMAIN c.args |-> IdIn(h, c.args[k])]]
With(o, i, new) == [j \in DOMAIN o \cup {i} |-> IF j = i THEN new ELSE o[j]]

LEMMA BecomesSeen ==
  ASSUME NEW h, NEW L, NEW o, Represents(h, L, o), NEW r, Pointers(r) \ {NULL} \subseteq L
  PROVE  Known(h, r) /\ SeenBecomes(h, r, RootIds(h, r), o)
  BY StoreView DEF Known, SeenBecomes, Represents

NewSeen(h, g, r, q, x, o, c) ==
  /\ WellMade(g) /\ Known(g, q)
  /\ SeenBecomes(g, q, [RootIds(h, r) EXCEPT ![x] = c.id], With(o, c.id, ObjectOf(h, c)))

\* A new cell that holds what is there, and a root that takes it.
LEMMA NewShown ==
  ASSUME now \in Heap, NEW h \in Heaps, WellMade(h), NoForward(h), NEW L, NEW o,
         Represents(h, L, o), Names(h, L) \subseteq DOMAIN o,
         NEW c \in Cells, c.id \in Id \ DOMAIN o, HasItsFields(c), c.ty # "FWD",
         \A k \in DOMAIN c.args : ValueOf(L, c.args[k]),
         NEW g, g = [h EXCEPT ![now] = Append(@, c)],
         NEW r, Pointers(r) \ {NULL} \subseteq L, NEW x \in Root,
         NEW q, q[x] = <<now, Len(h[now]) + 1>>, \A y \in Root : y # x => q[y] = r[y]
  PROVE  NewSeen(h, g, r, q, x, o, c)
  <1> DEFINE to == <<now, Len(h[now]) + 1>>
             N == L \cup {to}
             o2 == With(o, c.id, ObjectOf(h, c))
  <1>1. /\ SameView(h, g, L) /\ WellMade(g) /\ NoForward(g)
        /\ Target(g, to) = to /\ Deref(g, to) = c /\ to # NULL
    BY AppendShows
  <1>2. Points(g, to) /\ Cell(g, to) = c
    BY Appended
  <1> HIDE DEF to
  <1>3. /\ Represents(g, L, o) /\ \A v : ValueOf(L, v) => IdIn(g, v) = IdIn(h, v)
    <2>1. SameView(h, g, L)
      BY <1>1
    <2>2. Represents(g, L, o)
      BY <2>1, ViewKept
    <2>3. \A v : ValueOf(L, v) => IdIn(g, v) = IdIn(h, v)
      BY <2>1, ViewKept
    <2> QED
      BY <2>2, <2>3
  <1>4. /\ \A v \in L : Cell(g, v).id = Cell(h, v).id /\ Cell(g, v).id \in DOMAIN o
    BY <1>1 DEF SameView, Names
  <1>5. Proper(g, to) /\ Kids(g, to) \subseteq L
    <2>1. Kids(g, to) \subseteq L
      BY <1>1 DEF Kids, ValueOf
    <2> QED
      BY <1>1, <1>2, <2>1 DEF Proper
  <1>6. Sound(g, N)
    <2>1. \A v \in N : Proper(g, v) /\ Kids(g, v) \subseteq N
      BY <1>3, <1>5 DEF Represents, Sound
    <2>2. ASSUME NEW v \in N, NEW w \in N, Cell(g, v).id = Cell(g, w).id PROVE Alike(g, v, w)
      <3>1. CASE v \in L /\ w \in L
        BY <1>3, <2>2, <3>1 DEF Represents, Sound
      <3>2. CASE v = to /\ w = to
        BY <3>2, AlikeTwice
      <3>3. CASE v \in L /\ w = to
        BY <1>2, <1>4, <2>2, <3>3
      <3>4. CASE v = to /\ w \in L
        BY <1>2, <1>4, <2>2, <3>4
      <3> QED
        BY <3>1, <3>2, <3>3, <3>4
    <2> QED
      BY <2>1, <2>2 DEF Sound
  <1>7. Represents(g, N, o2)
    <2>1. ASSUME NEW v \in L PROVE Obj(g, v) = o2[Cell(g, v).id]
      <3>1. Obj(g, v) = o[Cell(g, v).id]
        BY <1>3 DEF Represents
      <3>2. o2[Cell(g, v).id] = o[Cell(g, v).id]
        BY <1>4 DEF With
      <3> QED
        BY <3>1, <3>2
    <2>2. Obj(g, to) = ObjectOf(h, c)
      BY <1>1, <1>3 DEF Obj, ObjectOf
    <2>3. o2[Cell(g, to).id] = ObjectOf(h, c)
      BY <1>2 DEF With
    <2> HIDE DEF o2
    <2> QED
      BY <1>6, <2>1, <2>2, <2>3 DEF Represents
  <1>8. Pointers(q) \ {NULL} \subseteq N
    <2> SUFFICES ASSUME NEW y \in Root, q[y] # NULL PROVE q[y] \in N
      BY DEF Pointers
    <2>1. CASE y = x
      BY <2>1 DEF to
    <2>2. CASE y # x
      BY <2>2 DEF Pointers
    <2> QED
      BY <2>1, <2>2
  <1>9. RootIds(g, q) = [RootIds(h, r) EXCEPT ![x] = c.id]
    <2>1. IdIn(g, q[x]) = c.id
      BY <1>1, <1>2 DEF IdIn, to
    <2>2. \A y \in Root : y # x => IdIn(g, q[y]) = IdIn(h, r[y])
      <3> SUFFICES ASSUME NEW y \in Root, y # x PROVE IdIn(g, q[y]) = IdIn(h, r[y])
        OBVIOUS
      <3>1. ValueOf(L, r[y])
        BY DEF Pointers, ValueOf
      <3> QED
        BY <1>3, <3>1
    <2> QED
      BY <2>1, <2>2 DEF RootIds
  <1> HIDE DEF o2, N
  <1>10. Known(g, q) /\ SeenBecomes(g, q, RootIds(g, q), o2)
    BY <1>7, <1>8, BecomesSeen
  <1> QED
    BY <1>1, <1>9, <1>10 DEF o2, NewSeen

LEMMA LiveObjects ==
  ASSUME Known(heap, root)
  PROVE  LiveIds = DOMAIN Objects(heap, root) /\ LiveIds \subseteq Id
  <1> DEFINE S == Shown(heap, root)
             D == DOMAIN Objects(heap, root)
  <1>1. PICK L : Sound(heap, L) /\ Pointers(root) \ {NULL} \subseteq L
    BY DEF Known
  <1>2. Sound(heap, S) /\ D = Names(heap, S)
    BY <1>1, ObjectsRepresent DEF Represents
  <1>3. Live = S
    BY DEF Live, Roots, Shown, Pointers
  <1>4. \A v \in S : IdOf(v) = Cell(heap, v).id
    BY <1>2 DEF Sound, Proper, IdOf
  <1>5. D \subseteq Id
    BY <1>2, NamesOf
  <1> HIDE DEF S
  <1> QED
    BY <1>2, <1>3, <1>4, <1>5 DEF LiveIds, Names

\* Where there are fewer objects than identities, the one that is chosen is free.
LEMMA FreeIdentity ==
  ASSUME Known(heap, root), Cardinality(DOMAIN Objects(heap, root)) < MaxObjects
  PROVE  (CHOOSE i \in Id \ LiveIds : \A j \in Id \ LiveIds : i <= j) \in Id \ DOMAIN Objects(heap, root)
  <1> DEFINE D == DOMAIN Objects(heap, root)
             F == Id \ LiveIds
  <1>3. LiveIds = D /\ D \subseteq Id
    BY LiveObjects
  <1>4. F # {}
    <2> SUFFICES ASSUME F = {} PROVE FALSE
      OBVIOUS
    <2>2. D = Id
      BY <1>3
    <2>3. Cardinality(Id) = MaxObjects
      BY MaxNat, FS_Interval DEF Id
    <2> HIDE DEF D
    <2> QED
      BY <2>2, <2>3, MaxNat DEF D
  <1>5. F \subseteq Nat
    BY MaxNat DEF Id
  <1> HIDE DEF F
  <1>6. \E i \in F : \A j \in F : i <= j
    BY <1>4, <1>5, LeastNumber
  <1>7. (CHOOSE i \in F : \A j \in F : i <= j) \in F
    BY <1>6
  <1> QED
    BY <1>3, <1>7 DEF F

\* An allocation makes the object it is called for.
Made(c) ==
  \E i \in Id \ DOMAIN Objects(heap, root), kind \in Kinds :
     /\ c.ty = kind[1] /\ c.from \in [1 .. kind[2] -> Root]
     /\ SeenBecomes(heap', root', [RootIds(heap, root) EXCEPT ![c.root] = i],
                    With(Objects(heap, root), i,
                         [ty |-> kind[1],
                          args |-> [k \in 1 .. Fields(kind) |-> RootIds(heap, root)[c.from[k]]]]))

LEMMA AllocateIdentity ==
  ASSUME IdentityInv, Frame, Mutating, fate = "run", pc \in {"run", "allocate", "again"},
         NEW c \in Calls, Formed(c), Cardinality(DOMAIN Objects(heap, root)) < MaxObjects,
         Allocate(c)
  PROVE  IdentityInv' /\ (SameSeen \/ Made(c))
  <1> DEFINE o == Objects(heap, root)
             i == CHOOSE i \in Id \ LiveIds : \A j \in Id \ LiveIds : i <= j
             new == NewCell(c, i)
             to == <<now, Len(heap[now]) + 1>>
  <1>0. pc' = "run" /\ Room(heap[now], Needed(c)) /\ UNCHANGED <<now, end, size, back, next, marked>>
    BY DEF Allocate
  <1>1. /\ now \in Heap /\ heap \in Heaps /\ WellMade(heap) /\ NoForward(heap) /\ Known(heap, root)
        /\ heap[now] \in Seq(Cells) /\ Len(heap[now]) \in Nat /\ root \in [Root -> Values0]
        /\ end \in Nat /\ end <= size /\ marked = {} /\ Used(heap[now]) < end
    BY NoForwards DEF Frame, Heaps, IdentityInv, Phases, Running, Collecting
  <1>2. CASE Stale(c)
    <2>1. fate' = "stale" /\ call' = c /\ heap' = heap /\ root' = root
      BY <1>2 DEF Allocate
    <2>2. c.ty \in HeldInC \cup Copying
      BY <1>2 DEF Stale, Argument
    <2>3. Ranges'
      BY <1>0, <2>1 DEF IdentityInv, Ranges
    <2>4. SameSeen
      BY <2>1 DEF SameSeen
    <2> QED
      BY <1>1, <2>1, <2>2, <2>3, <2>4 DEF IdentityInv, Causes
  <1>3. CASE ~Stale(c)
    <2>1. /\ heap' = [heap EXCEPT ![now] = Append(@, new)]
          /\ root' = [root EXCEPT ![c.root] = to] /\ fate' = fate
      BY <1>3 DEF Allocate
    <2>2. i \in Id \ DOMAIN o
      BY <1>1, FreeIdentity
    <2> HIDE DEF i, o
    <2>3. NewCellOf(c, i, new)
      BY <1>1, <1>3, <2>2, NewCellIs DEF Ids
    <2> HIDE DEF new
    <2>4. PICK kind \in Kinds : /\ c.ty = kind[1] /\ c.from \in [1 .. kind[2] -> Root]
                                /\ DOMAIN c.held = 1 .. kind[2]
      BY DEF Formed
    <2>5. c.root \in Root /\ kind[1] # "FWD" /\ kind[2] \in Nat
      BY <2>4, KindsAssumption DEF Formed
    <2>6. /\ new \in Cells /\ new.id = i /\ new.ty = kind[1] /\ new.ty # "FWD"
          /\ DOMAIN new.args = 1 .. Fields(kind) /\ Len(new.args) = Fields(kind)
          /\ \A k \in DOMAIN new.args : c.from[k] \in Root /\ new.args[k] = root[c.from[k]]
      <3>1. c.held \in Seq(Values0) /\ Len(c.held) = kind[2]
        BY <2>4, <2>5 DEF Calls
      <3> QED
        BY <2>3, <2>4, <2>5, <3>1 DEF NewCellOf, Fields
    <2>7. PICK L : /\ Represents(heap, L, o) /\ Pointers(root) \ {NULL} \subseteq L
                   /\ Names(heap, L) \subseteq DOMAIN o
      BY <1>1, KnownShows DEF Shows, o
    <2>8. HasItsFields(new)
      BY <2>6 DEF HasItsFields
    <2>9. \A k \in DOMAIN new.args : ValueOf(L, new.args[k])
      BY <2>6, <2>7 DEF ValueOf, Pointers
    <2> DEFINE obj == ObjectOf(heap, new)
    <2>10. PICK g, q : g = heap' /\ q = root'
      OBVIOUS
    <2>11. /\ g = [heap EXCEPT ![now] = Append(@, new)]
           /\ q[c.root] = to /\ \A y \in Root : y # c.root => q[y] = root[y]
           /\ q = [root EXCEPT ![c.root] = to]
      BY <1>1, <2>1, <2>5, <2>10
    <2>12. /\ WellMade(g) /\ Known(g, q)
           /\ SeenBecomes(g, q, [RootIds(heap, root) EXCEPT ![c.root] = i], With(o, i, obj))
      <3> HIDE DEF obj
      <3>1. new.id \in Id \ DOMAIN o
        BY <2>2, <2>6
      <3>2. PICK x \in Root : x = c.root
        BY <2>5
      <3>3. q[x] = <<now, Len(heap[now]) + 1>> /\ \A y \in Root : y # x => q[y] = root[y]
        BY <2>11, <3>2
      <3>4. NewSeen(heap, g, root, q, x, o, new)
        BY <1>1, <2>6, <2>7, <2>8, <2>9, <2>11, <3>1, <3>3, NewShown
      <3> QED
        BY <2>6, <3>2, <3>4 DEF NewSeen, obj
    <2>13. obj = [ty |-> kind[1], args |-> [k \in 1 .. Fields(kind) |-> RootIds(heap, root)[c.from[k]]]]
      <3>1. \A k \in 1 .. Fields(kind) : IdIn(heap, new.args[k]) = RootIds(heap, root)[c.from[k]]
        BY <2>6 DEF RootIds
      <3> QED
        BY <2>6, <3>1 DEF ObjectOf
    <2>14. Made(c)
      <3> HIDE DEF obj
      <3> QED
        BY <2>2, <2>4, <2>10, <2>12, <2>13 DEF Made, o
    <2>15. Ranges'
      <3>1. to \in Values0
        BY <1>1 DEF Values0
      <3>1a. q \in [Root -> Values0]
        BY <1>1, <2>11, <3>1
      <3>2. g \in Heaps
        BY <1>1, <2>6, <2>11, Appended
      <3> QED
        BY <1>0, <2>1, <2>10, <3>1a, <3>2 DEF IdentityInv, Ranges
    <2>16. Used(heap'[now]) < end
      <3>1. heap'[now] = Append(heap[now], new)
        BY <1>1, <2>1 DEF Heaps
      <3>2. /\ Used(heap'[now]) = Used(heap[now]) + Size(new)
            /\ Used(heap[now]) \in Nat /\ Size(new) \in Nat
        BY <1>1, <2>6, <3>1, UsedAppend, UsedNat, CellSize
      <3>3. Size(new) = Needed(c)
        <4>1. CASE c.ty \in Copying
          BY <2>3, <4>1 DEF NewCellOf, Size, Needed, WordsOf, Copying
        <4>2. CASE c.ty \notin Copying
          BY <2>3, <4>2 DEF NewCellOf, Size, Needed
        <4> QED
          BY <4>1, <4>2
      <3> QED
        BY <1>0, <1>1, <3>2, <3>3 DEF Room
    <2>17. Running'
      BY <1>0, <1>1, <2>16 DEF Running, Waiting, Collecting
    <2> QED
      BY <1>0, <2>1, <2>10, <2>12, <2>14, <2>15, <2>17 DEF IdentityInv, Causes
  <1> QED
    BY <1>2, <1>3

LEMMA NoRoomIdentity ==
  ASSUME IdentityInv, Frame, Mutating, fate = "run", pc \in {"run", "allocate", "again"},
         NEW c \in Calls, Formed(c), Cardinality(DOMAIN Objects(heap, root)) < MaxObjects,
         NoRoom(c)
  PROVE  IdentityInv' /\ SameSeen
  <1>1. Len(c.held) \in Nat /\ size \in Nat
    BY DEF Calls, Frame
  <1>2. Needed(c) \in Nat
    BY <1>1 DEF Needed, WordsOf
  <1> DEFINE s == IF Needed(c) > size THEN size + Needed(c) ELSE size
  <1>3. s \in Nat /\ s >= size
    BY <1>1, <1>2
  <1>4. idris_gc(s, "again") /\ call' = c
    BY DEF NoRoom
  <1>5. Formed(call')
    BY <1>4 DEF Formed
  <1> HIDE DEF s
  <1> QED
    BY <1>3, <1>4, <1>5, StartsIdentity

LEMMA CallIdentity ==
  ASSUME IdentityInv, Frame, Mutating, fate = "run", pc = "run", NEW x \in Root,
         NEW kind \in Kinds, NEW from \in [1 .. kind[2] -> Root], Call(x, kind, from)
  PROVE  \/ IdentityInv' /\ SameSeen
         \/ \E c \in Calls : Formed(c) /\ IdentityInv' /\ Made(c)
  <1> DEFINE c == [root |-> x, ty |-> kind[1], from |-> from,
                   held |-> [k \in DOMAIN from |-> root[from[k]]]]
  <1>1. c \in Calls
    <2>1. kind[2] \in Nat /\ kind[1] \in Types /\ kind[1] # "FWD"
      BY KindsAssumption DEF Types
    <2>2. from \in Seq(Root) /\ DOMAIN from = 1 .. kind[2]
      BY <2>1
    <2>3. [k \in 1 .. kind[2] |-> root[from[k]]] \in Seq(Values0)
      <3>1. \A k \in 1 .. kind[2] : root[from[k]] \in Values0
        BY DEF Frame
      <3> QED
        BY <2>1, <3>1
    <2> QED
      BY <2>1, <2>2, <2>3 DEF Calls
  <1>2. Formed(c)
    BY DEF Formed
  <1>3. IF Required(c) THEN Allocate(c) \/ NoRoom(c) ELSE idris_gc(size, "allocate") /\ call' = c
    BY DEF Call
  <1>4. Cardinality(DOMAIN Objects(heap, root)) < MaxObjects
    <2>1. Cardinality(LiveIds) < MaxObjects /\ Known(heap, root)
      BY DEF Call, IdentityInv
    <2> QED
      BY <2>1, LiveObjects
  <1> HIDE DEF c
  <1>5. CASE Allocate(c)
    BY <1>1, <1>2, <1>4, <1>5, AllocateIdentity
  <1>6. CASE NoRoom(c)
    BY <1>1, <1>2, <1>4, <1>6, NoRoomIdentity
  <1>7. CASE idris_gc(size, "allocate") /\ call' = c
    <2>1. size \in Nat /\ size >= size
      BY DEF Frame
    <2>2. Formed(call')
      BY <1>2, <1>7 DEF Formed
    <2> QED
      BY <1>4, <1>7, <2>1, <2>2, StartsIdentity
  <1> QED
    BY <1>3, <1>5, <1>6, <1>7

LEMMA AllocationIdentity ==
  ASSUME IdentityInv, Frame, Phases, fate = "run", Allocation
  PROVE  \/ IdentityInv' /\ SameSeen
         \/ \E c \in Calls : Formed(c) /\ IdentityInv' /\ Made(c)
  <1>1. pc \in {"again", "allocate"}
    BY DEF Allocation, StillNoRoom, RoomNow, Retry, At
  <1>2. /\ call \in Calls /\ Mutating /\ size \in Nat
        /\ Formed(call) /\ Cardinality(DOMAIN Objects(heap, root)) < MaxObjects
    BY <1>1 DEF Frame, Waiting, Phases, IdentityInv, Running
  <1>3. CASE StillNoRoom
    <2>1. Len(call.held) \in Nat /\ HeapSize \in Nat
      BY <1>2, CollectorAssumption DEF Calls
    <2>2. Needed(call) \in Nat
      BY <2>1 DEF Needed, WordsOf
    <2> DEFINE s == size + Needed(call) + HeapSize
    <2>3. s \in Nat /\ s >= size
      BY <1>2, <2>1, <2>2
    <2>4. idris_gc(s, "allocate") /\ call' = call
      BY <1>3 DEF StillNoRoom
    <2>5. Formed(call')
      BY <1>2, <2>4 DEF Formed
    <2> HIDE DEF s
    <2> QED
      BY <1>1, <1>2, <2>3, <2>4, <2>5, StartsIdentity
  <1>4. CASE Allocate(call)
    BY <1>1, <1>2, <1>4, AllocateIdentity
  <1>5. CASE NoRoom(call)
    BY <1>1, <1>2, <1>5, NoRoomIdentity
  <1> QED
    BY <1>3, <1>4, <1>5 DEF Allocation, RoomNow, Retry

----------------------------------------------------------------------------
(* What the program does                                                   *)

\* The object in a root: where it is, and how it is seen.
RootObject(x, ids, o) ==
  /\ Into(heap, now, root[x]) /\ Cell(heap, root[x]).ty # "FWD"
  /\ Deref(heap, root[x]) = Cell(heap, root[x]) /\ Target(heap, root[x]) = root[x]
  /\ ids[x] = Cell(heap, root[x]).id /\ ids[x] # 0 /\ ids[x] \in DOMAIN o
  /\ o[ids[x]] = Obj(heap, root[x])

LEMMA RootSeen ==
  ASSUME Frame, Mutating, NEW L, NEW o, Represents(heap, L, o), Names(heap, L) \subseteq DOMAIN o,
         Pointers(root) \ {NULL} \subseteq L, NEW x \in Root, root[x] # NULL
  PROVE  RootObject(x, RootIds(heap, root), o) /\ root[x] \in L
  <1>1. root[x] \in L
    BY DEF Pointers
  <1>2. PICK m \in 1 .. Len(heap[now]) : root[x] = <<now, m>>
    BY DEF Mutating, Into
  <1>3. Cell(heap, root[x]) = heap[now][m] /\ heap[now][m].ty # "FWD"
    BY <1>2 DEF Cell, Mutating, Clean
  <1>4. Deref(heap, root[x]) = Cell(heap, root[x]) /\ Target(heap, root[x]) = root[x]
    BY <1>3 DEF Deref, Target
  <1>5. RootIds(heap, root)[x] = Cell(heap, root[x]).id
    BY DEF RootIds, IdIn
  <1>6. Cell(heap, root[x]).id \in Id /\ o[Cell(heap, root[x]).id] = Obj(heap, root[x])
        /\ Cell(heap, root[x]).id \in DOMAIN o
    BY <1>1 DEF Represents, Sound, Proper, Names
  <1> QED
    BY <1>1, <1>2, <1>3, <1>4, <1>5, <1>6, NoZero DEF RootObject, Into

\* What a step of the program keeps.
Keeps ==
  /\ UNCHANGED <<now, end, size, pc, call, back, next, marked, fate>>
  /\ heap' \in Heaps /\ root' \in [Root -> Values0] /\ WellMade(heap') /\ Known(heap', root')
  /\ Used(heap'[now]) = Used(heap[now])

LEMMA KeepsIdentity ==
  ASSUME IdentityInv, fate = "run", pc = "run", Keeps
  PROVE  IdentityInv'
  <1>1. Ranges' /\ WellMade(heap)' /\ Known(heap, root)'
    BY DEF Keeps, IdentityInv, Ranges
  <1>2. Running'
    BY DEF Keeps, IdentityInv, Running, Collecting, Waiting
  <1> QED
    BY <1>1, <1>2 DEF Keeps, IdentityInv, Causes

\* The store's steps, of what is seen.
Wrote(x, k, y) ==
  LET ids == RootIds(heap, root)
      o   == Objects(heap, root)
  IN  /\ ids[x] # 0 /\ o[ids[x]].ty \in Written /\ k \in DOMAIN o[ids[x]].args
      /\ SeenBecomes(heap', root', ids, [o EXCEPT ![ids[x]].args[k] = ids[y]])
DidRead(x, y, k) ==
  LET ids == RootIds(heap, root)
      o   == Objects(heap, root)
  IN  /\ ids[y] # 0 /\ k \in DOMAIN o[ids[y]].args
      /\ SeenBecomes(heap', root', [ids EXCEPT ![x] = o[ids[y]].args[k]], o)
Dropped(x) == SeenBecomes(heap', root', [RootIds(heap, root) EXCEPT ![x] = 0], Objects(heap, root))

\* A root takes a value that is there.
LEMMA RootTakesIdentity ==
  ASSUME IdentityInv, Frame, fate = "run", pc = "run", NEW L, NEW o, Represents(heap, L, o),
         Pointers(root) \ {NULL} \subseteq L, NEW x \in Root, NEW v, ValueOf(L, v),
         root' = [root EXCEPT ![x] = v], UNCHANGED <<pc, call, memory>>
  PROVE  /\ IdentityInv'
         /\ SeenBecomes(heap', root', [RootIds(heap, root) EXCEPT ![x] = IdIn(heap, v)], o)
  <1>1. UNCHANGED <<heap, now, end, size, back, next, marked, fate>>
    BY DEF memory
  <1>2. v \in Values0
    BY PointsValue DEF Frame, ValueOf, Represents, Sound, Proper
  <1>3. PICK q : q = [root EXCEPT ![x] = v]
    OBVIOUS
  <1>4. /\ q \in [Root -> Values0] /\ q[x] = v /\ \A y \in Root : y # x => q[y] = root[y]
    BY <1>2, <1>3 DEF Frame
  <1>5. Pointers(q) \ {NULL} \subseteq L
    <2> SUFFICES ASSUME NEW y \in Root, q[y] # NULL PROVE q[y] \in L
      BY DEF Pointers
    <2> QED
      BY <1>4 DEF Pointers, ValueOf
  <1>6. Known(heap, q) /\ SeenBecomes(heap, q, RootIds(heap, q), o)
    BY <1>5, BecomesSeen
  <1>7. RootIds(heap, q) = [RootIds(heap, root) EXCEPT ![x] = IdIn(heap, v)]
    BY <1>4 DEF RootIds
  <1>8. Keeps
    BY <1>1, <1>3, <1>4, <1>6 DEF Keeps, IdentityInv, Frame
  <1>9. IdentityInv'
    BY <1>8, KeepsIdentity
  <1> QED
    BY <1>1, <1>3, <1>6, <1>7, <1>9

LEMMA ReadIdentity ==
  ASSUME IdentityInv, Frame, Mutating, fate = "run", NEW x \in Root, NEW y \in Root, NEW k,
         Read(x, y, k)
  PROVE  IdentityInv' /\ DidRead(x, y, k)
  <1> DEFINE ids == RootIds(heap, root)
             o == Objects(heap, root)
             v == Cell(heap, root[y]).args[k]
  <1>1. /\ pc = "run" /\ root[y] # NULL /\ k \in DOMAIN Cell(heap, root[y]).args
        /\ root' = [root EXCEPT ![x] = v] /\ UNCHANGED <<pc, call, memory>>
    BY DEF Read, At
  <1>2. PICK L : /\ Represents(heap, L, o) /\ Pointers(root) \ {NULL} \subseteq L
                 /\ Names(heap, L) \subseteq DOMAIN o
    BY KnownShows DEF Shows, IdentityInv
  <1> HIDE DEF o
  <1>3. RootObject(y, ids, o) /\ root[y] \in L
    BY <1>1, <1>2, RootSeen
  <1>4. ValueOf(L, v)
    <2>1. v # NULL => v \in Kids(heap, root[y])
      BY <1>1, <1>3 DEF Kids, RootObject
    <2> QED
      BY <1>2, <1>3, <2>1 DEF ValueOf, Represents, Sound
  <1> HIDE DEF v, ids
  <1>5. /\ IdentityInv' /\ SeenBecomes(heap', root', [RootIds(heap, root) EXCEPT ![x] = IdIn(heap, v)], o)
    BY <1>1, <1>2, <1>4, RootTakesIdentity
  <1>6. /\ ids[y] # 0 /\ k \in DOMAIN o[ids[y]].args /\ o[ids[y]].args[k] = IdIn(heap, v)
    BY <1>1, <1>3 DEF RootObject, Obj, v
  <1> QED
    BY <1>5, <1>6 DEF DidRead, ids, o

LEMMA DropIdentity ==
  ASSUME IdentityInv, Frame, fate = "run", NEW x \in Root, Drop(x)
  PROVE  IdentityInv' /\ Dropped(x)
  <1> DEFINE o == Objects(heap, root)
  <1>1. pc = "run" /\ root' = [root EXCEPT ![x] = NULL] /\ UNCHANGED <<pc, call, memory>>
    BY DEF Drop, At
  <1>2. PICK L : Represents(heap, L, o) /\ Pointers(root) \ {NULL} \subseteq L
    BY KnownShows DEF Shows, IdentityInv
  <1> HIDE DEF o
  <1>3. ValueOf(L, NULL) /\ IdIn(heap, NULL) = 0
    BY DEF ValueOf, IdIn
  <1>4. PICK v : v = NULL
    OBVIOUS
  <1>5. IdentityInv' /\ SeenBecomes(heap', root', [RootIds(heap, root) EXCEPT ![x] = IdIn(heap, v)], o)
    BY <1>1, <1>2, <1>3, <1>4, RootTakesIdentity
  <1> QED
    BY <1>3, <1>4, <1>5 DEF Dropped, o

LEMMA WriteIdentity ==
  ASSUME IdentityInv, Frame, Mutating, fate = "run", NEW x \in Root, NEW k, NEW y \in Root,
         Write(x, k, y)
  PROVE  IdentityInv' /\ Wrote(x, k, y)
  <1> DEFINE ids == RootIds(heap, root)
             o == Objects(heap, root)
  <1>1. /\ root[x] # NULL /\ k \in DOMAIN Cell(heap, root[x]).args
        /\ Cell(heap, root[x]).ty \in Written /\ pc = "run"
        /\ heap' = [heap EXCEPT ![now][root[x][2]].args[k] = root[y]]
        /\ UNCHANGED <<now, end, size, root, pc, call, back, next, marked, fate>>
    BY DEF Write, At
  <1>2. PICK L : /\ Represents(heap, L, o) /\ Pointers(root) \ {NULL} \subseteq L
                 /\ Names(heap, L) \subseteq DOMAIN o
    BY KnownShows DEF Shows, IdentityInv
  <1> HIDE DEF o
  <1>3. RootObject(x, ids, o) /\ root[x] \in L
    BY <1>1, <1>2, RootSeen
  <1>4. PICK i \in 1 .. Len(heap[now]) : root[x] = <<now, i>>
    BY <1>1, <1>3 DEF RootObject, Into
  <1>5. /\ now \in Heap /\ heap \in Heaps /\ root[y] \in Values0 /\ NoForward(heap)
        /\ WellMade(heap) /\ root \in [Root -> Values0]
    BY <1>1, NoForwards DEF Frame, IdentityInv, Phases
  <1>6. PICK g : g = [heap EXCEPT ![now][i].args[k] = root[y]]
    OBVIOUS
  <1>7. /\ heap' = g /\ k \in DOMAIN heap[now][i].args
        /\ Cell(heap, <<now, i>>) = heap[now][i] /\ Cell(heap, <<now, i>>).ty # "FWD"
    BY <1>1, <1>3, <1>4, <1>6 DEF Cell, RootObject
  <1>8. FieldShows(heap, i, k, root[y], g) /\ FieldSet(heap, i, k, root[y], g)
    BY <1>5, <1>6, <1>7, FieldCells, FieldWritten
  <1>9. WellMade(g)
    BY <1>5, <1>6, <1>7, FieldMade
  <1>10. ValueOf(L, root[y])
    BY <1>2 DEF ValueOf, Pointers
  <1> DEFINE q == [o EXCEPT ![ids[x]].args[k] = ids[y]]
  <1>11. ASSUME NEW u \in L
         PROVE  q[Cell(heap, u).id] = IF Target(heap, u) = <<now, i>> THEN ObjWith(heap, u, k, root[y])
                                      ELSE o[Cell(heap, u).id]
    <2>1. Cell(heap, u).id \in DOMAIN o /\ Proper(heap, u)
      BY <1>2 DEF Names, Represents, Sound
    <2>2. CASE Target(heap, u) = <<now, i>>
      <3>1. Deref(heap, u) = Cell(heap, root[x])
        BY <1>4, <2>2, DerefTarget
      <3>2. Cell(heap, u).id = ids[x]
        BY <1>3, <2>1, <3>1 DEF Proper, RootObject
      <3>3. q[ids[x]] = [o[ids[x]] EXCEPT !.args[k] = ids[y]]
        BY <2>1, <3>2
      <3>4. o[ids[x]] = [ty |-> Cell(heap, root[x]).ty,
                         args |-> [j \in DOMAIN Cell(heap, root[x]).args |->
                                     IdIn(heap, Cell(heap, root[x]).args[j])]]
        BY <1>3 DEF RootObject, Obj
      <3>5. q[ids[x]] = [ty |-> Cell(heap, root[x]).ty,
                         args |-> [j \in DOMAIN Cell(heap, root[x]).args |->
                                     IF j = k THEN ids[y] ELSE IdIn(heap, Cell(heap, root[x]).args[j])]]
        BY <1>1, <3>3, <3>4
      <3>6. ids[y] = IdIn(heap, root[y])
        BY DEF RootIds
      <3> HIDE DEF q
      <3> QED
        BY <2>2, <3>1, <3>2, <3>5, <3>6 DEF ObjWith
    <2>3. CASE Target(heap, u) # <<now, i>>
      <3>1. Cell(heap, u).id # ids[x]
        <4> SUFFICES ASSUME Cell(heap, u).id = ids[x] PROVE FALSE
          OBVIOUS
        <4>1. Alike(heap, u, root[x])
          BY <1>2, <1>3 DEF Represents, Sound, RootObject
        <4>2. Target(heap, root[x]) = <<now, i>> /\ Deref(heap, root[x]).args # <<>>
          BY <1>1, <1>3, <1>4 DEF RootObject
        <4> QED
          BY <2>3, <4>1, <4>2 DEF Alike, Leaf
      <3> QED
        BY <2>1, <2>3, <3>1
    <2> QED
      BY <2>2, <2>3
  <1> HIDE DEF q
  <1>12. Represents(g, L, q) /\ \A u : ValueOf(L, u) => IdIn(g, u) = IdIn(heap, u)
    BY <1>2, <1>5, <1>7, <1>8, <1>10, <1>11, FieldRepresents
  <1>13. RootIds(g, root) = ids
    <2>1. \A z \in Root : ValueOf(L, root[z])
      BY <1>2 DEF ValueOf, Pointers
    <2> QED
      BY <1>12, <2>1 DEF RootIds
  <1>14. Known(g, root) /\ SeenBecomes(g, root, ids, q)
    <2> HIDE DEF ids
    <2> QED
      BY <1>2, <1>12, <1>13, BecomesSeen
  <1>15. Keeps
    BY <1>1, <1>5, <1>7, <1>8, <1>9, <1>14 DEF Keeps, FieldSet
  <1>16. IdentityInv'
    BY <1>1, <1>15, KeepsIdentity
  <1>17. ids[x] # 0 /\ o[ids[x]].ty \in Written /\ k \in DOMAIN o[ids[x]].args
    BY <1>1, <1>3 DEF RootObject, Obj
  <1> QED
    BY <1>1, <1>7, <1>14, <1>16, <1>17 DEF Wrote, q, o

----------------------------------------------------------------------------
(* Every step                                                              *)

\* A step of the store, of what is seen.
SeenStep ==
  \/ SameSeen
  \/ \E c \in Calls : Formed(c) /\ Made(c)
  \/ \E x \in Root, y \in Root, k \in 1 .. 2 : Wrote(x, k, y) \/ DidRead(x, y, k)
  \/ \E x \in Root : Dropped(x)

LEMMA StutterIdentity ==
  ASSUME IdentityInv, UNCHANGED vars
  PROVE  IdentityInv' /\ SameSeen
  <1>1. UNCHANGED <<heap, now, end, size, root, pc, call, back, next, marked, fate>>
    BY DEF vars
  <1>2. Ranges' /\ WellMade(heap)' /\ Known(heap, root)' /\ Causes' /\ SameSeen
    BY <1>1 DEF IdentityInv, Ranges, Causes, SameSeen
  <1>3. ASSUME Running PROVE Running'
    <2>1. /\ (CopiesIn(heap, Shown(heap, root)) <=> CopiesIn(heap, Shown(heap, root))')
          /\ MarksOf(heap)' = MarksOf(heap)
      BY <1>1 DEF CopiesIn, MarksOf
    <2>2. Enough(heap, Objects(heap, root))' <=> Enough(heap, Objects(heap, root))
      BY <1>1 DEF Enough, Old
    <2>3. Formed(call)' <=> Formed(call)
      BY <1>1 DEF Formed
    <2> QED
      BY <1>1, <1>3, <2>1, <2>2, <2>3 DEF Running, Collecting, Waiting
  <1> QED
    BY <1>1, <1>2, <1>3 DEF IdentityInv

LEMMA NextIdentity ==
  ASSUME CollectorInv, IdentityInv, [Next]_vars
  PROVE  IdentityInv' /\ SeenStep
  <1>1. CASE UNCHANGED vars
    BY <1>1, StutterIdentity DEF SeenStep
  <1>2. CASE Next
    <2>1. fate = "run"
      BY <1>2, NextRuns
    <2>2. Frame /\ Phases
      BY <2>1 DEF CollectorInv
    <2>3. CASE Collection
      <3>1. /\ CopyRoot \/ RootsDone => CopyingRoots
            /\ ScanCell \/ idris_gcEnds => Scanning
        BY <2>2 DEF Phases, CopyRoot, RootsDone, ScanCell, idris_gcEnds, At
      <3>2. IdentityInv' /\ SameSeen
        BY <2>1, <2>2, <2>3, <3>1, CopyRootIdentity, RootsDoneIdentity, ScanCellIdentity,
           EndsIdentity DEF Collection
      <3> QED
        BY <3>2 DEF SeenStep
    <2>4. CASE Allocation
      <3>1. \/ IdentityInv' /\ SameSeen
            \/ \E c \in Calls : Formed(c) /\ IdentityInv' /\ Made(c)
        BY <2>1, <2>2, <2>4, AllocationIdentity
      <3> QED
        BY <3>1 DEF SeenStep
    <2>5. CASE Collect
      <3>1. pc = "run" /\ idris_gc(size, "run") /\ size \in Nat /\ size >= size /\ Mutating
        BY <2>2, <2>5 DEF Collect, At, Frame, Phases
      <3>2. IdentityInv' /\ SameSeen
        BY <2>1, <2>2, <3>1, StartsIdentity
      <3> QED
        BY <3>2 DEF SeenStep
    <2>6. ASSUME NEW x \in Root, NEW kind \in Kinds, NEW from \in [1 .. kind[2] -> Root],
                 Call(x, kind, from)
          PROVE  IdentityInv' /\ SeenStep
      <3>1. pc = "run" /\ Mutating
        BY <2>2, <2>6 DEF Call, At, Phases
      <3>2. \/ IdentityInv' /\ SameSeen
            \/ \E c \in Calls : Formed(c) /\ IdentityInv' /\ Made(c)
        BY <2>1, <2>2, <2>6, <3>1, CallIdentity
      <3> QED
        BY <3>2 DEF SeenStep
    <2>7. ASSUME NEW x \in Root, NEW y \in Root, NEW k \in 1 .. 2, Write(x, k, y) \/ Read(x, y, k)
          PROVE  IdentityInv' /\ SeenStep
      <3>1. pc = "run" /\ Mutating
        BY <2>2, <2>7 DEF Write, Read, At, Phases
      <3>2. IdentityInv' /\ (Wrote(x, k, y) \/ DidRead(x, y, k))
        BY <2>1, <2>2, <2>7, <3>1, WriteIdentity, ReadIdentity
      <3> QED
        BY <3>2 DEF SeenStep
    <2>8. ASSUME NEW x \in Root, Drop(x) PROVE IdentityInv' /\ SeenStep
      <3>1. IdentityInv' /\ Dropped(x)
        BY <2>1, <2>2, <2>8, DropIdentity
      <3> QED
        BY <3>1 DEF SeenStep
    <2> QED
      BY <1>2, <2>3, <2>4, <2>5, <2>6, <2>7, <2>8 DEF Next
  <1> QED
    BY <1>1, <1>2

LEMMA IdentityInvariance == Spec => [](CollectorInv /\ IdentityInv)
  <1>1. Init => CollectorInv /\ IdentityInv
    BY InitCollector, InitIdentity
  <1>2. CollectorInv /\ IdentityInv /\ [Next]_vars => (CollectorInv /\ IdentityInv)'
    BY NextCollector, NextIdentity
  <1> QED
    BY <1>1, <1>2, PTL DEF Spec

----------------------------------------------------------------------------
(* What the invariant of what is seen shows                                *)

LEMMA LiveIs == Live = Shown(heap, root)
  BY DEF Live, Roots, Shown, Pointers

LEMMA LiveNext == Live' = Shown(heap', root')
  BY DEF Live, Roots, Shown, Pointers

\* Whatever was allocated, written, dropped, collected, or has failed: every cell of
\* the heaps has an identity and the fields of its type, and every root points to a
\* cell that is there.
THEOREM CellsAndRoots == Spec => []TypeOK
  <1>1. IdentityInv => TypeOK
    <2> SUFFICES ASSUME IdentityInv PROVE TypeOK
      OBVIOUS
    <2>1. Ranges /\ WellMade(heap) /\ Known(heap, root)
      BY DEF IdentityInv
    <2>2. \A s \in 0 .. 2 : DOMAIN heap[s] = 1 .. Len(heap[s]) /\ Len(heap[s]) \in Nat
      BY <2>1 DEF Ranges, Heaps, Heap
    <2>3. ASSUME NEW s \in 0 .. 2, NEW i \in DOMAIN heap[s]
          PROVE  heap[s][i].id \in Id /\ HasItsFields(heap[s][i])
      <3>1. Points(heap, <<s, i>>) /\ Cell(heap, <<s, i>>) = heap[s][i]
        BY <2>2, <2>3 DEF Points, Heap, Cell
      <3> QED
        BY <2>1, <3>1 DEF WellMade
    <2>4. ASSUME NEW x \in Root PROVE root[x] \in Values
      <3>1. root[x] = NULL \/ Points(heap, root[x])
        BY <2>1 DEF Known, Pointers, Sound, Proper
      <3>2. CASE root[x] = NULL
        BY <3>2 DEF Values
      <3>3. CASE Points(heap, root[x])
        <4>1. PICK s, n : s \in 0 .. 2 /\ n \in 1 .. Len(heap[s]) /\ root[x] = <<s, n>>
          BY <3>3 DEF Points, Heap
        <4>2. n \in Nat /\ n \in DOMAIN heap[s]
          BY <2>2, <4>1
        <4> QED
          BY <4>1, <4>2 DEF Values
      <3> QED
        BY <3>1, <3>2, <3>3
    <2> QED
      BY <2>1, <2>3, <2>4 DEF TypeOK, Ranges, Heap
  <1> QED
    BY <1>1, IdentityInvariance, PTL

\* What fails has a cause that the program can see: the copy runs out of room only
\* where an object is reached that a copy can make larger, and writes past a cell only
\* where an array without elements is; a cell is filled with what moved only if it is
\* made from values held in C.
THEOREM FailuresAreCaused == Spec => []FailuresHaveTheirCause
  <1>1. IdentityInv => FailuresHaveTheirCause
    <2> SUFFICES ASSUME IdentityInv PROVE FailuresHaveTheirCause
      OBVIOUS
    <2> DEFINE o == Objects(heap, root)
               S == Shown(heap, root)
    <2>1. Causes /\ Known(heap, root) /\ heap \in Heaps
      BY DEF IdentityInv, Ranges
    <2>2. Represents(heap, S, o) /\ DOMAIN o = Names(heap, S)
      <3>1. PICK L : Sound(heap, L) /\ Pointers(root) \ {NULL} \subseteq L
        BY <2>1 DEF Known
      <3> QED
        BY <3>1, ObjectsRepresent
    <2> HIDE DEF o, S
    <2>3. ASSUME NEW j \in DOMAIN o PROVE \E v \in S : o[j] = Obj(heap, v) /\ Proper(heap, v)
      BY <2>2 DEF Names, Represents, Sound
    <2>4. Greedy(o) => \E v \in S : Deref(heap, v).ty \in Unshared \cup {"BIGINT"}
      BY <2>3 DEF Greedy, Obj
    <2>5. ASSUME Fieldless(o)
          PROVE  \E v \in S : Deref(heap, v).ty = "ARRAY" /\ Deref(heap, v).args = <<>>
      <3>1. PICK j \in DOMAIN o : o[j].ty = "ARRAY" /\ o[j].args = <<>>
        BY <2>5 DEF Fieldless
      <3>2. PICK v \in S : o[j] = Obj(heap, v) /\ Proper(heap, v)
        BY <2>3
      <3>3. /\ Deref(heap, v).ty = "ARRAY"
            /\ [k \in DOMAIN Deref(heap, v).args |-> IdIn(heap, Deref(heap, v).args[k])] = <<>>
        BY <3>1, <3>2 DEF Obj
      <3>4. Deref(heap, v).args \in Seq(Values0)
        <4>1. PICK s, n : /\ s \in Heap /\ n \in 1 .. Len(heap[s])
                          /\ Target(heap, v) = <<s, n>>
          BY <3>2 DEF Proper, Points
        <4>2. heap[s] \in Seq(Cells)
          BY <2>1, <4>1 DEF Heaps
        <4>3. heap[s][n].args \in Seq(Values0)
          BY <4>1, <4>2, CellAt
        <4>4. Deref(heap, v) = heap[s][n]
          BY <4>1, DerefTarget DEF Cell
        <4> QED
          BY <4>3, <4>4
      <3>5. Deref(heap, v).args = <<>>
        <4>1. PICK a : a = Deref(heap, v).args
          OBVIOUS
        <4>2. DOMAIN a = 1 .. Len(a) /\ Len(a) \in Nat /\ a \in Seq(Values0)
          BY <3>4, <4>1
        <4>3. \A k : k \notin DOMAIN a
          BY <3>3, <4>1
        <4>4. Len(a) = 0
          <5>1. 1 \notin 1 .. Len(a)
            BY <4>2, <4>3
          <5> QED
            BY <4>2, <5>1
        <4> QED
          BY <4>1, <4>2, <4>4, EmptySeq
      <3> QED
        BY <3>3, <3>5
    <2>6. Live = S
      BY LiveIs DEF S
    <2> QED
      BY <2>1, <2>4, <2>5, <2>6 DEF FailuresHaveTheirCause, Causes, o
  <1> QED
    BY <1>1, IdentityInvariance, PTL

\* Only one step ends a collection.
LEMMA EndsIs ==
  ASSUME CollectorInv, [Next]_vars, CollectionEnds
  PROVE  fate = "run" /\ Frame /\ Scanning /\ idris_gcEnds
  <1>1. pc = "cheney" /\ pc' # "cheney"
    BY DEF CollectionEnds
  <1>2. Next
    BY <1>1 DEF vars
  <1>3. fate = "run"
    BY <1>2, NextRuns
  <1>4. Frame /\ Scanning
    BY <1>1, <1>3 DEF CollectorInv, Phases
  <1>5. \A x, kind, from : ~Call(x, kind, from)
    BY <1>1 DEF Call, At
  <1>6. \A x, y, k : ~(Write(x, k, y) \/ Read(x, y, k))
    BY <1>1 DEF Write, Read, At
  <1>7. (\A x : ~Drop(x)) /\ ~Collect
    BY <1>1 DEF Drop, Collect, At
  <1>8. ~Allocation
    BY <1>1 DEF Allocation, StillNoRoom, RoomNow, Retry, At
  <1>9. ~CopyRoot /\ ~RootsDone /\ ~ScanCell
    BY <1>1 DEF CopyRoot, RootsDone, ScanCell, At
  <1>10. idris_gcEnds
    BY <1>2, <1>5, <1>6, <1>7, <1>8, <1>9 DEF Next, Collection
  <1> QED
    BY <1>3, <1>4, <1>10

\* A collection leaves what is reached and nothing else, and one cell of each object,
\* except of raw bits, that copy leaves no forward for.
THEOREM CollectsExactly == Spec => ReachedCopiedOnce
  <1>1. ASSUME CollectorInv, IdentityInv, [Next]_vars, CollectionEnds
        PROVE  /\ \A i \in DOMAIN heap'[now'] : <<now', i>> \in Live'
               /\ \A i, j \in DOMAIN heap'[now'] :
                     heap'[now'][i].id = heap'[now'][j].id =>
                        i = j \/ heap'[now'][i].ty \in Unshared
    <2>1. IdentityInv' /\ Collected /\ now \in Heap /\ heap \in Heaps
      BY <1>1, EndsIs, EndsIdentity DEF Frame
    <2>2. PICK g, q : g = heap' /\ q = root'
      OBVIOUS
    <2>3. /\ Shown(g, q) = {<<now, m>> : m \in 1 .. Len(heap[now])} /\ now' = now
          /\ g[now] = heap[now] /\ \A v \in Shown(g, q) : Target(g, v) = v
          /\ DOMAIN heap[now] = 1 .. Len(heap[now])
      BY <2>1, <2>2 DEF Collected, Heaps
    <2>4. Sound(g, Shown(g, q))
      <3>1. Known(g, q)
        BY <2>1, <2>2 DEF IdentityInv
      <3>2. PICK L : Sound(g, L) /\ Pointers(q) \ {NULL} \subseteq L
        BY <3>1 DEF Known
      <3> QED
        BY <3>2, ReachedSound DEF Shown
    <2>5. Live' = Shown(g, q)
      BY <2>2, LiveNext
    <2>6. ASSUME NEW i \in DOMAIN g[now], NEW j \in DOMAIN g[now], g[now][i].id = g[now][j].id
          PROVE  i = j \/ g[now][i].ty \in Unshared
      <3> DEFINE u == <<now, i>>
                 v == <<now, j>>
      <3>1. /\ u \in Shown(g, q) /\ v \in Shown(g, q) /\ Target(g, u) = u /\ Target(g, v) = v
            /\ Cell(g, u) = g[now][i] /\ Cell(g, v) = g[now][j]
        BY <2>3 DEF Cell
      <3>2. Alike(g, u, v)
        BY <2>4, <2>6, <3>1 DEF Sound
      <3>3. Deref(g, u) = g[now][i]
        BY <3>1, DerefTarget
      <3> QED
        BY <3>1, <3>2, <3>3 DEF Alike, Leaf
    <2> QED
      BY <2>2, <2>3, <2>5, <2>6
  <1> QED
    BY <1>1, IdentityInvariance, PTL DEF Spec, ReachedCopiedOnce

\* When c_heap_sweep runs, the items that are marked are those of the cells that are
\* reached: it finalizes no item that is in use, and keeps none that is not.
THEOREM SweepsExactly == Spec => MarkedAreReached
  <1>1. ASSUME CollectorInv, IdentityInv, [Next]_vars, CollectionEnds
        PROVE  marked = {heap'[v[1]][v[2]].id : v \in {w \in Live' : heap'[w[1]][w[2]].ty = "CDATA"}}
    <2>1. /\ Collected /\ now \in Heap /\ heap \in Heaps /\ fate = "run" /\ idris_gcEnds
      BY <1>1, EndsIs, EndsIdentity DEF Frame
    <2>2. marked = MarksOf(heap)
      <3>1. pc = "cheney"
        BY <2>1 DEF idris_gcEnds, At
      <3> QED
        BY <1>1, <2>1, <3>1 DEF IdentityInv, Running, Collecting
    <2>3. PICK g, q : g = heap' /\ q = root'
      OBVIOUS
    <2>4. /\ Shown(g, q) = {<<now, m>> : m \in 1 .. Len(heap[now])} /\ g[now] = heap[now]
      BY <2>1, <2>3 DEF Collected
    <2>5. Live' = Shown(g, q)
      BY <2>3, LiveNext
    <2>6. {g[v[1]][v[2]].id : v \in {w \in Shown(g, q) : g[w[1]][w[2]].ty = "CDATA"}}
            = {heap[now][m].id : m \in {j \in 1 .. Len(heap[now]) : heap[now][j].ty = "CDATA"}}
      <3> DEFINE W == {w \in Shown(g, q) : g[w[1]][w[2]].ty = "CDATA"}
                 J == {j \in 1 .. Len(heap[now]) : heap[now][j].ty = "CDATA"}
      <3>1. ASSUME NEW m \in J PROVE <<now, m>> \in W /\ g[<<now, m>>[1]][<<now, m>>[2]].id = heap[now][m].id
        BY <2>4
      <3>2. ASSUME NEW w \in W PROVE \E m \in J : w = <<now, m>> /\ g[w[1]][w[2]].id = heap[now][m].id
        BY <2>4
      <3>3. {g[v[1]][v[2]].id : v \in W} = {heap[now][m].id : m \in J}
        <4> HIDE DEF W, J
        <4>1. ASSUME NEW w \in W PROVE g[w[1]][w[2]].id \in {heap[now][m].id : m \in J}
          BY <3>2
        <4>2. ASSUME NEW m \in J PROVE heap[now][m].id \in {g[v[1]][v[2]].id : v \in W}
          <5>1. PICK w : w = <<now, m>>
            OBVIOUS
          <5>2. w \in W /\ g[w[1]][w[2]].id = heap[now][m].id
            BY <3>1, <5>1
          <5> QED
            BY <5>2
        <4> QED
          BY <4>1, <4>2
      <3> QED
        BY <3>3
    <2> QED
      BY <2>2, <2>3, <2>5, <2>6 DEF MarksOf
  <1> QED
    BY <1>1, IdentityInvariance, PTL DEF Spec, MarkedAreReached

----------------------------------------------------------------------------
(* The collector implements the store                                      *)

LEMMA InitStore == Init => store!Init
  <1> SUFFICES ASSUME Init PROVE store!Init
    OBVIOUS
  <1>1. Known(heap, root)
    BY InitIdentity DEF IdentityInv
  <1>2. \A x \in Root : root[x] = NULL
    BY DEF Init
  <1>3. Sound(heap, {}) /\ Pointers(root) \ {NULL} \subseteq {}
    BY <1>2 DEF Sound, Pointers
  <1>4. Shown(heap, root) \subseteq {}
    BY <1>3, ReachedSound DEF Shown
  <1>5. Names(heap, Shown(heap, root)) = {}
    BY <1>4 DEF Names
  <1>6. Objects(heap, root) = [i \in {} |-> <<>>]
    BY <1>5 DEF Objects
  <1>7. RootIds(heap, root) = [x \in Root |-> 0]
    BY <1>2 DEF RootIds, IdIn
  <1> QED
    BY <1>1, <1>6, <1>7, SeenIs DEF store!Init

\* A step that makes what is seen become what the store says.
LEMMA StoreBecomes ==
  ASSUME SeenRoot' = RootIds(heap', root'), SeenObject' = Objects(heap', root'),
         NEW ids, NEW o, SeenBecomes(heap', root', ids, o)
  PROVE  store!Becomes(ids, o)
  BY DEF SeenBecomes, store!Becomes

LEMMA StepOfStore ==
  ASSUME Known(heap, root), Known(heap, root)', SeenStep
  PROVE  [store!Next]_(store!vars)
  <1>1. SeenRoot = RootIds(heap, root) /\ SeenObject = Objects(heap, root)
    BY SeenIs
  <1>2. SeenRoot' = RootIds(heap', root') /\ SeenObject' = Objects(heap', root')
    BY SeenNext
  <1>3. \A ids, o : SeenBecomes(heap', root', ids, o) => store!Becomes(ids, o)
    BY <1>2, StoreBecomes
  <1>4. CASE SameSeen
    BY <1>1, <1>2, <1>4 DEF SameSeen, store!vars
  <1>5. CASE \E c \in Calls : Formed(c) /\ Made(c)
    <2>1. PICK c \in Calls : Formed(c) /\ Made(c)
      BY <1>5
    <2>2. c.root \in Root
      BY <2>1 DEF Formed
    <2>3. PICK i \in Id \ DOMAIN SeenObject, kind \in Kinds :
             /\ c.from \in [1 .. kind[2] -> Root]
             /\ SeenBecomes(heap', root', [SeenRoot EXCEPT ![c.root] = i],
                   With(SeenObject, i,
                        [ty |-> kind[1],
                         args |-> [k \in 1 .. Fields(kind) |-> SeenRoot[c.from[k]]]]))
      BY <1>1, <2>1 DEF Made
    <2>4. store!Becomes([SeenRoot EXCEPT ![c.root] = i],
             With(SeenObject, i, [ty |-> kind[1],
                                  args |-> [k \in 1 .. Fields(kind) |-> SeenRoot[c.from[k]]]]))
      BY <1>3, <2>3
    <2>5. store!New(c.root, kind, c.from)
      BY <2>3, <2>4 DEF store!New, With, Fields
    <2> QED
      BY <2>2, <2>3, <2>5 DEF store!Next
  <1>6. ASSUME NEW x \in Root, NEW y \in Root, NEW k \in 1 .. 2, Wrote(x, k, y)
        PROVE  store!Next
    <2>1. /\ SeenRoot[x] # 0 /\ SeenObject[SeenRoot[x]].ty \in Written
          /\ k \in DOMAIN SeenObject[SeenRoot[x]].args
          /\ store!Becomes(SeenRoot, [SeenObject EXCEPT ![SeenRoot[x]].args[k] = SeenRoot[y]])
      BY <1>1, <1>3, <1>6 DEF Wrote
    <2>2. store!Write(x, k, y)
      BY <2>1 DEF store!Write
    <2> QED
      BY <2>2 DEF store!Next
  <1>7. ASSUME NEW x \in Root, NEW y \in Root, NEW k \in 1 .. 2, DidRead(x, y, k)
        PROVE  store!Next
    <2>1. /\ SeenRoot[y] # 0 /\ k \in DOMAIN SeenObject[SeenRoot[y]].args
          /\ store!Becomes([SeenRoot EXCEPT ![x] = SeenObject[SeenRoot[y]].args[k]], SeenObject)
      BY <1>1, <1>3, <1>7 DEF DidRead
    <2>2. store!Read(x, y, k)
      BY <2>1 DEF store!Read
    <2> QED
      BY <2>2 DEF store!Next
  <1>8. ASSUME NEW x \in Root, Dropped(x) PROVE store!Next
    <2>1. store!Drop(x)
      BY <1>1, <1>3, <1>8 DEF Dropped, store!Drop
    <2> QED
      BY <2>1 DEF store!Next
  <1> QED
    BY <1>4, <1>5, <1>6, <1>7, <1>8 DEF SeenStep

\* Whatever is allocated, moved, copied or collected, the program sees objects that
\* keep their identity, type and fields, and a root that it did not change keeps its
\* object: the heap with its two spaces and its forwards is a store.
THEOREM StoreImplemented == Spec => ImplementsStore
  <1>1. ASSUME CollectorInv, IdentityInv, (CollectorInv /\ IdentityInv)', [Next]_vars
        PROVE  [store!Next]_(store!vars)
    <2>1. SeenStep
      BY <1>1, NextIdentity
    <2>2. Known(heap, root) /\ Known(heap, root)'
      BY <1>1 DEF IdentityInv
    <2> QED
      BY <2>1, <2>2, StepOfStore
  <1> QED
    BY <1>1, InitStore, IdentityInvariance, PTL DEF Spec, ImplementsStore, store!Spec

----------------------------------------------------------------------------
(* The second collection is the last                                       *)

\* No floats, that a copy can make two of, and no big integers, for which an
\* allocation asks for more than it takes.
PlainKinds == \A kind \in Kinds : kind[1] \notin Unshared \cup {"BIGINT"}

\* When all that is left is copied there is still room for n words.
Spare(h, n) == \E f : LeftTo(h[Old], Len(h[Old]), f) /\ (Used(h[now]) + f[Len(h[Old])]) + n < end

\* The second collection leaves room for what is asked for.
RetryFits ==
  fate = "run" => /\ pc = "allocate" => Used(heap[now]) + Needed(call) < end
                  /\ Collecting /\ back = "allocate" => Spare(heap, Needed(call))

LEMMA SameRoom ==
  ASSUME NEW a \in Nat, NEW s \in Nat, NEW e \in Nat, NEW f, NEW n \in Nat, NEW t \in Nat,
         f = e + s, (a + f) + n < t
  PROVE  ((a + s) + e) + n < t
  OBVIOUS

LEMMA PlainCell ==
  ASSUME PlainKinds, NEW c \in Cells, c.ty # "FWD"
  PROVE  c.ty \notin Unshared
  BY DEF PlainKinds, Cells, Types

\* A copy takes what the cell had.
LEMMA CopySpares ==
  ASSUME PlainKinds, now \in Heap, end \in Nat, NEW h, Moving(h), NEW v, Into(h, Old, v),
         NEW n \in Nat, Spare(h, n), Copied(h, v).fate = "run"
  PROVE  Spare(Copied(h, v).heap, n)
  <1> DEFINE r == Copied(h, v)
             c == Cell(h, v)
             to == <<now, Len(h[now]) + 1>>
             there == [h EXCEPT ![now] = Append(@, c)]
             fwd == [ty |-> "FWD", id |-> c.id, args |-> <<to>>]
             moved == [there EXCEPT ![v[1]][v[2]] = fwd]
  <1>0. /\ h \in Heaps /\ h[now] \in Seq(Cells) /\ h[Old] \in Seq(Cells) /\ Old # now /\ Old \in Heap
        /\ Len(h[Old]) \in Nat /\ Len(h[now]) \in Nat
    BY ThreeHeaps DEF Moving, Heaps
  <1>1. CASE v = NULL \/ c.ty = "FWD"
    <2>1. r.heap = h
      BY <1>1 DEF Copied
    <2> QED
      BY <2>1
  <1>2. CASE v # NULL /\ c.ty # "FWD"
    <2>1. PICK m \in 1 .. Len(h[Old]) : v = <<Old, m>>
      BY <1>2 DEF Into
    <2>2. c = h[Old][m] /\ c \in Cells
      BY <1>0, <2>1 DEF Cell
    <2>3. c.ty \notin Unshared
      BY <1>2, <2>2, PlainCell
    <2>4. r.heap = moved
      BY <1>2, <2>3 DEF Copied, Forwarded
    <2>5. fwd \in Cells /\ fwd.ty = "FWD"
      <3>1. to \in Values0
        BY <1>0 DEF Values0
      <3> HIDE DEF to
      <3>2. c.id \in Ids /\ <<to>> \in Seq(Values0) /\ "FWD" \in Types
        BY <2>2, <3>1 DEF Cells, Types
      <3> HIDE DEF c
      <3> QED
        BY <3>2 DEF Cells
    <2>6. /\ moved[now] = Append(h[now], c) /\ moved[Old] = [h[Old] EXCEPT ![m] = fwd]
          /\ Len(moved[Old]) = Len(h[Old])
      <3>1. there \in Heaps /\ there[now] = Append(h[now], c) /\ there[Old] = h[Old]
        BY <1>0, <2>2 DEF Heaps
      <3> HIDE DEF fwd, there
      <3>2. moved = [there EXCEPT ![Old] = [there[Old] EXCEPT ![m] = fwd]]
        BY <1>0, <2>1, <3>1 DEF Heaps
      <3>3. moved[Old] = [there[Old] EXCEPT ![m] = fwd] /\ moved[now] = there[now]
        BY <1>0, <3>1, <3>2 DEF Heaps
      <3>4. Len([h[Old] EXCEPT ![m] = fwd]) = Len(h[Old])
        BY <1>0
      <3> QED
        BY <3>1, <3>3, <3>4
    <2> HIDE DEF moved, there, fwd, r, c
    <2>7. PICK f : LeftTo(h[Old], Len(h[Old]), f) /\ (Used(h[now]) + f[Len(h[Old])]) + n < end
      BY DEF Spare
    <2>8. PICK e : /\ LeftTo([h[Old] EXCEPT ![m] = fwd], Len(h[Old]), e)
                   /\ f[Len(h[Old])] = e[Len(h[Old])] + Size(c) /\ e[Len(h[Old])] \in Nat
      BY <1>0, <1>2, <2>2, <2>5, <2>7, LeftLess
    <2>9. /\ Used(moved[now]) = Used(h[now]) + Size(c)
          /\ Used(h[now]) \in Nat /\ Size(c) \in Nat
      BY <1>0, <2>2, <2>6, UsedAppend, UsedNat, CellSize
    <2>10. (Used(moved[now]) + e[Len(moved[Old])]) + n < end
      BY <2>6, <2>7, <2>8, <2>9, SameRoom
    <2>11. LeftTo(moved[Old], Len(moved[Old]), e)
      BY <2>6, <2>8
    <2> QED
      BY <2>4, <2>10, <2>11 DEF Spare, r
  <1> QED
    BY <1>1, <1>2

\* Writing the field that was copied takes nothing.
LEMMA FieldSpares ==
  ASSUME PlainKinds, now \in Heap, end \in Nat, heap \in Heaps, NEW i \in 1 .. Len(heap[now]),
         Unscanned(heap, heap[now][i]), NEW k \in DOMAIN heap[now][i].args, k \in Nat \ {0},
         NEW h, PartScanned(h, i, k - 1), NEW n \in Nat, Spare(h, n),
         Copied(h, heap[now][i].args[k]).fate = "run"
  PROVE  Spare(FieldCopy(h, i, k), n)
  <1> DEFINE v == heap[now][i].args[k]
             r == Copied(h, v)
             g == r.heap
             w == [g EXCEPT ![now][i].args[k] = r.val]
  <1>1. Moving(h) /\ h \in Heaps /\ Len(heap[now]) \in Nat
    BY DEF PartScanned, Moving, Heaps
  <1>2. Into(h, Old, v)
    BY DEF Unscanned, Into, PartScanned
  <1>3. Moving(g) /\ Longer(h, g) /\ Into(g, now, r.val) /\ g \in Heaps
    BY <1>1, <1>2, CopiedMoves DEF Moving
  <1>4. r.val \in Values0
    BY <1>3, IntoValue
  <1>5. Spare(g, n)
    BY <1>1, <1>2, CopySpares
  <1>6. w = FieldCopy(h, i, k)
    <2> HIDE DEF r
    <2> QED
      BY DEF w, g, FieldPut, FieldCopy, r
  <1> DEFINE u == r.val
  <1> HIDE DEF g, u, r
  <1>7. /\ Len(g[now]) >= Len(h[now]) /\ Len(h[now]) \in Nat /\ Len(g[now]) \in Nat
        /\ \A m \in 1 .. Len(h[now]) : g[now][m] = h[now][m]
    BY <1>1, <1>3, LongerKeeps
  <1>8. i \in 1 .. Len(h[now]) /\ i \in 1 .. Len(g[now]) /\ g[now][i] = h[now][i]
    BY <1>1, <1>7 DEF PartScanned
  <1>9. k \in DOMAIN g[now][i].args
    BY <1>8 DEF PartScanned
  <1>10. FieldSet(g, i, k, u, w)
    BY <1>3, <1>4, <1>8, <1>9, FieldWritten DEF u
  <1> HIDE DEF w
  <1>11. w[Old] = g[Old] /\ Used(w[now]) = Used(g[now])
    BY <1>10, ThreeHeaps DEF FieldSet
  <1>12. Spare(w, n)
    BY <1>5, <1>11 DEF Spare
  <1> QED
    BY <1>6, <1>12

LEMMA ScanNextSpares ==
  ASSUME PlainKinds, now \in Heap, end \in Nat, heap \in Heaps, NEW i \in 1 .. Len(heap[now]),
         Unscanned(heap, heap[now][i]), NEW k \in DOMAIN heap[now][i].args, k \in Nat \ {0},
         NEW a, a.fate = "run", PartScanned(a.heap, i, k - 1), ScanNext(i, k, a).fate = "run",
         NEW n \in Nat, Spare(a.heap, n)
  PROVE  Spare(ScanNext(i, k, a).heap, n)
  <1> DEFINE h == a.heap
             r == Copied(h, heap[now][i].args[k])
  <1>1. ScanNext(i, k, a) = [heap |-> FieldCopy(h, i, k), marks |-> a.marks \cup r.marks, fate |-> r.fate]
    BY DEF ScanNext, FieldCopy, FieldPut
  <1>2. ScanNext(i, k, a).heap = FieldCopy(h, i, k) /\ r.fate = "run"
    <2> HIDE DEF r
    <2> QED
      BY <1>1
  <1> HIDE DEF h
  <1>3. PartScanned(h, i, k - 1) /\ Spare(h, n)
    BY DEF h
  <1>4. Spare(FieldCopy(h, i, k), n)
    BY <1>2, <1>3, FieldSpares
  <1> QED
    BY <1>2, <1>4

LEMMA ScanSpares ==
  ASSUME PlainKinds, now \in Heap, end \in Nat, heap \in Heaps, NEW i \in 1 .. Len(heap[now]),
         Unscanned(heap, heap[now][i]), PartScanned(heap, i, 0),
         Scanned(i).fate = "run", NEW room \in Nat, Spare(heap, room)
  PROVE  Spare(Scanned(i).heap, room)
  <1> DEFINE c == heap[now][i]
             n == Len(c.args)
  <1>1. c.args \in Seq(Values0) /\ n \in Nat /\ DOMAIN c.args = 1 .. n
    <2>1. heap[now] \in Seq(Cells)
      BY DEF Heaps
    <2>2. c \in Cells
      BY <2>1
    <2>3. c.args \in Seq(Values0)
      BY <2>2 DEF Cells
    <2> QED
      BY <2>3
  <1>2. PICK f : ScanTo(i, n, f) /\ Scanned(i) = f[n]
    <2>1. Scans(c) = n
      BY DEF Scans
    <2> HIDE DEF n
    <2> QED
      BY <1>1, <2>1, ScannedIsLast
  <1> HIDE DEF n
  <1>3. /\ f[0] = [heap |-> heap, marks |-> {}, fate |-> "run"]
        /\ \A k \in 1 .. n : f[k] = ScanNext(i, k, f[k - 1])
    <2>1. n \in Nat /\ ScanTo(i, n, f)
      BY <1>1, <1>2
    <2> QED
      BY <2>1, ScanSteps, Zenon
  <1> DEFINE Done(k) == f[k].fate = "run" => PartScanned(f[k].heap, i, k) /\ Spare(f[k].heap, room)
             Bad == {k \in 0 .. n : ~Done(k)}
  <1>4. Bad = {}
    <2> SUFFICES ASSUME Bad # {} PROVE FALSE
      OBVIOUS
    <2>1. PICK k \in Bad : \A j \in Bad : k <= j
      <3>1. Bad \subseteq Nat
        BY <1>1
      <3> HIDE DEF Bad
      <3> QED
        BY <3>1, LeastNumber
    <2>2. k \in 0 .. n /\ f[k].fate = "run" /\ ~(PartScanned(f[k].heap, i, k) /\ Spare(f[k].heap, room))
      BY <2>1
    <2>3. k # 0
      BY <1>3, <2>2
    <2>4. k - 1 \in 0 .. n /\ k \in Nat \ {0} /\ k \in DOMAIN c.args /\ k \in 1 .. n
      BY <1>1, <2>2, <2>3
    <2>5. f[k] = ScanNext(i, k, f[k - 1])
      BY <1>3, <2>4
    <2>6. PICK a : a = f[k - 1]
      OBVIOUS
    <2>7. a.fate = "run"
      BY <2>2, <2>5, <2>6, ScanStops
    <2>8. PartScanned(a.heap, i, k - 1) /\ Spare(a.heap, room)
      <3>1. ~(k <= k - 1)
        BY <2>4
      <3>2. k - 1 \notin Bad
        <4> HIDE DEF Bad
        <4> QED
          BY <2>1, <3>1
      <3> QED
        BY <2>4, <2>6, <2>7, <3>2
    <2> HIDE DEF Bad
    <2>9. ScanNext(i, k, a).fate = "run"
      BY <2>2, <2>5, <2>6
    <2>10. PartScanned(ScanNext(i, k, a).heap, i, k)
      BY <2>4, <2>7, <2>8, <2>9, ScanNextScans
    <2>11. Spare(ScanNext(i, k, a).heap, room)
      BY <2>4, <2>7, <2>8, <2>9, ScanNextSpares
    <2> QED
      BY <2>2, <2>5, <2>6, <2>10, <2>11
  <1>5. n \in 0 .. n
    BY <1>1
  <1>6. Done(n)
    BY <1>4, <1>5
  <1> HIDE DEF Bad
  <1> QED
    BY <1>2, <1>6 DEF n

LEMMA StartSpares ==
  ASSUME IdentityInv, Frame, Mutating, Phases, fate = "run", pc \in {"run", "allocate", "again"},
         NEW n \in Nat, idris_gc(size + n + HeapSize, "allocate")
  PROVE  Spare(heap, n)'
  <1>1. /\ now' = (now + 1) % 3 /\ end' = size + n + HeapSize /\ heap' = heap
    BY DEF idris_gc
  <1>2. now' = Third /\ Old' = now
    <2>1. now = 0 \/ now = 1 \/ now = 2
      BY DEF Frame, Heap
    <2> QED
      BY <1>1, <2>1 DEF Old, Third
  <1>3. /\ heap[now] \in Seq(Cells) /\ Used(heap[now]) \in Nat /\ Used(heap[now]) < end
        /\ end <= size /\ end \in Nat /\ size \in Nat /\ HeapSize \in Nat
    <2>1. heap[now] \in Seq(Cells) /\ HeapSize \in Nat
      BY CollectorAssumption DEF Frame, Heaps
    <2> QED
      BY <2>1, UsedNat DEF IdentityInv, Running, Frame
  <1>4. heap'[now'] = <<>> /\ heap'[Old'] = heap[now]
    BY <1>1, <1>2 DEF Mutating
  <1>5. Used(heap'[now']) = 0
    <2>1. <<>> \in Seq(Cells)
      OBVIOUS
    <2> QED
      BY <1>4, <2>1, UsedNat
  <1>6. PICK f : LeftTo(heap[now], Len(heap[now]), f) /\ f[Len(heap[now])] = Used(heap[now])
    <2>1. NoForward(heap)
      BY NoForwards
    <2> QED
      BY <1>3, <2>1, LeftAll DEF NoForward
  <1>7. (0 + Used(heap[now])) + n < end'
    BY <1>1, <1>3
  <1> QED
    BY <1>4, <1>5, <1>6, <1>7 DEF Spare

LEMMA AskedNat ==
  ASSUME Frame, Waiting
  PROVE  Needed(call) \in Nat
  <1>1. Len(call.held) \in Nat
    BY DEF Frame, Calls
  <1> QED
    BY <1>1 DEF Needed, WordsOf

LEMMA NothingScanned ==
  ASSUME Scanning, heap \in Heaps, now \in Heap, next \in 1 .. Len(heap[now])
  PROVE  PartScanned(heap, next, 0)
  <1>1. heap[now] \in Seq(Cells)
    BY DEF Heaps
  <1>2. heap[now][next] \in Cells
    BY <1>1
  <1>3. heap[now][next].args \in Seq(Values0) /\ Len(heap[now]) \in Nat
    BY <1>1, <1>2 DEF Cells
  <1>4. \A j \in DOMAIN heap[now][next].args : ~(j <= 0)
    BY <1>3
  <1>5. Unscanned(heap, heap[now][next])
    BY <1>3 DEF Scanning
  <1> QED
    BY <1>3, <1>4, <1>5 DEF PartScanned, Scanning, Unscanned

LEMMA LessRoom ==
  ASSUME NEW a \in Nat, NEW b, b \in Nat, NEW n \in Nat, NEW t \in Nat, (a + b) + n < t
  PROVE  a + n < t
  OBVIOUS

\* While a collection copies.
LEMMA CollectionFits ==
  ASSUME PlainKinds, CollectorInv, RetryFits, fate = "run", Collection
  PROVE  RetryFits'
  <1>1. Frame /\ Phases /\ Collecting
    BY DEF CollectorInv, Collection, CopyRoot, RootsDone, ScanCell, idris_gcEnds, At, Collecting
  <1> SUFFICES ASSUME fate' = "run", back = "allocate" \/ back' = "allocate"
               PROVE  /\ pc' = "allocate" => Used(heap'[now']) + Needed(call') < end'
                      /\ Collecting' /\ back' = "allocate" => Spare(heap, Needed(call))'
    <2>1. CASE back # "allocate" /\ back' # "allocate"
      <3>1. pc' # "allocate"
        BY <1>1, <2>1 DEF Collection, CopyRoot, RootsDone, ScanCell, idris_gcEnds, At, Collecting
      <3> QED
        BY <2>1, <3>1 DEF RetryFits
    <2> QED
      BY <2>1 DEF RetryFits
  <1>2. UNCHANGED <<now, end, call>>
    BY DEF Collection, CopyRoot, RootsDone, ScanCell, idris_gcEnds
  <1>3. back = "allocate"
    BY DEF Collection, CopyRoot, RootsDone, ScanCell, idris_gcEnds
  <1>4. PICK n \in Nat : n = Needed(call) /\ n = Needed(call')
    BY <1>1, <1>2, <1>3, AskedNat DEF Waiting, Collecting
  <1>5. Spare(heap, n) /\ now \in Heap /\ end \in Nat /\ heap \in Heaps
    BY <1>1, <1>3, <1>4 DEF RetryFits, Frame
  <1>6. CASE CopyRoot
    <2>1. /\ next \in Root /\ heap' = Copied(heap, root[next]).heap
          /\ Copied(heap, root[next]).fate = "run" /\ pc' = "roots"
      BY <1>6 DEF CopyRoot, At
    <2>2. Moving(heap) /\ Into(heap, Old, root[next])
      <3>1. next \in Nat /\ CopyingRoots
        BY <1>1, <1>6 DEF Phases, CopyRoot, At, Frame
      <3>2. ~(next < next)
        BY <3>1
      <3> QED
        BY <2>1, <3>1, <3>2 DEF CopyingRoots
    <2>3. Spare(heap', n)
      BY <1>5, <2>1, <2>2, CopySpares
    <2>4. Spare(heap, n)'
      BY <1>2, <2>3 DEF Spare, Old
    <2> QED
      BY <1>4, <2>1, <2>4
  <1>7. CASE ScanCell
    <2>1. /\ next <= Len(heap[now]) /\ heap' = Scanned(next).heap /\ Scanned(next).fate = "run"
          /\ pc' = "cheney" /\ Scanning
      BY <1>1, <1>7 DEF ScanCell, At, Phases
    <2>2. next \in 1 .. Len(heap[now]) /\ Unscanned(heap, heap[now][next])
      <3>1. next \in Nat /\ next >= 1 /\ Len(heap[now]) \in Nat
        BY <1>1, <1>5, <2>1 DEF Frame, Scanning, Heaps
      <3>2. next \in 1 .. Len(heap[now]) /\ ~(next < next)
        BY <2>1, <3>1
      <3> QED
        BY <2>1, <3>2 DEF Scanning
    <2>3. PartScanned(heap, next, 0)
      BY <1>5, <2>1, <2>2, NothingScanned
    <2>4. Spare(heap', n)
      BY <1>5, <2>1, <2>2, <2>3, ScanSpares
    <2>5. Spare(heap, n)'
      BY <1>2, <2>4 DEF Spare, Old
    <2> QED
      BY <1>4, <2>1, <2>5
  <1>8. CASE RootsDone
    <2>1. heap' = heap /\ pc' = "cheney"
      BY <1>8 DEF RootsDone
    <2>2. Spare(heap, n)'
      BY <1>2, <1>5, <2>1 DEF Spare, Old
    <2> QED
      BY <1>4, <2>1, <2>2
  <1>9. CASE idris_gcEnds
    <2>1. heap' = [heap EXCEPT ![Old] = <<>>] /\ pc' = "allocate"
      BY <1>3, <1>9 DEF idris_gcEnds
    <2>2. heap'[now] = heap[now]
      BY <1>5, <2>1, ThreeHeaps DEF Heaps
    <2>3. PICK f : LeftTo(heap[Old], Len(heap[Old]), f) /\ (Used(heap[now]) + f[Len(heap[Old])]) + n < end
      BY <1>5 DEF Spare
    <2>4. f[Len(heap[Old])] \in Nat /\ Used(heap[now]) \in Nat
      <3>1. heap[Old] \in Seq(Cells) /\ heap[now] \in Seq(Cells) /\ Len(heap[Old]) \in Nat
        BY <1>5, ThreeHeaps DEF Heaps
      <3>2. Len(heap[Old]) \in 0 .. Len(heap[Old])
        BY <3>1
      <3> QED
        BY <2>3, <3>1, <3>2, LeftNat, UsedNat
    <2>5. Used(heap[now]) + n < end
      BY <1>4, <1>5, <2>3, <2>4, LessRoom
    <2> QED
      BY <1>2, <1>4, <2>1, <2>2, <2>5 DEF Collecting
  <1> QED
    BY <1>6, <1>7, <1>8, <1>9 DEF Collection

\* Nobody but the second collection of an allocation goes on with "allocate".
LEMMA OthersFit ==
  ASSUME PlainKinds, CollectorInv, IdentityInv, fate = "run", Next, ~Collection
  PROVE  RetryFits'
  <1>1. Frame /\ Phases
    BY DEF CollectorInv
  <1>2. CASE pc' = "run" \/ (pc' = "roots" /\ back' # "allocate")
    BY <1>2 DEF RetryFits, Collecting
  <1>3. CASE StillNoRoom
    <2>1. pc = "again" /\ Mutating /\ Waiting
      BY <1>1, <1>3 DEF StillNoRoom, At, Phases, Waiting
    <2>2. PICK n \in Nat : n = Needed(call)
      BY <1>1, <2>1, AskedNat
    <2>3. idris_gc(size + n + HeapSize, "allocate") /\ call' = call
      BY <1>3, <2>2 DEF StillNoRoom
    <2>4. Spare(heap, n)'
      BY <1>1, <2>1, <2>3, StartSpares
    <2>5. pc' = "roots" /\ n = Needed(call')
      BY <2>2, <2>3 DEF idris_gc
    <2> QED
      BY <2>4, <2>5 DEF RetryFits
  <1>4. CASE RoomNow \/ Retry
    <2>1. pc' = "run" \/ (pc' = "roots" /\ back' = "again")
      BY <1>4 DEF RoomNow, Retry, Allocate, NoRoom, idris_gc
    <2> QED
      BY <1>2, <2>1
  <1>5. ASSUME NEW x \in Root, NEW kind \in Kinds, NEW from \in [1 .. kind[2] -> Root],
               Call(x, kind, from)
        PROVE  RetryFits'
    <2>1. kind[1] # "BIGINT"
      BY DEF PlainKinds
    <2>2. \E c : Allocate(c) \/ NoRoom(c)
      BY <1>5, <2>1 DEF Call, Required
    <2>3. pc' = "run" \/ (pc' = "roots" /\ back' = "again")
      BY <2>2 DEF Allocate, NoRoom, idris_gc
    <2> QED
      BY <1>2, <2>3
  <1>6. CASE Collect
    <2>1. pc' = "roots" /\ back' = "run"
      BY <1>6 DEF Collect, idris_gc
    <2> QED
      BY <1>2, <2>1
  <1>7. ASSUME NEW x \in Root, NEW y \in Root, NEW k \in 1 .. 2, Write(x, k, y) \/ Read(x, y, k)
        PROVE  RetryFits'
    <2>1. pc' = "run"
      BY <1>7 DEF Write, Read, At
    <2> QED
      BY <1>2, <2>1
  <1>8. ASSUME NEW x \in Root, Drop(x) PROVE RetryFits'
    <2>1. pc' = "run"
      BY <1>8 DEF Drop, At
    <2> QED
      BY <1>2, <2>1
  <1> QED
    BY <1>3, <1>4, <1>5, <1>6, <1>7, <1>8 DEF Next, Allocation

LEMMA NextFits ==
  ASSUME PlainKinds, CollectorInv, IdentityInv, RetryFits, [Next]_vars
  PROVE  RetryFits'
  <1>1. CASE UNCHANGED vars
    BY <1>1 DEF vars, RetryFits, Collecting, Spare, Old
  <1>2. CASE Next
    <2>1. fate = "run"
      BY <1>2, NextRuns
    <2> QED
      BY <1>2, <2>1, CollectionFits, OthersFit
  <1> QED
    BY <1>1, <1>2

\* An allocation collects at most twice: the size that iallocate asks for before the
\* second collection is enough, whatever that collection copies.  Floats are left
\* out, of which one can become several, and big integers, which ask for more than
\* the collection has made room for.
THEOREM TwoCollectionsAreEnough == PlainKinds /\ Spec => TwoCollectionsDo
  <1>1. Init => RetryFits
    BY DEF Init, RetryFits, Collecting
  <1>2. ASSUME CollectorInv, RetryFits, [Next]_vars, pc = "allocate", fate = "run"
        PROVE  pc' = "run" \/ UNCHANGED vars
    <2>1. Room(heap[now], Needed(call))
      <3>1. Used(heap[now]) + Needed(call) < end
        BY <1>2 DEF RetryFits
      <3> QED
        BY <3>1 DEF Room
    <2>2. ~NoRoom(call)
      BY <2>1 DEF NoRoom
    <2>3. CASE Next
      <3>1. Retry
        BY <1>2, <2>3 DEF Next, Collection, Allocation, CopyRoot, RootsDone, ScanCell, idris_gcEnds,
           StillNoRoom, RoomNow, Call, Write, Read, Drop, Collect, At
      <3> QED
        BY <2>2, <3>1 DEF Retry, Allocate
    <2> QED
      BY <1>2, <2>3
  <1>3. CollectorInv /\ RetryFits /\ [Next]_vars => [pc = "allocate" /\ fate = "run" => pc' = "run"]_vars
    BY <1>2
  <1>4. PlainKinds => (CollectorInv /\ IdentityInv /\ RetryFits /\ [Next]_vars => RetryFits')
    BY NextFits
  <1>5. PlainKinds => (Spec => []RetryFits)
    <2> SUFFICES ASSUME PlainKinds PROVE Spec => []RetryFits
      OBVIOUS
    <2>1. CollectorInv /\ IdentityInv /\ RetryFits /\ [Next]_vars => RetryFits'
      BY <1>4
    <2> QED
      BY <1>1, <2>1, IdentityInvariance, PTL DEF Spec
  <1> QED
    BY <1>3, <1>5, IdentityInvariance, PTL DEF Spec, TwoCollectionsDo
=============================================================================
