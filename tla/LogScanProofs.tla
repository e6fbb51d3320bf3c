--------------------------- MODULE LogScanProofs ---------------------------
(***************************************************************************)
(* Proofs about LogScan: the shared search stays coherent and every scan   *)
(* delivers its range in chain order, for every range, number of windows,  *)
(* density of logs and behaviour of the node.                              *)
(***************************************************************************)
EXTENDS LogScan, SequenceTheorems, TLAPS

(***************************************************************************)
(* The search.  A window's request keeps its width within the search's     *)
(* bounds, and an answer about such a width keeps the search within them.  *)
(***************************************************************************)
Askable(width) == width \in 1..MaxSpan

Coherent(w) ==
    /\ w \in Search
    /\ w.next \in 1..MaxSpan
    /\ w.accepted \in 0..MaxSpan
    /\ w.rejected \in 0..MaxSpan
    /\ w.accepted # None /\ w.rejected # None => w.accepted < w.rejected

\* probe stays between the two widths it is given: it may return accepted and
\* never rejected.
LEMMA ProbeBetween ==
    ASSUME NEW a \in Nat, NEW r \in Nat, a < r
    PROVE  Probe(a, r) \in a..(r - 1)
<1>1. CASE r - a <= Larger(a \div 8, 1)
  BY <1>1 DEF Probe
<1>2. CASE ~(r - a <= Larger(a \div 8, 1))
  <2>1. r - a > 1
    BY <1>2 DEF Larger
  <2>2. (r - a) \div 2 \in 0..(r - a - 1)
    BY <2>1
  <2>3. Probe(a, r) = a + (r - a) \div 2
    BY <1>2 DEF Probe
  <2> QED BY <2>2, <2>3
<1> QED BY <1>1, <1>2

\* WidthSearch::accepted keeps the search coherent.
LEMMA AcceptedCoherent ==
    ASSUME NEW w, Coherent(w), NEW width, Askable(width)
    PROVE  Coherent(Accepted(w, width))
<1> DEFINE a == Larger(w.accepted, width)
           sparser == w.rejected # None /\ a >= w.rejected
           retests == w.rejected # None /\ ~sparser /\ w.run + 1 >= w.retest
           r == IF sparser \/ retests THEN None ELSE w.rejected
           n == IF r = None THEN Smaller(MaxSpan, 2 * Larger(w.next, width))
                ELSE Probe(a, r)
           run == IF retests THEN 0 ELSE w.run + 1
           retest == IF sparser THEN RetestFirst
                     ELSE IF retests THEN Smaller(RetestCap, 2 * w.retest)
                     ELSE w.retest
<1>1. /\ w.next \in 1..MaxSpan /\ w.accepted \in 0..MaxSpan
      /\ w.rejected \in 0..MaxSpan /\ w.run \in Nat /\ w.retest \in Nat
      /\ width \in 1..MaxSpan
      /\ w.accepted # None /\ w.rejected # None => w.accepted < w.rejected
  BY DEF Coherent, Search, Askable
<1>2. a \in 1..MaxSpan
  BY <1>1, WidthAssumption DEF Larger
<1>3. r \in 0..MaxSpan /\ (r # None => a < r)
  BY <1>1, <1>2, WidthAssumption DEF None
<1>4. n \in 1..MaxSpan
  <2>1. CASE r = None
    <3>1. Larger(w.next, width) \in 1..MaxSpan
      BY <1>1, WidthAssumption DEF Larger
    <3> QED BY <2>1, <3>1, WidthAssumption DEF Smaller
  <2>2. CASE r # None
    <3>1. Probe(a, r) \in a..(r - 1)
      BY <2>2, <1>2, <1>3, ProbeBetween, WidthAssumption
    <3> QED BY <2>2, <3>1, <1>2, <1>3, WidthAssumption
  <2> QED BY <2>1, <2>2
<1>5. run \in Nat /\ retest \in Nat
  BY <1>1, WidthAssumption DEF Smaller
<1>6. Accepted(w, width) = [next |-> n, accepted |-> a, rejected |-> r,
                            run |-> run, retest |-> retest]
  BY DEF Accepted
<1> HIDE DEF n, a, r, run, retest
<1> QED BY <1>2, <1>3, <1>4, <1>5, <1>6, WidthAssumption DEF Coherent, Search

\* WidthSearch::rejected keeps the search coherent, for a width that halves to
\* at least one block.
LEMMA RejectedCoherent ==
    ASSUME NEW w, Coherent(w), NEW width, Askable(width), width > 1
    PROVE  Coherent(Rejected(w, width))
<1> DEFINE denser == width <= w.accepted
           a == IF denser THEN None ELSE w.accepted
           r == IF w.rejected = None THEN width ELSE Smaller(w.rejected, width)
           n == IF a = None THEN width \div 2 ELSE Probe(a, r)
           retest == IF denser THEN RetestFirst ELSE w.retest
<1>1. /\ w.next \in 1..MaxSpan /\ w.accepted \in 0..MaxSpan
      /\ w.rejected \in 0..MaxSpan /\ w.run \in Nat /\ w.retest \in Nat
      /\ width \in 1..MaxSpan
      /\ w.accepted # None /\ w.rejected # None => w.accepted < w.rejected
  BY DEF Coherent, Search, Askable
<1>2. r \in 1..MaxSpan
  BY <1>1, WidthAssumption DEF Smaller, None
<1>3. a \in 0..MaxSpan /\ (a # None => a < r)
  BY <1>1, WidthAssumption DEF Smaller, None
<1>4. n \in 1..MaxSpan
  <2>1. CASE a = None
    <3>1. width \div 2 \in 1..MaxSpan
      BY <1>1, WidthAssumption
    <3> QED BY <2>1, <3>1
  <2>2. CASE a # None
    <3>1. Probe(a, r) \in a..(r - 1)
      BY <2>2, <1>2, <1>3, ProbeBetween, WidthAssumption
    <3> QED BY <2>2, <3>1, <1>2, <1>3, WidthAssumption DEF None
  <2> QED BY <2>1, <2>2
<1>5. retest \in Nat
  BY <1>1, WidthAssumption
<1>6. Rejected(w, width) = [next |-> n, accepted |-> a, rejected |-> r,
                            run |-> 0, retest |-> retest]
  BY DEF Rejected
<1> HIDE DEF n, a, r, retest
<1> QED BY <1>2, <1>3, <1>4, <1>5, <1>6, WidthAssumption DEF Coherent, Search

-----------------------------------------------------------------------------
(***************************************************************************)
(* Runs of blocks.                                                         *)
(***************************************************************************)

\* A run is the sequence of its blocks.
LEMMA RunIsSequence ==
    ASSUME NEW low \in Int, NEW high \in Int, low <= high + 1
    PROVE  /\ Run(low, high) \in Seq(Int)
           /\ Len(Run(low, high)) = high - low + 1
           /\ \A i \in 1..(high - low + 1) : Run(low, high)[i] = low + i - 1
<1>1. high - low + 1 \in Nat
  OBVIOUS
<1>2. Run(low, high) \in [1..(high - low + 1) -> Int]
  BY DEF Run
<1> QED BY <1>1, <1>2 DEF Run

\* A run followed by the next one is the run of both.
LEMMA RunsConcatenate ==
    ASSUME NEW a \in Int, NEW b \in Int, NEW c \in Int, a <= b + 1, b <= c
    PROVE  Run(a, b) \o Run(b + 1, c) = Run(a, c)
<1> DEFINE p == Run(a, b)
           q == Run(b + 1, c)
           r == Run(a, c)
<1>1. p \in Seq(Int) /\ Len(p) = b - a + 1 /\ \A i \in 1..(b - a + 1) : p[i] = a + i - 1
  BY RunIsSequence
<1>2. q \in Seq(Int) /\ Len(q) = c - b /\ \A i \in 1..(c - b) : q[i] = b + i
  <2>1. b + 1 <= c + 1 /\ b + 1 \in Int
    OBVIOUS
  <2>2. /\ q \in Seq(Int) /\ Len(q) = c - (b + 1) + 1
        /\ \A i \in 1..(c - (b + 1) + 1) : q[i] = (b + 1) + i - 1
    BY <2>1, RunIsSequence
  <2>3. c - (b + 1) + 1 = c - b
    OBVIOUS
  <2>4. \A i \in Int : (b + 1) + i - 1 = b + i
    OBVIOUS
  <2> HIDE DEF q
  <2> QED BY <2>2, <2>3, <2>4
<1>3. r \in Seq(Int) /\ Len(r) = c - a + 1 /\ \A i \in 1..(c - a + 1) : r[i] = a + i - 1
  <2>1. a <= c + 1
    OBVIOUS
  <2> QED BY <2>1, RunIsSequence
<1> HIDE DEF p, q, r
<1>4. p \o q \in Seq(Int) /\ Len(p \o q) = c - a + 1
  <2>1. p \o q \in Seq(Int) /\ Len(p \o q) = Len(p) + Len(q)
    BY <1>1, <1>2, ConcatProperties
  <2> QED BY <2>1, <1>1, <1>2
<1>5. \A i \in 1..(c - a + 1) : (p \o q)[i] = r[i]
  <2> TAKE i \in 1..(c - a + 1)
  <2>0. i \in 1..(Len(p) + Len(q)) /\ i \in Int
    BY <1>1, <1>2
  <2>1. (p \o q)[i] = IF i <= Len(p) THEN p[i] ELSE q[i - Len(p)]
    BY <2>0, <1>1, <1>2, ConcatProperties
  <2>2. CASE i <= b - a + 1
    BY <2>1, <2>2, <1>1, <1>3
  <2>3. CASE i > b - a + 1
    <3>1. i - Len(p) \in 1..(c - b)
      BY <2>3, <1>1
    <3>2. q[i - Len(p)] = b + (i - Len(p))
      BY <3>1, <1>2
    <3>3. (p \o q)[i] = q[i - Len(p)]
      BY <2>1, <2>3, <1>1
    <3> QED BY <3>2, <3>3, <1>1, <1>3
  <2>4. i <= b - a + 1 \/ i > b - a + 1
    BY <2>0
  <2> QED BY <2>2, <2>3, <2>4
<1>6. p \o q = r
  BY <1>3, <1>4, <1>5, SeqEqual
<1> QED BY <1>6 DEF p, q, r

-----------------------------------------------------------------------------
(***************************************************************************)
(* Windows.  What a window has read is a run that ends before low, and the *)
(* windows in flight tile the blocks from the first undelivered one to the *)
(* first one not carved.                                                   *)
(***************************************************************************)
W == [low : Int, to : Int, high : Int, asked : BOOLEAN, read : Seq(Int)]

Start(w) == w.low - Len(w.read)

GoodWindow(w) ==
    /\ w \in W
    /\ w.read = Run(Start(w), w.low - 1)
    /\ FromBlock <= w.low /\ w.low <= w.to + 1
    /\ w.to <= ToBlock
    /\ w.asked => /\ w.low <= w.high
                  /\ w.high <= w.to
                  /\ w.high - w.low + 1 <= MaxSpan

Tiles(ws, a, c) ==
    /\ ws \in Seq(W)
    /\ \A i \in 1..Len(ws) : GoodWindow(ws[i])
    /\ ws = <<>> => a = c
    /\ ws # <<>> => Start(ws[1]) = a /\ ws[Len(ws)].to + 1 = c
    /\ \A i \in 1..(Len(ws) - 1) : Start(ws[i + 1]) = ws[i].to + 1

\* A window that changes within its own blocks leaves the tiling.
LEMMA UpdateTiles ==
    ASSUME NEW ws, NEW a, NEW c, Tiles(ws, a, c),
           NEW i \in 1..Len(ws), NEW w, GoodWindow(w),
           Start(w) = Start(ws[i]), w.to = ws[i].to
    PROVE  Tiles([ws EXCEPT ![i] = w], a, c)
<1> DEFINE vs == [ws EXCEPT ![i] = w]
<1>1. /\ ws \in Seq(W) /\ w \in W /\ Len(ws) \in Nat
      /\ i \in Nat
  BY LenProperties DEF Tiles, GoodWindow
<1>2. /\ vs \in Seq(W) /\ Len(vs) = Len(ws)
      /\ \A j \in 1..Len(ws) : vs[j] = IF j = i THEN w ELSE ws[j]
  BY <1>1, ExceptSeq
<1> HIDE DEF vs
<1>3. \A j \in 1..Len(ws) : Start(vs[j]) = Start(ws[j]) /\ vs[j].to = ws[j].to
                            /\ GoodWindow(vs[j])
  BY <1>2 DEF Tiles
<1>4. Len(ws) \in 1..Len(ws) /\ 1 \in 1..Len(ws)
  BY <1>1
<1>5. ws # <<>> /\ vs # <<>>
  BY <1>1, <1>2, <1>4
<1>6. \A j \in 1..(Len(vs) - 1) : j \in 1..Len(ws) /\ j + 1 \in 1..Len(ws)
  BY <1>1, <1>2
<1>7. \A j \in 1..(Len(vs) - 1) : Start(vs[j + 1]) = vs[j].to + 1
  BY <1>2, <1>3, <1>6 DEF Tiles
<1>8. Start(vs[1]) = a /\ vs[Len(vs)].to + 1 = c
  BY <1>2, <1>3, <1>4, <1>5 DEF Tiles
<1>9. Tiles(vs, a, c)
  BY <1>2, <1>3, <1>5, <1>7, <1>8 DEF Tiles
<1> QED BY <1>9 DEF vs

\* A window carved where the last one ends extends the tiling.
LEMMA AppendTiles ==
    ASSUME NEW ws, NEW a, NEW c, Tiles(ws, a, c), NEW w, GoodWindow(w),
           Start(w) = c
    PROVE  Tiles(Append(ws, w), a, w.to + 1)
<1> DEFINE vs == Append(ws, w)
<1>1. ws \in Seq(W) /\ w \in W /\ Len(ws) \in Nat
  BY LenProperties DEF Tiles, GoodWindow
<1>2. /\ vs \in Seq(W) /\ Len(vs) = Len(ws) + 1
      /\ \A j \in 1..Len(ws) : vs[j] = ws[j]
      /\ vs[Len(ws) + 1] = w
  BY <1>1, AppendProperties
<1> HIDE DEF vs
<1>3. vs # <<>>
  BY <1>1, <1>2
<1>4. \A j \in 1..Len(vs) : GoodWindow(vs[j])
  <2> TAKE j \in 1..Len(vs)
  <2>1. j \in 1..Len(ws) \/ j = Len(ws) + 1
    BY <1>1, <1>2
  <2> QED BY <1>2, <2>1 DEF Tiles
<1>5. CASE ws = <<>>
  <2>1. Len(ws) = 0 /\ a = c
    BY <1>5 DEF Tiles
  <2>2. Tiles(vs, a, w.to + 1)
    BY <1>2, <1>3, <1>4, <2>1 DEF Tiles
  <2> QED BY <2>2 DEF vs
<1>6. CASE ws # <<>>
  <2>1. Len(ws) \in Nat \ {0}
    BY <1>1, <1>6, EmptySeq
  <2>2. 1 \in 1..Len(ws) /\ Len(ws) \in 1..Len(ws)
    BY <2>1
  <2>3. Start(vs[1]) = a /\ vs[Len(vs)].to + 1 = w.to + 1
    BY <1>2, <1>6, <2>2 DEF Tiles
  <2>4. \A j \in 1..(Len(vs) - 1) : Start(vs[j + 1]) = vs[j].to + 1
    <3> TAKE j \in 1..(Len(vs) - 1)
    <3>1. j = Len(ws) \/ j \in 1..(Len(ws) - 1)
      BY <1>1, <1>2
    <3>2. CASE j = Len(ws)
      BY <1>2, <1>6, <2>2, <3>2 DEF Tiles
    <3>3. CASE j \in 1..(Len(ws) - 1)
      <4>1. j \in 1..Len(ws) /\ j + 1 \in 1..Len(ws)
        BY <1>1, <3>3
      <4> QED BY <1>2, <3>3, <4>1 DEF Tiles
    <3> QED BY <3>1, <3>2, <3>3
  <2>5. Tiles(vs, a, w.to + 1)
    BY <1>2, <1>3, <1>4, <2>3, <2>4 DEF Tiles
  <2> QED BY <2>5 DEF vs
<1> QED BY <1>5, <1>6

\* Delivering a window that is read takes one tile away, and what is delivered
\* is the tile.
LEMMA DeliverTiles ==
    ASSUME NEW ws, NEW a \in Int, NEW c, Tiles(ws, a, c), ws # <<>>,
           Head(ws).low > Head(ws).to
    PROVE  /\ Tiles(Tail(ws), Head(ws).to + 1, c)
           /\ Head(ws).read = Run(a, Head(ws).to)
           /\ Head(ws).to \in Int /\ Head(ws).to <= ToBlock
           /\ Head(ws).read \in Seq(Int)
           /\ Len(Head(ws).read) = Head(ws).to - a + 1
<1> DEFINE h == Head(ws)
           vs == Tail(ws)
<1>1. ws \in Seq(W) /\ Len(ws) \in Nat \ {0}
  BY EmptySeq DEF Tiles
<1>2. h = ws[1] /\ GoodWindow(h)
  BY <1>1 DEF Tiles
<1>3. /\ vs \in Seq(W) /\ Len(vs) = Len(ws) - 1
      /\ \A j \in 1..Len(vs) : vs[j] = ws[j + 1]
  BY <1>1, HeadTailProperties
<1>4. Start(h) = a
  BY <1>2 DEF Tiles
<1>5. h.low = h.to + 1 /\ h.to \in Int /\ h.to <= ToBlock /\ h.read \in Seq(Int)
  BY <1>2 DEF GoodWindow, W
<1>6. h.read = Run(a, h.to)
  <2>1. h.low - 1 = h.to
    BY <1>5
  <2>2. h.read = Run(Start(h), h.low - 1)
    BY <1>2 DEF GoodWindow
  <2> HIDE DEF h
  <2> QED BY <1>4, <2>1, <2>2
<1>7. Len(h.read) = h.to - a + 1
  <2>1. Len(h.read) \in Nat
    BY <1>5, LenProperties
  <2> HIDE DEF h
  <2> QED BY <1>4, <1>5, <2>1 DEF Start
<1> HIDE DEF h, vs
<1>8. \A j \in 1..Len(vs) : j + 1 \in 1..Len(ws) /\ GoodWindow(vs[j])
  BY <1>1, <1>3 DEF Tiles
<1>9. \A j \in 1..(Len(vs) - 1) : Start(vs[j + 1]) = vs[j].to + 1
  <2> TAKE j \in 1..(Len(vs) - 1)
  <2>1. j \in 1..Len(vs) /\ j + 1 \in 1..Len(vs) /\ j + 1 \in 1..(Len(ws) - 1)
    BY <1>1, <1>3
  <2>2. vs[j] = ws[j + 1] /\ vs[j + 1] = ws[(j + 1) + 1]
    BY <1>3, <2>1
  <2> QED BY <2>1, <2>2 DEF Tiles
<1>10. CASE Len(vs) = 0
  <2>1. vs = <<>> /\ Len(ws) = 1
    BY <1>1, <1>3, <1>10, EmptySeq
  <2>2. h.to + 1 = c
    BY <1>2, <2>1 DEF Tiles
  <2> QED BY <1>3, <1>5, <1>6, <1>7, <1>8, <1>9, <2>1, <2>2 DEF Tiles, h, vs
<1>11. CASE Len(vs) # 0
  <2>1. /\ Len(vs) \in Nat \ {0} /\ vs # <<>>
        /\ Len(vs) \in 1..Len(vs) /\ 1 \in 1..Len(vs) /\ 1 \in 1..(Len(ws) - 1)
    BY <1>1, <1>3, <1>11
  <2>2. Start(vs[1]) = h.to + 1
    <3>1. vs[1] = ws[1 + 1]
      BY <1>3, <2>1
    <3> QED BY <1>2, <2>1, <3>1 DEF Tiles
  <2>3. vs[Len(vs)].to + 1 = c
    <3>1. vs[Len(vs)] = ws[Len(vs) + 1] /\ Len(vs) + 1 = Len(ws)
      BY <1>1, <1>3, <2>1
    <3> QED BY <3>1 DEF Tiles
  <2>4. Tiles(vs, h.to + 1, c)
    BY <1>3, <1>8, <1>9, <2>1, <2>2, <2>3 DEF Tiles
  <2> QED BY <1>5, <1>6, <1>7, <2>4 DEF h, vs
<1> QED BY <1>10, <1>11

-----------------------------------------------------------------------------
(***************************************************************************)
(* The inductive invariant: the search is coherent, an oldest-first scan   *)
(* has delivered a run from the first block and its windows tile what it   *)
(* has carved beyond, and a newest-first scan has delivered the run above  *)
(* its unread top.                                                         *)
(***************************************************************************)
Statuses == {"running", "done", "stopped", "rejected", "failed"}

OldestOK(st, cur, ws, lg) ==
    /\ lg = Run(FromBlock, FromBlock + Len(lg) - 1)
    /\ FromBlock <= cur /\ cur <= ToBlock + 1
    /\ IF st = "running" THEN Tiles(ws, FromBlock + Len(lg), cur) ELSE ws = <<>>
    /\ st = "done" => Len(lg) = ToBlock - FromBlock + 1

\* The one request of a newest-first scan.
TopRequest(w, cur) ==
    w.asked => /\ FromBlock <= w.low /\ w.low <= w.high /\ w.high = cur
               /\ w.high - w.low + 1 <= MaxSpan

NewestOK(st, cur, ws, lg) ==
    /\ lg = Run(cur + 1, ToBlock)
    /\ FromBlock - 1 <= cur /\ cur <= ToBlock
    /\ \A i \in 1..Len(ws) : TopRequest(ws[i], cur)
    /\ st = "done" => cur = FromBlock - 1

ScanOK(s, st, cur, ws, lg) ==
    /\ s \in OldestFirst => OldestOK(st, cur, ws, lg)
    /\ s \in NewestFirst => NewestOK(st, cur, ws, lg)

IInv ==
    /\ Coherent(search)
    /\ status \in [Scans -> Statuses]
    /\ cursor \in [Scans -> Int]
    /\ windows \in [Scans -> Seq(W)]
    /\ logs \in [Scans -> Seq(Int)]
    /\ \A s \in Scans : ScanOK(s, status[s], cursor[s], windows[s], logs[s])

\* A step of one scan keeps the invariant if it keeps that scan's part.
LEMMA OneScanSteps ==
    ASSUME IInv, NEW s \in Scans, NEW st \in Statuses, NEW cur \in Int,
           NEW ws \in Seq(W), NEW lg \in Seq(Int),
           status' = [status EXCEPT ![s] = st],
           cursor' = [cursor EXCEPT ![s] = cur],
           windows' = [windows EXCEPT ![s] = ws],
           logs' = [logs EXCEPT ![s] = lg],
           ScanOK(s, st, cur, ws, lg),
           Coherent(search')
    PROVE  IInv'
<1>1. /\ status' \in [Scans -> Statuses] /\ cursor' \in [Scans -> Int]
      /\ windows' \in [Scans -> Seq(W)] /\ logs' \in [Scans -> Seq(Int)]
  BY DEF IInv
<1>2. \A t \in Scans : ScanOK(t, status'[t], cursor'[t], windows'[t], logs'[t])
  <2> TAKE t \in Scans
  <2>1. CASE t = s
    <3>1. status'[s] = st /\ cursor'[s] = cur /\ windows'[s] = ws /\ logs'[s] = lg
      BY DEF IInv
    <3> QED BY <2>1, <3>1
  <2>2. CASE t # s
    <3>1. /\ status'[t] = status[t] /\ cursor'[t] = cursor[t]
          /\ windows'[t] = windows[t] /\ logs'[t] = logs[t]
      BY <2>2 DEF IInv
    <3> QED BY <3>1 DEF IInv
  <2> QED BY <2>1, <2>2
<1> QED BY <1>1, <1>2 DEF IInv

LEMMA InitIInv == Init => IInv
<1> SUFFICES ASSUME Init PROVE IInv
  OBVIOUS
<1>1. Coherent(search)
  BY WidthAssumption DEF Init, Coherent, Search, NewSearch, None
<1>2. /\ status \in [Scans -> Statuses] /\ cursor \in [Scans -> Int]
      /\ windows \in [Scans -> Seq(W)] /\ logs \in [Scans -> Seq(Int)]
  BY ScanAssumption, EmptySeq DEF Init, Statuses
<1>3. ASSUME NEW s \in Scans
      PROVE  ScanOK(s, status[s], cursor[s], windows[s], logs[s])
  <2>1. status[s] = "running" /\ windows[s] = <<>> /\ logs[s] = <<>>
    BY DEF Init
  <2>2. Len(logs[s]) = 0 /\ <<>> \in Seq(W) /\ Len(windows[s]) = 0
    BY <2>1, EmptySeq
  <2>3. CASE s \in OldestFirst
    <3>1. cursor[s] = FromBlock
      BY <2>3 DEF Init
    <3>2. Run(FromBlock, FromBlock + 0 - 1) = <<>>
      BY ScanAssumption, RunIsSequence, EmptySeq
    <3>3. Tiles(<<>>, FromBlock + 0, FromBlock)
      BY <2>2, ScanAssumption DEF Tiles
    <3>4. s \notin NewestFirst
      BY <2>3, ScanAssumption
    <3> QED BY <2>1, <2>2, <3>1, <3>2, <3>3, <3>4, ScanAssumption
            DEF ScanOK, OldestOK
  <2>4. CASE s \in NewestFirst
    <3>1. s \notin OldestFirst
      BY <2>4, ScanAssumption
    <3>2. cursor[s] = ToBlock
      BY <3>1 DEF Init
    <3>3. Run(ToBlock + 1, ToBlock) = <<>>
      BY ScanAssumption, RunIsSequence, EmptySeq
    <3> QED BY <2>1, <2>2, <3>1, <3>2, <3>3, ScanAssumption DEF ScanOK, NewestOK
  <2> QED BY <2>3, <2>4 DEF Scans
<1> QED BY <1>1, <1>2, <1>3 DEF IInv

-----------------------------------------------------------------------------
(***************************************************************************)
(* Every step preserves the invariant.                                     *)
(***************************************************************************)

\* The parts of the invariant that a step of scan s starts from.
LEMMA ScanState ==
    ASSUME IInv, NEW s \in Scans
    PROVE  /\ status[s] \in Statuses /\ cursor[s] \in Int
           /\ windows[s] \in Seq(W) /\ logs[s] \in Seq(Int)
           /\ Len(windows[s]) \in Nat /\ Len(logs[s]) \in Nat
           /\ ScanOK(s, status[s], cursor[s], windows[s], logs[s])
           /\ Coherent(search) /\ search.next \in 1..MaxSpan
           /\ status = [status EXCEPT ![s] = status[s]]
           /\ cursor = [cursor EXCEPT ![s] = cursor[s]]
           /\ windows = [windows EXCEPT ![s] = windows[s]]
           /\ logs = [logs EXCEPT ![s] = logs[s]]
<1>1. Len(windows[s]) \in Nat /\ Len(logs[s]) \in Nat
  BY LenProperties DEF IInv
<1> QED BY <1>1 DEF IInv, Coherent

\* An outstanding request is not empty and no wider than the maximum.
LEMMA AskedWidth ==
    ASSUME IInv, NEW s \in Scans, NEW i, Asked(s, i)
    PROVE  /\ windows[s][i] \in W
           /\ Askable(Width(s, i))
           /\ s \in OldestFirst => GoodWindow(windows[s][i])
<1>1. /\ status[s] = "running" /\ i \in 1..Len(windows[s]) /\ windows[s][i].asked
      /\ windows[s] \in Seq(W) /\ cursor[s] \in Int
      /\ ScanOK(s, status[s], cursor[s], windows[s], logs[s])
  BY ScanState DEF Asked
<1>2. windows[s][i] \in W
  BY <1>1, ElementOfSeq
<1>5. windows[s][i].low \in Int /\ windows[s][i].high \in Int
  BY <1>2 DEF W
<1>3. CASE s \in OldestFirst
  <2>1. GoodWindow(windows[s][i])
    BY <1>1, <1>3 DEF ScanOK, OldestOK, Tiles
  <2>2. /\ windows[s][i].low <= windows[s][i].high
        /\ windows[s][i].high - windows[s][i].low + 1 <= MaxSpan
    BY <1>1, <2>1 DEF GoodWindow
  <2> QED BY <1>2, <1>5, <2>1, <2>2, WidthAssumption DEF Askable, Width
<1>4. CASE s \in NewestFirst
  <2>1. TopRequest(windows[s][i], cursor[s])
    BY <1>1, <1>4 DEF ScanOK, NewestOK
  <2>2. s \notin OldestFirst
    BY <1>4, ScanAssumption
  <2>3. /\ windows[s][i].low <= windows[s][i].high
        /\ windows[s][i].high - windows[s][i].low + 1 <= MaxSpan
    BY <1>1, <2>1 DEF TopRequest
  <2> QED BY <1>2, <1>5, <2>2, <2>3, WidthAssumption DEF Askable, Width
<1> QED BY <1>3, <1>4 DEF Scans

\* A scan that ends, and is done only when it has read its range.
LEMMA EndPreserves ==
    ASSUME IInv, NEW s \in Scans, NEW outcome \in Statuses, outcome # "running",
           outcome = "done" =>
                /\ s \in OldestFirst => Len(logs[s]) = ToBlock - FromBlock + 1
                /\ s \in NewestFirst => cursor[s] = FromBlock - 1,
           EndScan(s, outcome)
    PROVE  IInv'
<1>1. /\ status' = [status EXCEPT ![s] = outcome]
      /\ windows' = [windows EXCEPT ![s] = <<>>]
      /\ cursor' = [cursor EXCEPT ![s] = cursor[s]]
      /\ logs' = [logs EXCEPT ![s] = logs[s]]
      /\ search' = search
  BY ScanState DEF EndScan
<1>2. ScanOK(s, outcome, cursor[s], <<>>, logs[s])
  <2>1. ScanOK(s, status[s], cursor[s], windows[s], logs[s])
    BY ScanState
  <2>2. Len(<<>>) = 0
    OBVIOUS
  <2> QED BY <2>1, <2>2 DEF ScanOK, OldestOK, NewestOK
<1>3. <<>> \in Seq(W)
  BY EmptySeq
<1> QED BY <1>1, <1>2, <1>3, ScanState, OneScanSteps

LEMMA CarvePreserves ==
    ASSUME IInv, NEW s \in Scans, Carve(s)
    PROVE  IInv'
<1> DEFINE to == Smaller(cursor[s] + search.next - 1, ToBlock)
           w == [low |-> cursor[s], to |-> to, high |-> cursor[s],
                 asked |-> FALSE, read |-> <<>>]
           ws == Append(windows[s], w)
<1>1. /\ s \in OldestFirst /\ status[s] = "running" /\ cursor[s] <= ToBlock
      /\ windows' = [windows EXCEPT ![s] = ws]
      /\ cursor' = [cursor EXCEPT ![s] = to + 1]
      /\ status' = [status EXCEPT ![s] = status[s]]
      /\ logs' = [logs EXCEPT ![s] = logs[s]]
      /\ search' = search
  BY ScanState DEF Carve
<1>2. /\ cursor[s] \in Int /\ search.next \in 1..MaxSpan
      /\ OldestOK(status[s], cursor[s], windows[s], logs[s])
      /\ windows[s] \in Seq(W)
  BY <1>1, ScanState DEF ScanOK
<1>3. to \in Int /\ cursor[s] <= to /\ to <= ToBlock
  <2>1. /\ cursor[s] \in Int /\ cursor[s] <= ToBlock /\ ToBlock \in Int
        /\ search.next \in Int /\ search.next >= 1
    BY <1>1, <1>2, WidthAssumption, ScanAssumption
  <2>2. to = cursor[s] + search.next - 1 \/ to = ToBlock
    BY DEF Smaller
  <2>3. to <= ToBlock
    BY <2>1 DEF Smaller
  <2> HIDE DEF to
  <2> QED BY <2>1, <2>2, <2>3
<1> HIDE DEF to
<1>4. GoodWindow(w) /\ Start(w) = cursor[s]
  <2>1. <<>> \in Seq(Int) /\ Len(<<>>) = 0
    BY EmptySeq
  <2>2. Run(cursor[s], cursor[s] - 1) = <<>>
    <3>1. /\ cursor[s] - 1 \in Int /\ cursor[s] <= (cursor[s] - 1) + 1
          /\ (cursor[s] - 1) - cursor[s] + 1 = 0
      BY <1>2
    <3>2. /\ Run(cursor[s], cursor[s] - 1) \in Seq(Int)
          /\ Len(Run(cursor[s], cursor[s] - 1)) = 0
      BY <1>2, <3>1, RunIsSequence
    <3> QED BY <3>2, EmptySeq
  <2>3. Start(w) = cursor[s]
    BY <1>2, <2>1 DEF Start
  <2>4. FromBlock <= w.low
    BY <1>2 DEF OldestOK
  <2> QED BY <1>2, <1>3, <2>1, <2>2, <2>3, <2>4 DEF GoodWindow, W
<1>5. Tiles(ws, FromBlock + Len(logs[s]), w.to + 1)
  BY <1>1, <1>2, <1>4, AppendTiles DEF OldestOK
<1>6. w.to + 1 = to + 1 /\ ws \in Seq(W)
  BY <1>5 DEF Tiles
<1> HIDE DEF w, ws
<1>7. ScanOK(s, status[s], to + 1, ws, logs[s])
  <2>1. s \notin NewestFirst
    BY <1>1, ScanAssumption
  <2> QED BY <1>1, <1>2, <1>3, <1>5, <1>6, <2>1, ScanAssumption DEF ScanOK, OldestOK
<1>8. to + 1 \in Int
  BY <1>3
<1> QED BY <1>1, <1>6, <1>7, <1>8, ScanState, OneScanSteps

LEMMA FinishPreserves ==
    ASSUME IInv, NEW s \in Scans, Finish(s)
    PROVE  IInv'
<1>1. /\ s \in OldestFirst /\ status[s] = "running" /\ cursor[s] > ToBlock
      /\ windows[s] = <<>> /\ EndScan(s, "done")
  BY DEF Finish
<1>2. OldestOK(status[s], cursor[s], windows[s], logs[s])
  BY <1>1, ScanState DEF ScanOK
<1>3. FromBlock + Len(logs[s]) = cursor[s] /\ cursor[s] <= ToBlock + 1
  BY <1>1, <1>2 DEF OldestOK, Tiles
<1>4. Len(logs[s]) = ToBlock - FromBlock + 1
  BY <1>1, <1>3, ScanState, ScanAssumption
<1>5. s \notin NewestFirst
  BY <1>1, ScanAssumption
<1> QED BY <1>1, <1>4, <1>5, EndPreserves DEF Statuses

LEMMA NarrowsPreserves ==
    ASSUME IInv, NEW s \in Scans, NEW i, Narrows(s, i)
    PROVE  IInv'
<1> DEFINE w == [windows[s][i] EXCEPT !.asked = FALSE]
           ws == [windows[s] EXCEPT ![i] = w]
<1>1. /\ Asked(s, i) /\ Width(s, i) > 1
      /\ windows' = [windows EXCEPT ![s] = ws]
      /\ cursor' = [cursor EXCEPT ![s] = cursor[s]]
      /\ status' = [status EXCEPT ![s] = status[s]]
      /\ logs' = [logs EXCEPT ![s] = logs[s]]
      /\ search' = Rejected(search, Width(s, i))
  BY ScanState DEF Narrows
<1>2. /\ windows[s][i] \in W /\ Askable(Width(s, i))
      /\ s \in OldestFirst => GoodWindow(windows[s][i])
  BY <1>1, AskedWidth
<1>3. Coherent(search')
  BY <1>1, <1>2, ScanState, RejectedCoherent
<1>4. /\ w \in W /\ w.asked = FALSE
      /\ w.low = windows[s][i].low /\ w.to = windows[s][i].to
      /\ w.read = windows[s][i].read
  BY <1>2 DEF W
<1> HIDE DEF w
<1>5. i \in 1..Len(windows[s]) /\ windows[s] \in Seq(W) /\ status[s] = "running"
  BY <1>1, ScanState DEF Asked
<1>6. /\ ws \in Seq(W) /\ Len(ws) = Len(windows[s])
      /\ \A j \in 1..Len(windows[s]) : ws[j] = IF j = i THEN w ELSE windows[s][j]
  BY <1>4, <1>5, ExceptSeq
<1>7. ASSUME s \in OldestFirst
      PROVE  OldestOK(status[s], cursor[s], ws, logs[s])
  <2>1. OldestOK(status[s], cursor[s], windows[s], logs[s])
    BY <1>7, ScanState DEF ScanOK
  <2>2. GoodWindow(w) /\ Start(w) = Start(windows[s][i])
    BY <1>2, <1>4, <1>7 DEF GoodWindow, Start
  <2>3. Tiles(ws, FromBlock + Len(logs[s]), cursor[s])
    BY <1>4, <1>5, <2>1, <2>2, UpdateTiles DEF OldestOK
  <2> QED BY <1>5, <2>1, <2>3 DEF OldestOK
<1> HIDE DEF ws
<1>8. ASSUME s \in NewestFirst
      PROVE  NewestOK(status[s], cursor[s], ws, logs[s])
  <2>1. NewestOK(status[s], cursor[s], windows[s], logs[s])
    BY <1>8, ScanState DEF ScanOK
  <2>2. \A j \in 1..Len(ws) : TopRequest(ws[j], cursor[s])
    BY <1>4, <1>6, <2>1 DEF NewestOK, TopRequest
  <2> QED BY <2>1, <2>2 DEF NewestOK
<1> QED BY <1>1, <1>3, <1>6, <1>7, <1>8, ScanState, OneScanSteps DEF ScanOK

LEMMA AskPreserves ==
    ASSUME IInv, NEW s \in Scans, NEW i, Ask(s, i)
    PROVE  IInv'
<1> DEFINE old == windows[s][i]
           high == old.low + Smaller(search.next - 1, old.to - old.low)
           w == [old EXCEPT !.high = high, !.asked = TRUE]
           ws == [windows[s] EXCEPT ![i] = w]
<1>1. /\ s \in OldestFirst /\ status[s] = "running" /\ i \in 1..Len(windows[s])
      /\ old.low <= old.to
      /\ windows[s] \in Seq(W)
      /\ OldestOK(status[s], cursor[s], windows[s], logs[s])
  BY ScanState DEF Ask, ScanOK
<1>2. old \in W /\ GoodWindow(old)
  BY <1>1, ElementOfSeq DEF OldestOK, Tiles
<1>3. /\ cursor' = [cursor EXCEPT ![s] = cursor[s]]
      /\ status' = [status EXCEPT ![s] = status[s]]
      /\ logs' = [logs EXCEPT ![s] = logs[s]]
      /\ search' = search
  BY ScanState DEF Ask
<1>10. windows' = [windows EXCEPT ![s] = ws]
  BY <1>1, ScanState DEF Ask, IInv
<1>4. search.next \in 1..MaxSpan /\ old.low \in Int /\ old.to \in Int
  BY <1>2, ScanState DEF W
<1> HIDE DEF old
<1>5. /\ high \in Int /\ old.low <= high /\ high <= old.to
      /\ high - old.low + 1 <= MaxSpan
  <2>1. /\ search.next - 1 \in 0..(MaxSpan - 1) /\ old.to - old.low \in Nat
        /\ old.low \in Int /\ old.to \in Int /\ MaxSpan \in Int
    BY <1>1, <1>4, WidthAssumption
  <2>2. CASE search.next - 1 <= old.to - old.low
    <3>1. high = old.low + (search.next - 1)
      BY <2>2 DEF Smaller
    <3> HIDE DEF high
    <3> QED BY <2>1, <2>2, <3>1
  <2>3. CASE ~(search.next - 1 <= old.to - old.low)
    <3>1. high = old.low + (old.to - old.low)
      BY <2>3 DEF Smaller
    <3> HIDE DEF high
    <3> QED BY <2>1, <2>3, <3>1
  <2> QED BY <2>2, <2>3
<1> HIDE DEF high
<1>11. old \in W /\ high \in Int
  BY <1>2, <1>5
<1>6. /\ w \in W /\ w.high = high /\ w.low = old.low /\ w.to = old.to
      /\ w.read = old.read
  BY <1>11 DEF W
<1> HIDE DEF w
<1>7. GoodWindow(w) /\ Start(w) = Start(old)
  BY <1>2, <1>5, <1>6 DEF GoodWindow, Start
<1>8. Tiles(ws, FromBlock + Len(logs[s]), cursor[s])
  BY <1>1, <1>6, <1>7, UpdateTiles DEF OldestOK, old
<1>9. ScanOK(s, status[s], cursor[s], ws, logs[s]) /\ ws \in Seq(W)
  <2>1. s \notin NewestFirst
    BY <1>1, ScanAssumption
  <2>2. ws \in Seq(W)
    BY <1>8 DEF Tiles
  <2> HIDE DEF ws
  <2> QED BY <1>1, <1>8, <2>1, <2>2 DEF ScanOK, OldestOK
<1> HIDE DEF ws
<1> QED BY <1>3, <1>9, <1>10, ScanState, OneScanSteps

LEMMA ReadsPreserves ==
    ASSUME IInv, NEW s \in Scans, NEW i, Reads(s, i)
    PROVE  IInv'
<1> DEFINE old == windows[s][i]
           low == IF old.high = old.to THEN old.to + 1 ELSE PastRead(old)
           read == old.read \o Run(old.low, old.high)
           w == [old EXCEPT !.asked = FALSE, !.read = read, !.low = low]
           ws == [windows[s] EXCEPT ![i] = w]
<1>1. /\ s \in OldestFirst /\ Asked(s, i)
      /\ cursor' = [cursor EXCEPT ![s] = cursor[s]]
      /\ status' = [status EXCEPT ![s] = status[s]]
      /\ logs' = [logs EXCEPT ![s] = logs[s]]
      /\ search' = Accepted(search, Width(s, i))
  BY ScanState DEF Reads
<1>2. /\ status[s] = "running" /\ i \in 1..Len(windows[s]) /\ old.asked
      /\ windows[s] \in Seq(W)
      /\ OldestOK(status[s], cursor[s], windows[s], logs[s])
  BY <1>1, ScanState DEF Asked, ScanOK
<1>3. old \in W /\ GoodWindow(old) /\ Askable(Width(s, i))
  BY <1>1, AskedWidth
<1>4. windows' = [windows EXCEPT ![s] = ws]
  BY <1>2, ScanState DEF Reads, IInv
<1>5. Coherent(search')
  BY <1>1, <1>3, ScanState, AcceptedCoherent
<1>6. /\ old.low \in Int /\ old.high \in Int /\ old.to \in Int
      /\ FromBlock <= old.low
      /\ old.low <= old.high /\ old.high <= old.to /\ old.to <= ToBlock
      /\ old.read \in Seq(Int) /\ Len(old.read) \in Nat
      /\ old.read = Run(Start(old), old.low - 1)
  BY <1>2, <1>3, LenProperties DEF GoodWindow, W
<1>7. low = old.high + 1
  BY <1>6 DEF PastRead
<1>8. /\ read \in Seq(Int)
      /\ Len(read) = Len(old.read) + (old.high - old.low + 1)
  <2>1. old.low <= old.high + 1
    BY <1>6
  <2>2. /\ Run(old.low, old.high) \in Seq(Int)
        /\ Len(Run(old.low, old.high)) = old.high - old.low + 1
    BY <1>6, <2>1, RunIsSequence
  <2> DEFINE p == old.read
             q == Run(old.low, old.high)
  <2>3. p \in Seq(Int) /\ q \in Seq(Int) /\ read = p \o q
    BY <1>6, <2>2
  <2> HIDE DEF old, read
  <2>4. Len(p) \in Nat /\ Len(q) = old.high - old.low + 1
    BY <1>6, <2>2
  <2> HIDE DEF p, q
  <2>5. p \o q \in Seq(Int) /\ Len(p \o q) = Len(p) + Len(q)
    BY <2>3, ConcatProperties
  <2>6. Len(read) = Len(p) + (old.high - old.low + 1)
    BY <2>3, <2>4, <2>5
  <2> QED BY <2>3, <2>5, <2>6 DEF p
<1>9. read = Run(Start(old), old.high)
  <2>1. Start(old) \in Int /\ Start(old) <= (old.low - 1) + 1
    BY <1>6 DEF Start
  <2>2. old.low - 1 \in Int /\ old.low - 1 <= old.high /\ (old.low - 1) + 1 = old.low
    BY <1>6
  <2>3. Run(Start(old), old.low - 1) \o Run((old.low - 1) + 1, old.high)
            = Run(Start(old), old.high)
    BY <1>6, <2>1, <2>2, RunsConcatenate
  <2> HIDE DEF old
  <2> QED BY <1>6, <2>2, <2>3
<1>15. low \in Int
  BY <1>6, <1>7
<1> HIDE DEF low, read, old
<1>10. /\ w \in W /\ w.asked = FALSE /\ w.low = low /\ w.to = old.to /\ w.read = read
  BY <1>3, <1>8, <1>15 DEF W
<1> HIDE DEF w
<1>11. Start(w) = Start(old)
  BY <1>6, <1>7, <1>8, <1>10 DEF Start
<1>12. GoodWindow(w)
  <2>1. low - 1 = old.high
    BY <1>6, <1>7
  <2>2. w.read = Run(Start(w), w.low - 1)
    BY <1>9, <1>10, <1>11, <2>1
  <2>3. FromBlock <= w.low /\ w.low <= w.to + 1 /\ w.to <= ToBlock
    BY <1>6, <1>7, <1>10, ScanAssumption
  <2> QED BY <1>10, <2>2, <2>3 DEF GoodWindow
<1>13. Tiles(ws, FromBlock + Len(logs[s]), cursor[s])
  BY <1>2, <1>10, <1>11, <1>12, UpdateTiles DEF OldestOK, old
<1>14. ScanOK(s, status[s], cursor[s], ws, logs[s]) /\ ws \in Seq(W)
  <2>1. s \notin NewestFirst
    BY <1>1, ScanAssumption
  <2>2. ws \in Seq(W)
    BY <1>13 DEF Tiles
  <2> HIDE DEF ws
  <2> QED BY <1>2, <1>13, <2>1, <2>2 DEF ScanOK, OldestOK
<1> HIDE DEF ws
<1> QED BY <1>1, <1>4, <1>5, <1>14, ScanState, OneScanSteps

LEMMA DeliverPreserves ==
    ASSUME IInv, NEW s \in Scans, Deliver(s)
    PROVE  IInv'
<1> DEFINE h == Head(windows[s])
           ws == Tail(windows[s])
           lg == logs[s] \o h.read
           a == FromBlock + Len(logs[s])
<1>1. /\ s \in OldestFirst /\ status[s] = "running"
      /\ windows[s] # <<>> /\ h.low > h.to
      /\ windows' = [windows EXCEPT ![s] = ws]
      /\ logs' = [logs EXCEPT ![s] = lg]
      /\ cursor' = [cursor EXCEPT ![s] = cursor[s]]
      /\ status' = [status EXCEPT ![s] = status[s]]
      /\ search' = search
  BY ScanState DEF Deliver
<1>2. /\ OldestOK(status[s], cursor[s], windows[s], logs[s])
      /\ logs[s] \in Seq(Int) /\ Len(logs[s]) \in Nat
  BY <1>1, ScanState DEF ScanOK
<1>3. a \in Int /\ Tiles(windows[s], a, cursor[s])
  BY <1>1, <1>2, ScanAssumption DEF OldestOK
<1>4. /\ Tiles(ws, h.to + 1, cursor[s])
      /\ h.read = Run(a, h.to)
      /\ h.to \in Int /\ h.read \in Seq(Int)
      /\ Len(h.read) = h.to - a + 1
  BY <1>1, <1>3, DeliverTiles
<1> HIDE DEF h
<1>5. lg \in Seq(Int) /\ Len(lg) = Len(logs[s]) + Len(h.read)
  BY <1>2, <1>4, ConcatProperties
<1> HIDE DEF lg
<1>6. FromBlock + Len(lg) = h.to + 1
  BY <1>2, <1>4, <1>5, ScanAssumption
<1>7. lg = Run(FromBlock, h.to)
  <2>1. Len(h.read) \in Nat
    BY <1>4, LenProperties
  <2>2. /\ a - 1 \in Int /\ FromBlock <= (a - 1) + 1 /\ a - 1 <= h.to
        /\ (a - 1) + 1 = a /\ FromBlock \in Int
    BY <1>2, <1>4, <2>1, ScanAssumption
  <2>3. Run(FromBlock, a - 1) \o Run((a - 1) + 1, h.to) = Run(FromBlock, h.to)
    BY <1>4, <2>2, RunsConcatenate
  <2>4. logs[s] = Run(FromBlock, a - 1)
    <3>1. logs[s] = Run(FromBlock, FromBlock + Len(logs[s]) - 1)
      BY <1>2, Zenon DEF OldestOK
    <3>2. a = FromBlock + Len(logs[s])
      BY DEF a
    <3> HIDE DEF a
    <3> QED BY <3>1, <3>2, <1>2, <1>3, ScanAssumption
  <2>5. lg = logs[s] \o h.read
    BY DEF lg
  <2> HIDE DEF a
  <2> QED BY <1>4, <2>2, <2>3, <2>4, <2>5
<1> HIDE DEF ws
<1>8. h.to = FromBlock + Len(lg) - 1
  <2>1. Len(lg) \in Nat
    BY <1>5, LenProperties
  <2>2. h.to \in Int /\ FromBlock \in Int
    BY <1>4, ScanAssumption
  <2> QED BY <1>6, <2>1, <2>2
<1>9. ScanOK(s, status[s], cursor[s], ws, lg) /\ ws \in Seq(W)
  <2>1. s \notin NewestFirst
    BY <1>1, ScanAssumption
  <2>2. lg = Run(FromBlock, FromBlock + Len(lg) - 1)
    BY <1>7, <1>8
  <2>3. Tiles(ws, FromBlock + Len(lg), cursor[s])
    BY <1>4, <1>6
  <2>4. OldestOK(status[s], cursor[s], ws, lg)
    BY <1>1, <1>2, <2>2, <2>3 DEF OldestOK
  <2>5. ws \in Seq(W)
    BY <2>3 DEF Tiles
  <2> QED BY <1>1, <1>2, <1>5, <2>1, <2>4, <2>5 DEF ScanOK
<1> QED BY <1>1, <1>5, <1>9, ScanState, OneScanSteps

\* AskTop asks for the unread top, within the search's width and the range.
LEMMA AskTopPreserves ==
    ASSUME IInv, NEW s \in Scans, AskTop(s)
    PROVE  IInv'
<1> DEFINE low == LowestAsked(s)
           w == [low |-> low, to |-> cursor[s], high |-> cursor[s],
                 asked |-> TRUE, read |-> <<>>]
           ws == <<w>>
<1>1. /\ s \in NewestFirst /\ status[s] = "running" /\ cursor[s] >= FromBlock
      /\ windows' = [windows EXCEPT ![s] = ws]
      /\ cursor' = [cursor EXCEPT ![s] = cursor[s]]
      /\ status' = [status EXCEPT ![s] = status[s]]
      /\ logs' = [logs EXCEPT ![s] = logs[s]]
      /\ search' = search
  BY ScanState DEF AskTop
<1>2. /\ NewestOK(status[s], cursor[s], windows[s], logs[s])
      /\ cursor[s] \in Int /\ search.next \in 1..MaxSpan
  BY <1>1, ScanState DEF ScanOK
<1>3. /\ low \in Int /\ FromBlock <= low /\ low <= cursor[s]
      /\ cursor[s] - low + 1 <= MaxSpan
  <2>1. /\ cursor[s] \in Int /\ FromBlock \in Int /\ FromBlock <= cursor[s]
        /\ search.next \in Int /\ 1 <= search.next /\ search.next <= MaxSpan
        /\ MaxSpan \in Int
    BY <1>1, <1>2, WidthAssumption, ScanAssumption
  <2>2. low = Larger(cursor[s] - (search.next - 1), FromBlock)
    BY <1>1 DEF LowestAsked
  <2> HIDE DEF low
  <2> QED BY <2>1, <2>2 DEF Larger
<1> HIDE DEF low
<1>4. w \in W /\ TopRequest(w, cursor[s])
  <2>1. <<>> \in Seq(Int)
    BY EmptySeq
  <2> QED BY <1>2, <1>3, <2>1 DEF W, TopRequest
<1> HIDE DEF w
<1>5. ws \in Seq(W) /\ \A j \in 1..Len(ws) : TopRequest(ws[j], cursor[s])
  BY <1>4
<1> HIDE DEF ws
<1>6. ScanOK(s, status[s], cursor[s], ws, logs[s])
  <2>1. s \notin OldestFirst
    BY <1>1, ScanAssumption
  <2> QED BY <1>2, <1>5, <2>1 DEF ScanOK, NewestOK
<1> QED BY <1>1, <1>5, <1>6, ScanState, OneScanSteps

\* ReadsTop gives the caller the chunk just below what it already has.
LEMMA ReadsTopPreserves ==
    ASSUME IInv, NEW s \in Scans, ReadsTop(s)
    PROVE  IInv'
<1> DEFINE old == windows[s][1]
           lg == Run(old.low, old.high) \o logs[s]
           cur == old.low - 1
<1>1. /\ s \in NewestFirst /\ Asked(s, 1)
      /\ windows' = [windows EXCEPT ![s] = <<>>]
      /\ cursor' = [cursor EXCEPT ![s] = cur]
      /\ status' = [status EXCEPT ![s] = status[s]]
      /\ logs' = [logs EXCEPT ![s] = lg]
      /\ search' = Accepted(search, Width(s, 1))
  BY ScanState DEF ReadsTop
<1>2. /\ NewestOK(status[s], cursor[s], windows[s], logs[s])
      /\ cursor[s] \in Int /\ status[s] = "running"
      /\ 1 \in 1..Len(windows[s]) /\ old.asked
      /\ logs[s] \in Seq(Int)
  BY <1>1, ScanState DEF ScanOK, Asked
<1>3. old \in W /\ Askable(Width(s, 1))
  BY <1>1, AskedWidth
<1>4. Coherent(search')
  BY <1>1, <1>3, ScanState, AcceptedCoherent
<1>5. /\ FromBlock <= old.low /\ old.low <= old.high /\ old.high = cursor[s]
      /\ cursor[s] <= ToBlock
      /\ old.low \in Int /\ old.high \in Int
      /\ logs[s] = Run(cursor[s] + 1, ToBlock)
  BY <1>2, <1>3 DEF NewestOK, TopRequest, W
<1> HIDE DEF old
<1>6. lg = Run(old.low, ToBlock)
  <2>1. old.low <= old.high + 1 /\ old.high <= ToBlock /\ ToBlock \in Int
    BY <1>5, ScanAssumption
  <2>2. Run(old.low, old.high) \o Run(old.high + 1, ToBlock) = Run(old.low, ToBlock)
    BY <1>5, <2>1, RunsConcatenate
  <2> QED BY <1>5, <2>2
<1>7. lg \in Seq(Int)
  <2>1. old.low <= ToBlock + 1 /\ ToBlock \in Int
    BY <1>5, ScanAssumption
  <2> QED BY <1>5, <1>6, <2>1, RunIsSequence
<1> HIDE DEF lg
<1>8. /\ cur \in Int /\ FromBlock - 1 <= cur /\ cur <= ToBlock /\ cur + 1 = old.low
  BY <1>5, ScanAssumption
<1> HIDE DEF cur
<1>9. <<>> \in Seq(W) /\ Len(<<>>) = 0
  BY EmptySeq
<1>10. ScanOK(s, status[s], cur, <<>>, lg)
  <2>1. s \notin OldestFirst
    BY <1>1, ScanAssumption
  <2> QED BY <1>2, <1>6, <1>8, <1>9, <2>1 DEF ScanOK, NewestOK
<1> QED BY <1>1, <1>4, <1>7, <1>8, <1>9, <1>10, ScanState, OneScanSteps

\* A newest-first scan is done only below its range.
LEMMA StopPreserves ==
    ASSUME IInv, NEW s \in Scans, Stop(s)
    PROVE  IInv'
<1> DEFINE outcome == IF cursor[s] < FromBlock THEN "done" ELSE "stopped"
<1>1. s \in NewestFirst /\ EndScan(s, outcome)
  BY DEF Stop
<1>2. /\ NewestOK(status[s], cursor[s], windows[s], logs[s])
      /\ cursor[s] \in Int
  BY <1>1, ScanState DEF ScanOK
<1>3. outcome = "done" => cursor[s] = FromBlock - 1
  BY <1>2, ScanAssumption DEF NewestOK
<1>4. outcome \in Statuses /\ outcome # "running"
  BY DEF Statuses
<1>5. s \notin OldestFirst
  BY <1>1, ScanAssumption
<1> HIDE DEF outcome
<1> QED BY <1>1, <1>3, <1>4, <1>5, EndPreserves

\* Every step of Next, and every step that changes nothing.
LEMMA NextIInv == IInv /\ [Next]_vars => IInv'
<1> SUFFICES ASSUME IInv, [Next]_vars PROVE IInv'
  OBVIOUS
<1>1. CASE UNCHANGED vars
  BY <1>1 DEF vars, IInv
<1>2. CASE CapMoves
  BY <1>2 DEF CapMoves, IInv
<1>3. ASSUME NEW s \in Scans, Drive(s)
      PROVE  IInv'
  BY <1>3, CarvePreserves, DeliverPreserves, FinishPreserves, AskTopPreserves,
     StopPreserves DEF Drive
<1>4. ASSUME NEW s \in Scans, NEW i \in 1..InFlight, Ask(s, i)
      PROVE  IInv'
  BY <1>4, AskPreserves
<1>5. ASSUME NEW s \in Scans, NEW i \in 1..InFlight, Answer(s, i)
      PROVE  IInv'
  <2>1. CASE Reads(s, i)
    BY <2>1, ReadsPreserves
  <2>2. CASE ReadsTop(s)
    BY <2>2, ReadsTopPreserves
  <2>3. CASE Narrows(s, i)
    BY <2>3, NarrowsPreserves
  <2>4. CASE LogsRejected(s, i)
    BY <2>4, EndPreserves DEF LogsRejected, Statuses
  <2>5. CASE Unanswered(s, i)
    BY <2>5, EndPreserves DEF Unanswered, Statuses
  <2> QED BY <1>5, <2>1, <2>2, <2>3, <2>4, <2>5 DEF Answer
<1> QED BY <1>1, <1>2, <1>3, <1>4, <1>5 DEF Next

\* The invariant says what the properties say.
LEMMA IInvImplies == IInv => WidthsCoherent /\ ReadInChainOrder
<1> SUFFICES ASSUME IInv PROVE WidthsCoherent /\ ReadInChainOrder
  OBVIOUS
<1>1. WidthsCoherent
  BY DEF IInv, Coherent, WidthsCoherent
<1>2. ASSUME NEW s \in OldestFirst
      PROVE  /\ logs[s] = Run(FromBlock, FromBlock + Len(logs[s]) - 1)
             /\ status[s] = "done" => Len(logs[s]) = ToBlock - FromBlock + 1
  BY ScanState DEF Scans, ScanOK, OldestOK
<1>3. ASSUME NEW s \in NewestFirst
      PROVE  /\ logs[s] = Run(cursor[s] + 1, ToBlock)
             /\ status[s] = "done" => Len(logs[s]) = ToBlock - FromBlock + 1
  <2>1. NewestOK(status[s], cursor[s], windows[s], logs[s])
    BY ScanState DEF Scans, ScanOK
  <2>2. ASSUME status[s] = "done"
        PROVE  Len(logs[s]) = ToBlock - FromBlock + 1
    <3>1. logs[s] = Run(FromBlock, ToBlock)
      <4>1. (FromBlock - 1) + 1 = FromBlock
        BY ScanAssumption
      <4> QED BY <2>1, <2>2, <4>1 DEF NewestOK
    <3>2. FromBlock \in Int /\ ToBlock \in Int /\ FromBlock <= ToBlock + 1
      BY ScanAssumption
    <3> QED BY <3>1, <3>2, RunIsSequence
  <2> QED BY <2>1, <2>2 DEF NewestOK
<1> QED BY <1>1, <1>2, <1>3 DEF ReadInChainOrder

-----------------------------------------------------------------------------
\* Concurrent scans never drive the width they share (WidthSearch, probe) to
\* zero, above the maximum, or to an accepted width at or above a rejected one.
THEOREM WidthsStayCoherent == Spec => []WidthsCoherent
<1>1. IInv => WidthsCoherent
  BY IInvImplies
<1> QED BY InitIInv, NextIInv, <1>1, PTL DEF Spec

\* Whatever the node refuses, and in whatever order its answers arrive, a scan
\* (scan_all, scan_newest) gives its caller every block of the range once and
\* in chain order, and is done only with all of them.
THEOREM ScansReadInChainOrder == Spec => []ReadInChainOrder
<1>1. IInv => ReadInChainOrder
  BY IInvImplies
<1> QED BY InitIInv, NextIInv, <1>1, PTL DEF Spec

-----------------------------------------------------------------------------
(***************************************************************************)
(* A scan that is told a rejection is final has asked for one block.       *)
(***************************************************************************)
\* The logs of a range of one block.  The sum is a recursive function: the
\* one there is over two arguments is given.
LEMMA LogsOfOneBlock ==
    ASSUME NEW s \in Scans, NEW b \in Blocks
    PROVE  LogsIn(s, b, b) = Weight(s, b)
<1> DEFINE F(sum) == [c \in b..(b + 1) |-> IF c > b THEN 0 ELSE Weight(s, c) + sum[c + 1]]
           two == [c \in b..(b + 1) |-> IF c > b THEN 0 ELSE Weight(s, b)]
           chosen == CHOOSE sum : sum = F(sum)
<1>1. b \in Nat /\ Weight(s, b) \in Nat
  BY ScanAssumption DEF Blocks
<1>2. two = F(two)
  <2>1. \A c \in b..(b + 1) : two[c] = F(two)[c]
    BY <1>1
  <2> QED
    BY <2>1
<1>3. chosen = F(chosen)
  BY <1>2
<1>4. LogsIn(s, b, b) = chosen[b]
  BY DEF LogsIn
<1> HIDE DEF chosen
<1>5. chosen[b] = Weight(s, b) + chosen[b + 1] /\ chosen[b + 1] = 0
  BY <1>1, <1>3
<1> QED
  BY <1>1, <1>4, <1>5

\* A request is for blocks of the scan's range.
LEMMA AskedInRange ==
    ASSUME IInv, NEW s \in Scans, NEW i, Asked(s, i)
    PROVE  windows[s][i].low \in Blocks /\ windows[s][i].high \in Blocks
<1>1. /\ i \in 1..Len(windows[s]) /\ windows[s][i].asked /\ status[s] = "running"
      /\ windows[s][i] \in W /\ ScanOK(s, status[s], cursor[s], windows[s], logs[s])
      /\ cursor[s] \in Int
  BY AskedWidth, ScanState DEF Asked
<1>2. CASE s \in OldestFirst
  <2>1. GoodWindow(windows[s][i]) /\ windows[s][i].asked
    BY <1>1, <1>2, AskedWidth
  <2>2. /\ FromBlock <= windows[s][i].low /\ windows[s][i].to <= ToBlock
        /\ windows[s][i].low <= windows[s][i].high /\ windows[s][i].high <= windows[s][i].to
    BY <2>1 DEF GoodWindow
  <2>3. windows[s][i].low \in Int /\ windows[s][i].high \in Int /\ windows[s][i].to \in Int
    BY <1>1 DEF W
  <2> QED
    BY <2>2, <2>3, ScanAssumption DEF Blocks
<1>3. CASE s \in NewestFirst
  <2>1. /\ cursor[s] <= ToBlock /\ TopRequest(windows[s][i], cursor[s])
    BY <1>1, <1>3 DEF ScanOK, NewestOK
  <2>2. /\ FromBlock <= windows[s][i].low /\ windows[s][i].low <= windows[s][i].high
        /\ windows[s][i].high <= ToBlock
    BY <1>1, <2>1 DEF TopRequest
  <2>3. windows[s][i].low \in Int /\ windows[s][i].high \in Int
    BY <1>1 DEF W
  <2> QED
    BY <2>2, <2>3, ScanAssumption DEF Blocks
<1> QED
  BY <1>2, <1>3 DEF Scans

\* Only a rejection at one block ends a scan as rejected: a scan narrows on
\* every wider one, and has asked for no empty range and for none out of its
\* own (get_logs_chunked: "a request the server refuses at any width").
THEOREM RejectionsAreFinalOnlyAtOneBlock == Spec => RejectedOnlyAtOneBlock
<1> DEFINE Caught == \A s \in Scans : status'[s] = "rejected" /\ status[s] # "rejected" =>
                          \E b \in Blocks : Weight(s, b) > cap.results
           Safe == IInv /\ cap \in Caps
<1>1. Init => Safe
  BY InitIInv DEF Init
<1>2. Safe /\ [Next]_vars => cap' \in Caps
  <2>1. CapMoves => cap' \in Caps
    BY DEF CapMoves
  <2>2. ASSUME Safe, [Next]_vars, ~CapMoves
        PROVE  cap' = cap
    <3>1. CASE UNCHANGED vars
      BY <3>1 DEF vars
    <3>2. ASSUME NEW s \in Scans, Drive(s)
          PROVE  cap' = cap
      BY <3>2 DEF Drive, Carve, Deliver, Finish, AskTop, Stop, EndScan
    <3>3. ASSUME NEW s \in Scans, NEW i, Ask(s, i)
          PROVE  cap' = cap
      BY <3>3 DEF Ask
    <3>4. ASSUME NEW s \in Scans, NEW i, Answer(s, i)
          PROVE  cap' = cap
      BY <3>4 DEF Answer, Reads, ReadsTop, Narrows, LogsRejected, Unanswered, Stop, EndScan
    <3> QED
      BY <2>2, <3>1, <3>2, <3>3, <3>4 DEF Next
  <2> QED
    BY <2>1, <2>2
<1>3. Safe /\ [Next]_vars => Safe'
  BY <1>2, NextIInv
<1>4. ASSUME Safe, [Next]_vars
      PROVE  [Caught]_vars
  <2> SUFFICES ASSUME NEW s \in Scans, status'[s] = "rejected", status[s] # "rejected"
               PROVE  \E b \in Blocks : Weight(s, b) > cap.results
    BY DEF vars
  <2>1. status \in [Scans -> Statuses]
    BY <1>4 DEF IInv
  <2>2. PICK i \in 1..InFlight : LogsRejected(s, i)
    <3>1. Next
      BY <1>4 DEF vars
    <3>2. ~CapMoves
      BY DEF CapMoves
    <3>3. PICK t \in Scans : Drive(t) \/ \E i \in 1..InFlight : Ask(t, i) \/ Answer(t, i)
      BY <3>1, <3>2 DEF Next
    <3>4. ~Drive(t)
      BY <2>1 DEF Drive, Carve, Deliver, Finish, AskTop, Stop, EndScan
    <3>5. PICK i \in 1..InFlight : Ask(t, i) \/ Answer(t, i)
      BY <3>3, <3>4
    <3>6. LogsRejected(t, i)
      BY <2>1, <3>5 DEF Ask, Answer, Reads, ReadsTop, Narrows, Unanswered, EndScan
    <3>7. t = s
      BY <2>1, <3>6 DEF LogsRejected, EndScan
    <3> QED
      BY <3>6, <3>7
  <2>3. Asked(s, i) /\ ~Fits(s, i) /\ Width(s, i) = 1
    BY <2>2 DEF LogsRejected
  <2> DEFINE b == windows[s][i].low
  <2>4. b \in Blocks /\ windows[s][i].high = b
    <3>1. b \in Blocks /\ windows[s][i].high \in Blocks
      BY <1>4, <2>3, AskedInRange
    <3> QED
      BY <2>3, <3>1, ScanAssumption DEF Width, Blocks
  <2>5. cap.span >= 1 /\ cap.results \in Nat
    BY <1>4, ScanAssumption
  <2>6. LogsIn(s, b, b) = Weight(s, b) /\ Weight(s, b) \in Nat
    BY <2>4, LogsOfOneBlock, ScanAssumption
  <2>7. ~(LogsIn(s, b, b) <= cap.results)
    BY <2>3, <2>4, <2>5 DEF Fits
  <2> HIDE DEF b
  <2> QED
    BY <2>4, <2>5, <2>6, <2>7
<1> QED
  BY <1>1, <1>3, <1>4, PTL DEF Spec, RejectedOnlyAtOneBlock

=============================================================================
