---------------------------- MODULE ParamProofs ----------------------------
EXTENDS Param, SequenceTheorems, FiniteSetTheorems, WellFoundedInduction, TLAPS

(***************************************************************************)
(* Proofs about Dispatch and Param, for any routes, targets and number of  *)
(* calls.                                                                  *)
(*                                                                         *)
(* The first invariant follows iterators along the target: whatever was    *)
(* copied and called, one that was advanced n times has cut n pieces off,  *)
(* and what the target is shows which was moved last; and as long as       *)
(* provide() has entries left to match, its view of the target is valid.   *)
(* The second says whose block may hold anything while callbacks run, the  *)
(* third which part of which expression a block has come to, the fourth    *)
(* that it holds what the callbacks that led to the innermost one have     *)
(* captured of their own request, if there was one way to it.              *)
(***************************************************************************)

Its == [pos : Nat, rest : Seq(Pieces), steps : Nat]
Frames == [route : Route, at : Nat, due : Nat, its : SUBSET Its, seen : Seq(Pieces),
           cut : Nat, calls : Nat]
Busy == phase \in {"method", "all"}
Map == Of(phase = "method")

TypeInv ==
  /\ routes \in RouteSets /\ phase \in {"idle", "method", "all", "terminated"}
  /\ whole \in Targets \cup {<<>>} /\ (Busy => whole \in Targets)
  /\ target \in Seq(Pieces) /\ Len(target) <= Len(whole)
  /\ view \in BOOLEAN /\ cut \in Nat /\ invoked \in BOOLEAN
  /\ left \subseteq routes /\ executed \subseteq routes
  /\ stack \in Seq(Frames) /\ (stack # <<>> \/ left # {} => Busy)

(* The k-th piece of a target, or its last; what is left of it after n      *)
(* advances; and an iterator that has made them.                           *)
PieceOf(w, k) == <<w[IF k < Len(w) THEN k ELSE Len(w)]>>
Rest(w, n) == SubSeq(w, IF n + 2 < Len(w) THEN n + 2 ELSE Len(w), Len(w))
Stands(w, it, e) ==
  it \in Its /\ it.pos = Least(it.steps, e.callbacks - 1) /\ it.rest = Rest(w, it.steps)

(* A callback that runs, of a route among x, for a request with target w.   *)
FrameInv(w, x, f) ==
  /\ f.route \in x /\ f.calls <= MaxCalls
  /\ IF f.route.callbacks = 1
     THEN f.at = 0 /\ f.seen = w /\ \A it \in f.its : it.pos = 0 /\ it.rest # <<>>
     ELSE /\ \A it \in f.its : Stands(w, it, f.route) /\ f.due <= it.steps
          /\ f.at = Least(f.due, f.route.callbacks - 1) /\ f.seen = PieceOf(w, f.cut + 1)

FramesInv == \A i \in DOMAIN stack : FrameInv(whole, executed, stack[i])

(* The iterator moved last has left its piece as the target.  A callback    *)
(* that sees its own segment was entered when no other had moved since, and *)
(* from there on the target is that segment or a later one.                *)
Own(f) == f.cut = f.due
MovesInv ==
  /\ \A i \in DOMAIN stack :
       /\ stack[i].route.callbacks # 1 => target = PieceOf(whole, cut + 1)
       /\ Own(stack[i]) => stack[i].due <= cut
  /\ \A i, j \in DOMAIN stack :
       i < j => /\ stack[i].due <= stack[j].due
                /\ Own(stack[i]) => stack[i].due <= stack[j].cut

(* What provide() has done so far: it has executed the matching routes of   *)
(* the map it goes through but those left, and as long as its view of the   *)
(* target is needed the target is whole.                                   *)
ProvideInv ==
  Busy =>
    /\ left \subseteq Map
    /\ left # {} \/ (phase = "method" /\ ~invoked) => target = whole /\ view
    /\ executed = {e \in Map \ left : match(e.regex, whole)}
    /\ phase = "method" => (invoked <=> executed # {})
    /\ phase = "all" => \A e \in Of(TRUE) : ~match(e.regex, whole)
    /\ \A e \in executed : e.callbacks > 1 => left = {}

DispatchInv == TypeInv /\ FramesInv /\ MovesInv /\ ProvideInv
-----------------------------------------------------------------------------
(* The types of a registered route, and of the target of a request.      *)
LEMMA RouteTypes ==
  ASSUME TypeInv, NEW e \in routes
  PROVE  e \in Route /\ e.callbacks \in Nat \ {0} /\ e.has_method \in BOOLEAN
BY RoutesAssumption DEF TypeInv, Route

(* While provide() runs the target it was called for has a piece.        *)
LEMMA WholeTypes ==
  ASSUME TypeInv, Busy
  PROVE  whole \in Seq(Pieces) /\ whole # <<>> /\ Len(whole) \in Nat \ {0}
<1>1. whole \in Seq(Pieces) /\ whole # <<>>
  BY TargetsAssumption DEF TypeInv
<1> QED  BY <1>1, EmptySeq

(* The constructor of the iterator cuts the first piece.                    *)
LEMMA FirstCut ==
  ASSUME NEW w \in Seq(Pieces), w # <<>>
  PROVE  /\ skipped(w) = PieceOf(w, 1) /\ skipped(w) \in Seq(Pieces) /\ Len(skipped(w)) = 1
         /\ remaining(w) = Rest(w, 0)
<1>1. PICK L \in Nat \ {0} : L = Len(w)
  BY EmptySeq
<1>2. Head(w) = w[1] /\ w[1] \in Pieces
  BY <1>1
<1>3. Tail(w) = SubSeq(w, 2, Len(w)) /\ SubSeq(w, 1, Len(w)) = w
  BY TailIsSubSeq, SubSeqFull
<1>4. CASE L = 1
  <2>1. w = <<w[1]>>
    <3>1. <<w[1]>> \in Seq(Pieces) /\ Len(<<w[1]>>) = 1 /\ <<w[1]>>[1] = w[1]
      BY <1>2
    <3>2. Len(w) = 1
      BY <1>1, <1>4
    <3> QED  BY <3>1, <3>2, SeqEqual
  <2>2. (IF 0 + 2 < L THEN 0 + 2 ELSE L) = 1 /\ (IF 1 < L THEN 1 ELSE L) = 1
    BY <1>4
  <2>3. Rest(w, 0) = w
    BY <1>1, <1>3, <1>4, <2>2 DEF Rest
  <2>4. PieceOf(w, 1) = <<w[1]>>
    BY <1>1, <2>2 DEF PieceOf
  <2> QED  BY <1>1, <1>2, <1>4, <2>1, <2>3, <2>4 DEF skipped, remaining
<1>5. CASE L > 1
  <2>1. (IF 0 + 2 < L THEN 0 + 2 ELSE L) = 2
    BY <1>5
  <2>2. Rest(w, 0) = SubSeq(w, 2, Len(w))
    BY <1>1, <2>1 DEF Rest
  <2>3. PieceOf(w, 1) = <<w[1]>>
    BY <1>1, <1>5 DEF PieceOf
  <2> QED  BY <1>1, <1>2, <1>3, <1>5, <2>2, <2>3 DEF skipped, remaining
<1> QED  BY <1>4, <1>5

(* However often a target was cut, one piece is left to cut: the last.   *)
LEMMA NextCut ==
  ASSUME NEW w \in Seq(Pieces), w # <<>>, NEW n \in Nat
  PROVE  /\ Rest(w, n) \in Seq(Pieces) /\ Rest(w, n) # <<>>
         /\ skipped(Rest(w, n)) = PieceOf(w, n + 2) /\ skipped(Rest(w, n)) \in Seq(Pieces)
         /\ Len(skipped(Rest(w, n))) = 1 /\ remaining(Rest(w, n)) = Rest(w, n + 1)
<1>1. PICK L \in Nat \ {0} : L = Len(w)
  OBVIOUS
<1>2. PICK a \in 1 .. L : a = IF n + 2 < L THEN n + 2 ELSE L
  BY <1>1
<1>3. PICK b \in 1 .. L : b = IF n + 3 < L THEN n + 3 ELSE L
  BY <1>1
<1>4. a = L \/ (a < L /\ b = a + 1)
  BY <1>1, <1>2, <1>3
<1>5. a = L => b = L
  BY <1>1, <1>2, <1>3
<1>6. PICK s : s = SubSeq(w, a, L)
  OBVIOUS
<1>7. /\ s \in Seq(Pieces) /\ Len(s) = L - a + 1
      /\ \A i \in 1 .. L - a + 1 : s[i] = w[a + i - 1]
  <2>1. \A i \in a .. L : w[i] \in Pieces
    BY <1>1, <1>2
  <2>2. /\ SubSeq(w, a, L) \in Seq(Pieces)
        /\ Len(SubSeq(w, a, L)) = IF a <= L THEN L - a + 1 ELSE 0
        /\ \A i \in 1 .. L - a + 1 : SubSeq(w, a, L)[i] = w[a + i - 1]
    <3>1. a \in Int /\ L \in Int
      OBVIOUS
    <3>2. ASSUME NEW q, NEW m \in Int, NEW k \in Int, \A i \in m .. k : q[i] \in Pieces
          PROVE  /\ SubSeq(q, m, k) \in Seq(Pieces)
                 /\ Len(SubSeq(q, m, k)) = IF m <= k THEN k - m + 1 ELSE 0
                 /\ \A i \in 1 .. k - m + 1 : SubSeq(q, m, k)[i] = q[m + i - 1]
      BY <3>2, SubSeqProperties
    <3> QED  BY <2>1, <3>1, <3>2, Zenon
  <2> QED  BY <2>2, <1>2, <1>6
<1>8. s # <<>> /\ Head(s) = w[a] /\ Tail(s) = SubSeq(w, a + 1, L)
  <2>1. Len(s) # 0
    BY <1>1, <1>2, <1>7
  <2>2. a \in 1 .. Len(w) /\ L \in a .. Len(w)
    BY <1>1, <1>2
  <2>3. Head(SubSeq(w, a, L)) = w[a] /\ Tail(SubSeq(w, a, L)) = SubSeq(w, a + 1, L)
    BY <2>2, HeadTailOfSubSeq, Zenon
  <2>4. s # <<>>
    BY <2>1, <1>7
  <2> QED  BY <2>3, <2>4, <1>6
<1>9. w[a] \in Pieces
  BY <1>1, <1>2
<1>10. Rest(w, n) = s /\ Rest(w, n + 1) = SubSeq(w, b, L)
  <2>1. Rest(w, n) = SubSeq(w, IF n + 2 < L THEN n + 2 ELSE L, L)
    BY <1>1 DEF Rest
  <2>2. Rest(w, n + 1) = SubSeq(w, IF n + 1 + 2 < L THEN n + 1 + 2 ELSE L, L)
    BY <1>1 DEF Rest
  <2>3. (IF n + 1 + 2 < L THEN n + 1 + 2 ELSE L) = b
    BY <1>1, <1>3
  <2> QED  BY <1>2, <1>6, <2>1, <2>2, <2>3
<1>11. PieceOf(w, n + 2) = <<w[a]>>
  BY <1>1, <1>2 DEF PieceOf
<1>12. CASE a = L
  <2>1. Len(s) = 1
    BY <1>1, <1>7, <1>12
  <2>2. s = <<w[a]>>
    BY <1>7, <1>8, <1>9, <2>1
  <2>3. skipped(s) = s /\ remaining(s) = s
    BY <2>1 DEF skipped, remaining
  <2>4. Rest(w, n + 1) = s
    BY <1>5, <1>6, <1>10, <1>12
  <2> QED  BY <1>7, <1>8, <1>10, <1>11, <2>1, <2>2, <2>3, <2>4
<1>13. CASE a < L
  <2>1. Len(s) > 1
    BY <1>1, <1>7, <1>13
  <2>2. skipped(s) = <<w[a]>> /\ remaining(s) = SubSeq(w, a + 1, L)
    BY <1>8, <2>1 DEF skipped, remaining
  <2>3. Rest(w, n + 1) = remaining(s)
    BY <1>4, <1>10, <1>13, <2>2
  <2>4. <<w[a]>> \in Seq(Pieces) /\ Len(<<w[a]>>) = 1
    BY <1>9
  <2> QED  BY <1>7, <1>8, <1>10, <1>11, <2>2, <2>3, <2>4
<1> QED  BY <1>4, <1>12, <1>13

(* operator++ makes one advance, and cuts the next piece.                *)
LEMMA PlusPlus ==
  ASSUME NEW w \in Seq(Pieces), w # <<>>, NEW e, e.callbacks \in Nat \ {0},
         NEW it, Stands(w, it, e)
  PROVE  /\ Stands(w, plus_plus(it, e), e) /\ plus_plus(it, e).steps = it.steps + 1
         /\ skipped(it.rest) = PieceOf(w, it.steps + 2) /\ skipped(it.rest) \in Seq(Pieces)
         /\ Len(skipped(it.rest)) = 1
<1>1. it.steps \in Nat /\ it.pos \in Nat /\ it.pos = Least(it.steps, e.callbacks - 1)
  BY DEF Stands, Its
<1>2. it.rest = Rest(w, it.steps)
  BY DEF Stands
<1>3. /\ skipped(it.rest) = PieceOf(w, it.steps + 2) /\ skipped(it.rest) \in Seq(Pieces)
      /\ Len(skipped(it.rest)) = 1 /\ remaining(it.rest) = Rest(w, it.steps + 1)
  BY <1>1, <1>2, NextCut
<1>4. remaining(it.rest) \in Seq(Pieces)
  <2>1. it.steps + 1 \in Nat
    BY <1>1
  <2> QED  BY <1>3, <2>1, NextCut
<1> DEFINE to == plus_plus(it, e)
<1>5. /\ to.pos = IF it.pos + 1 = e.callbacks THEN it.pos ELSE it.pos + 1
      /\ to.rest = remaining(it.rest) /\ to.steps = it.steps + 1
  BY DEF plus_plus, Iterator
<1>6. to.pos = Least(to.steps, e.callbacks - 1) /\ to.pos \in Nat
  BY <1>1, <1>5 DEF Least
<1>7. to \in Its
  BY <1>1, <1>4, <1>5, <1>6 DEF plus_plus, Iterator, Its
<1> QED  BY <1>1, <1>3, <1>5, <1>6, <1>7 DEF Stands

-----------------------------------------------------------------------------
(* A callback that runs is of a registered route; if it is not the last of  *)
(* its route, the route is a chain and no other route is left.              *)
LEMMA TopTypes ==
  ASSUME DispatchInv, stack # <<>>, NEW f, f = Top
  PROVE  /\ Busy /\ Len(stack) \in DOMAIN stack
         /\ f \in Frames /\ FrameInv(whole, executed, f)
         /\ f.route \in routes /\ f.route.callbacks \in Nat \ {0}
         /\ ~IsLast(f) =>
              /\ f.route.callbacks # 1 /\ left = {}
              /\ \A it \in f.its : Stands(whole, it, f.route) /\ f.due <= it.steps
<1>1. Len(stack) \in DOMAIN stack /\ stack[Len(stack)] \in Frames
  <2>1. stack \in Seq(Frames)
    BY DEF DispatchInv, TypeInv
  <2> QED  BY <2>1, EmptySeq, LenProperties
<1>2. f \in Frames /\ FrameInv(whole, executed, f)
  BY <1>1 DEF DispatchInv, FramesInv, Top
<1>3. f.route \in executed /\ Busy
  BY <1>2 DEF FrameInv, DispatchInv, TypeInv
<1>4. f.route \in routes /\ f.route.callbacks \in Nat \ {0}
  BY <1>3, RouteTypes DEF DispatchInv, TypeInv
<1>5. ASSUME ~IsLast(f)
      PROVE  /\ f.route.callbacks # 1 /\ left = {}
             /\ \A it \in f.its : Stands(whole, it, f.route) /\ f.due <= it.steps
  <2>1. f.route.callbacks # 1
    BY <1>2, <1>5 DEF FrameInv, IsLast
  <2>2. f.route.callbacks > 1
    BY <1>4, <2>1
  <2> QED  BY <1>2, <1>3, <2>1, <2>2 DEF FrameInv, DispatchInv, ProvideInv
<1> QED  BY <1>1, <1>2, <1>3, <1>4, <1>5

(* The running callback calls another one.                                  *)
LEMMA FramesPushed ==
  ASSUME stack \in Seq(Frames), stack # <<>>, FramesInv,
         NEW g \in Frames, FrameInv(whole, executed, g),
         NEW h \in Frames, FrameInv(whole, executed, h),
         NEW st, st = Append([stack EXCEPT ![Len(stack)] = g], h)
  PROVE  /\ st \in Seq(Frames) /\ Len(st) = Len(stack) + 1 /\ st[Len(stack) + 1] = h
         /\ \A i \in 1 .. Len(stack) : st[i] = IF i = Len(stack) THEN g ELSE stack[i]
         /\ \A i \in DOMAIN st : FrameInv(whole, executed, st[i])
<1>1. PICK n \in Nat \ {0} : n = Len(stack)
  BY EmptySeq
<1>2. PICK q : q = [stack EXCEPT ![n] = g]
  OBVIOUS
<1>3. /\ q \in Seq(Frames) /\ Len(q) = n
      /\ \A i \in 1 .. n : q[i] = IF i = n THEN g ELSE stack[i]
  BY <1>1, <1>2
<1>4. /\ st \in Seq(Frames) /\ Len(st) = n + 1 /\ st[n + 1] = h
      /\ \A i \in 1 .. n : st[i] = q[i]
  BY <1>1, <1>2, <1>3, AppendProperties
<1>5. ASSUME NEW i \in DOMAIN st
      PROVE  FrameInv(whole, executed, st[i])
  <2>1. i \in 1 .. n + 1
    BY <1>1, <1>4, LenProperties
  <2>2. CASE i = n + 1
    BY <1>4, <2>2
  <2>3. CASE i \in 1 .. n
    <3>1. st[i] = IF i = n THEN g ELSE stack[i]
      BY <1>3, <1>4, <2>3
    <3>2. i \in DOMAIN stack
      BY <1>1, <2>3, LenProperties
    <3> QED  BY <3>1, <3>2 DEF FramesInv
  <2> QED  BY <1>1, <2>1, <2>2, <2>3
<1> QED  BY <1>1, <1>3, <1>4, <1>5

(* An iterator is moved: what becomes of the frame, and of the target.       *)
LEMMA AdvanceMoves ==
  ASSUME DispatchInv, NEW it, advance(it)
  PROVE  /\ stack # <<>> /\ Busy /\ left = {} /\ Top.route.callbacks # 1
         /\ it.steps \in Nat /\ Top.due <= it.steps /\ cut' = it.steps + 1
         /\ target' = PieceOf(whole, it.steps + 2)
         /\ target' \in Seq(Pieces) /\ Len(target') = 1
         /\ \E g \in Frames :
              /\ stack' = [stack EXCEPT ![Len(stack)] = g] /\ FrameInv(whole, executed, g)
              /\ g.route = Top.route /\ g.at = Top.at /\ g.due = Top.due
              /\ g.cut = Top.cut /\ g.calls = Top.calls
<1>1. stack # <<>> /\ ~IsLast(Top) /\ it \in Top.its
  BY DEF advance, Held
<1>2. PICK f : f = Top
  OBVIOUS
<1>3. /\ Busy /\ f \in Frames /\ FrameInv(whole, executed, f)
      /\ f.route \in routes /\ f.route.callbacks \in Nat \ {0}
      /\ f.route.callbacks # 1 /\ left = {} /\ Stands(whole, it, f.route) /\ f.due <= it.steps
  BY <1>1, <1>2, TopTypes
<1>4. whole \in Seq(Pieces) /\ whole # <<>>
  BY <1>3, WholeTypes DEF DispatchInv
<1>5. PICK to : to = plus_plus(it, f.route)
  OBVIOUS
<1>6. /\ Stands(whole, to, f.route) /\ to.steps = it.steps + 1
      /\ skipped(it.rest) = PieceOf(whole, it.steps + 2) /\ skipped(it.rest) \in Seq(Pieces)
      /\ Len(skipped(it.rest)) = 1
  BY <1>3, <1>4, <1>5, PlusPlus
<1>7. it.steps \in Nat /\ f.due \in Nat
  BY <1>3 DEF Frames, Stands, Its
<1>8. PICK g : g = [f EXCEPT !.its = @ \cup {to}]
  OBVIOUS
<1>9. to \in Its /\ f.due <= to.steps
  BY <1>3, <1>6, <1>7 DEF Stands
<1>10. /\ g \in Frames /\ g.route = f.route /\ g.at = f.at /\ g.due = f.due
       /\ g.its = f.its \cup {to} /\ g.seen = f.seen /\ g.cut = f.cut /\ g.calls = f.calls
  BY <1>3, <1>8, <1>9 DEF Frames
<1>11. FrameInv(whole, executed, g)
  BY <1>3, <1>6, <1>9, <1>10 DEF FrameInv
<1>12. stack' = [stack EXCEPT ![Len(stack)] = g]
  <2>1. stack' = [stack EXCEPT ![Len(stack)].its = @ \cup {to}]
    BY <1>2, <1>5 DEF advance
  <2>2. stack[Len(stack)] = f
    BY <1>2 DEF Top
  <2> QED  BY <1>8, <2>1, <2>2
<1>13. target' = skipped(it.rest) /\ cut' = it.steps + 1
  BY DEF advance
<1> QED  BY <1>1, <1>2, <1>3, <1>6, <1>7, <1>10, <1>11, <1>12, <1>13

(* An iterator is called: what becomes of the calling frame (g), and the one *)
(* that is pushed (h).                                                     *)
LEMMA CallPushes ==
  ASSUME DispatchInv, NEW it, call(it)
  PROVE  /\ stack # <<>> /\ Busy /\ left = {} /\ Top.route.callbacks # 1 /\ ~IsLast(Top)
         /\ \E g, h \in Frames :
              /\ stack' = Append([stack EXCEPT ![Len(stack)] = g], h)
              /\ FrameInv(whole, executed, g) /\ FrameInv(whole, executed, h)
              /\ g.route = Top.route /\ g.calls = Top.calls + 1 /\ g.due = Top.due
              /\ g.cut = Top.cut
              /\ h.route = Top.route /\ h.calls = 0 /\ h.due >= Top.due /\ h.cut = cut
<1>1. stack # <<>> /\ ~IsLast(Top) /\ it \in Top.its /\ Top.calls < MaxCalls
  BY DEF call, Held
<1>2. PICK f : f = Top
  OBVIOUS
<1>3. /\ Busy /\ f \in Frames /\ FrameInv(whole, executed, f)
      /\ f.route \in routes /\ f.route.callbacks \in Nat \ {0}
      /\ f.route.callbacks # 1 /\ left = {} /\ Stands(whole, it, f.route) /\ f.due <= it.steps
  BY <1>1, <1>2, TopTypes
<1>4. f.due \in Nat /\ f.calls \in Nat /\ f.calls < MaxCalls /\ f.route \in executed
  BY <1>1, <1>2, <1>3 DEF Frames, FrameInv
<1>5. PICK h : h = Frame(f.route, it, target, cut)
  OBVIOUS
<1>6. /\ h.route = f.route /\ h.at = it.pos /\ h.due = it.steps /\ h.its = {it}
      /\ h.seen = target /\ h.cut = cut /\ h.calls = 0
  BY <1>5 DEF Frame
<1>7. /\ it \in Its /\ it.pos \in Nat /\ it.steps \in Nat
      /\ it.pos = Least(it.steps, f.route.callbacks - 1)
  BY <1>3 DEF Stands, Its
<1>8. target \in Seq(Pieces) /\ cut \in Nat
  BY DEF DispatchInv, TypeInv
<1>9. h \in Frames
  BY <1>3, <1>5, <1>7, <1>8 DEF Frame, Frames
<1>10. target = PieceOf(whole, cut + 1)
  <2>1. Len(stack) \in DOMAIN stack /\ stack[Len(stack)] = f
    BY <1>1, <1>2, TopTypes DEF Top
  <2> QED  BY <1>3, <2>1 DEF DispatchInv, MovesInv
<1>11. FrameInv(whole, executed, h)
  <2>1. 0 <= MaxCalls /\ h.due <= it.steps
    BY <1>6, <1>7, MaxCallsAssumption
  <2> QED  BY <1>3, <1>4, <1>6, <1>7, <1>10, <2>1 DEF FrameInv
<1>12. PICK g : g = [f EXCEPT !.calls = @ + 1]
  OBVIOUS
<1>13. f.calls + 1 <= MaxCalls /\ f.calls + 1 \in Nat
  BY <1>4, MaxCallsAssumption
<1>14. /\ g \in Frames /\ g.route = f.route /\ g.at = f.at /\ g.due = f.due
       /\ g.its = f.its /\ g.seen = f.seen /\ g.cut = f.cut /\ g.calls = f.calls + 1
  BY <1>3, <1>12, <1>13 DEF Frames
<1>15. FrameInv(whole, executed, g)
  BY <1>3, <1>13, <1>14 DEF FrameInv
<1>16. stack' = Append([stack EXCEPT ![Len(stack)] = g], h)
  <2>1. stack' = Append([stack EXCEPT ![Len(stack)].calls = @ + 1], h)
    BY <1>2, <1>5 DEF call
  <2>2. stack[Len(stack)] = f
    BY <1>2 DEF Top
  <2> QED  BY <1>12, <2>1, <2>2
<1>17. h.due >= f.due
  BY <1>3, <1>4, <1>6, <1>7
<1> QED  BY <1>1, <1>2, <1>3, <1>6, <1>9, <1>11, <1>14, <1>15, <1>16, <1>17

(* The running callback's frame is replaced.                                *)
LEMMA FramesReplaced ==
  ASSUME stack \in Seq(Frames), stack # <<>>, FramesInv,
         NEW g \in Frames, FrameInv(whole, executed, g),
         NEW st, st = [stack EXCEPT ![Len(stack)] = g]
  PROVE  /\ st \in Seq(Frames) /\ Len(st) = Len(stack) /\ DOMAIN st = DOMAIN stack
         /\ \A i \in DOMAIN stack : st[i] = IF i = Len(stack) THEN g ELSE stack[i]
         /\ \A i \in DOMAIN st : FrameInv(whole, executed, st[i])
<1>1. /\ st \in Seq(Frames) /\ Len(st) = Len(stack) /\ DOMAIN st = DOMAIN stack
      /\ \A i \in DOMAIN stack : st[i] = IF i = Len(stack) THEN g ELSE stack[i]
  BY EmptySeq
<1> QED  BY <1>1 DEF FramesInv

(* Moving an iterator keeps the invariant: a chain moves it, so no other    *)
(* route is left that would be matched with the target it cuts.             *)
LEMMA AdvanceKeepsInv ==
  ASSUME DispatchInv, NEW it, advance(it)
  PROVE  DispatchInv'
<1>1. /\ stack # <<>> /\ Busy /\ left = {} /\ Top.route.callbacks # 1
      /\ it.steps \in Nat /\ Top.due <= it.steps /\ cut' = it.steps + 1
      /\ target' = PieceOf(whole, it.steps + 2)
      /\ target' \in Seq(Pieces) /\ Len(target') = 1
  BY AdvanceMoves
<1>2. PICK g \in Frames :
        /\ stack' = [stack EXCEPT ![Len(stack)] = g] /\ FrameInv(whole, executed, g)
        /\ g.route = Top.route /\ g.due = Top.due /\ g.cut = Top.cut
  BY AdvanceMoves
<1>3. view' = FALSE /\ UNCHANGED <<routes, phase, whole, left, invoked, executed>>
  BY DEF advance
<1>4. /\ stack' \in Seq(Frames) /\ Len(stack') = Len(stack) /\ DOMAIN stack' = DOMAIN stack
      /\ \A i \in DOMAIN stack : stack'[i] = IF i = Len(stack) THEN g ELSE stack[i]
      /\ \A i \in DOMAIN stack' : FrameInv(whole, executed, stack'[i])
  <2>1. stack \in Seq(Frames) /\ FramesInv
    BY DEF DispatchInv, TypeInv
  <2> QED  BY <1>1, <1>2, <2>1, FramesReplaced
<1>5. TypeInv'
  <2>1. Len(whole) \in Nat \ {0}
    BY <1>1, WholeTypes DEF DispatchInv
  <2>2. target' \in Seq(Pieces) /\ Len(target') <= Len(whole') /\ cut' \in Nat
    <3>1. PICK n : n = it.steps
      OBVIOUS
    <3>2. n \in Nat /\ cut' = n + 1 /\ Len(target') = 1 /\ target' \in Seq(Pieces)
      BY <1>1, <3>1
    <3>3. Len(whole') = Len(whole)
      BY <1>3
    <3> QED  BY <2>1, <3>2, <3>3
  <2> QED  BY <1>1, <1>3, <1>4, <2>2 DEF DispatchInv, TypeInv, Busy
<1>6. FramesInv'
  BY <1>3, <1>4 DEF FramesInv
<1>7. MovesInv'
  <2>1. ASSUME NEW i \in DOMAIN stack
        PROVE  /\ stack'[i].route = stack[i].route /\ stack'[i].due = stack[i].due
               /\ stack'[i].cut = stack[i].cut
    BY <1>2, <1>4 DEF Top
  <2>2. ASSUME NEW i \in DOMAIN stack
        PROVE  stack[i].due <= Top.due /\ stack[i].due \in Nat /\ Top.due \in Nat
    <3>1. stack \in Seq(Frames) /\ Len(stack) \in DOMAIN stack
      BY <1>1, TopTypes DEF DispatchInv, TypeInv
    <3>2. stack[i] \in Frames /\ Top \in Frames /\ i \in 1 .. Len(stack)
      BY <3>1, LenProperties, ElementOfSeq DEF Top
    <3>3. stack[i].due \in Nat /\ Top.due \in Nat
      BY <3>2 DEF Frames
    <3>4. i = Len(stack) \/ i < Len(stack)
      BY <3>1, <3>2, LenProperties
    <3> QED  BY <3>1, <3>3, <3>4 DEF DispatchInv, MovesInv, Top
  <2>3. target' = PieceOf(whole', cut' + 1)
    <3>1. it.steps + 1 + 1 = it.steps + 2
      BY <1>1
    <3> QED  BY <1>1, <1>3, <3>1
  <2>4. ASSUME NEW i \in DOMAIN stack
        PROVE  stack[i].due <= cut'
    <3>1. stack[i].due <= Top.due /\ stack[i].due \in Nat /\ Top.due \in Nat
      BY <2>2
    <3> QED  BY <1>1, <3>1
  <2> QED  BY <1>4, <2>1, <2>3, <2>4 DEF DispatchInv, MovesInv, Own
<1>8. ProvideInv'
  <2>1. Top.route \in executed
    BY <1>1, TopTypes DEF FrameInv
  <2>2. phase = "method" => invoked
    BY <1>1, <2>1 DEF DispatchInv, ProvideInv
  <2> QED  BY <1>1, <1>3, <2>2 DEF DispatchInv, ProvideInv, Busy, Map, Of
<1> QED  BY <1>5, <1>6, <1>7, <1>8 DEF DispatchInv

(* A call keeps it: the callback is handed the target as it is, which is    *)
(* that of the iterator moved last.                                        *)
LEMMA CallKeepsInv ==
  ASSUME DispatchInv, NEW it, call(it)
  PROVE  DispatchInv'
<1>1. stack # <<>> /\ Busy /\ left = {} /\ Top.route.callbacks # 1
  BY CallPushes
<1>2. PICK g, h \in Frames :
        /\ stack' = Append([stack EXCEPT ![Len(stack)] = g], h)
        /\ FrameInv(whole, executed, g) /\ FrameInv(whole, executed, h)
        /\ g.route = Top.route /\ g.due = Top.due /\ g.cut = Top.cut
        /\ h.route = Top.route /\ h.due >= Top.due /\ h.cut = cut
  BY CallPushes
<1>3. UNCHANGED <<routes, phase, whole, target, view, cut, left, invoked, executed>>
  BY DEF call, request_vars
<1>4. PICK m \in Nat \ {0} : m = Len(stack) /\ DOMAIN stack = 1 .. m
  <2>1. stack \in Seq(Frames)
    BY DEF DispatchInv, TypeInv
  <2> QED  BY <1>1, <2>1, EmptySeq, LenProperties
<1>5. /\ stack' \in Seq(Frames) /\ Len(stack') = m + 1 /\ stack'[m + 1] = h
      /\ DOMAIN stack' = 1 .. m + 1
      /\ \A i \in 1 .. m : stack'[i] = IF i = m THEN g ELSE stack[i]
      /\ \A i \in DOMAIN stack' : FrameInv(whole, executed, stack'[i])
  <2>1. stack \in Seq(Frames) /\ FramesInv
    BY DEF DispatchInv, TypeInv
  <2> QED  BY <1>1, <1>2, <1>4, <2>1, FramesPushed, LenProperties
<1>6. TypeInv'
  BY <1>1, <1>3, <1>5 DEF DispatchInv, TypeInv, Busy
<1>7. FramesInv'
  BY <1>3, <1>5 DEF FramesInv
<1>8. MovesInv'
  <2>1. ASSUME NEW i \in 1 .. m
        PROVE  /\ stack'[i].route = stack[i].route /\ stack'[i].due = stack[i].due
               /\ stack'[i].cut = stack[i].cut
    BY <1>2, <1>4, <1>5 DEF Top
  <2>2. ASSUME NEW i \in 1 .. m
        PROVE  stack[i].due <= h.due
    <3>1. stack \in Seq(Frames) /\ m \in DOMAIN stack /\ Top = stack[m]
      BY <1>4 DEF DispatchInv, TypeInv, Top
    <3>2. stack[i] \in Frames /\ Top \in Frames
      BY <1>4, <3>1, ElementOfSeq
    <3>3. stack[i].due \in Nat /\ Top.due \in Nat /\ h.due \in Nat
      BY <3>2 DEF Frames
    <3>4. i = m \/ i < m
      OBVIOUS
    <3>5. stack[i].due <= Top.due
      BY <1>4, <3>1, <3>3, <3>4 DEF DispatchInv, MovesInv
    <3> QED  BY <1>2, <3>3, <3>5
  <2>3. target' = PieceOf(whole', cut' + 1)
    <3>1. m \in DOMAIN stack /\ Top = stack[m]
      BY <1>4 DEF Top
    <3> QED  BY <1>1, <1>3, <3>1 DEF DispatchInv, MovesInv
  <2>4. ASSUME NEW i \in 1 .. m + 1
        PROVE  Own(stack'[i]) => stack'[i].due <= cut'
    <3>1. CASE i = m + 1
      <4>1. h.due \in Nat
        BY DEF Frames
      <4> QED  BY <1>2, <1>3, <1>5, <3>1, <4>1 DEF Own
    <3>2. CASE i \in 1 .. m
      BY <1>3, <1>4, <2>1, <3>2 DEF DispatchInv, MovesInv, Own
    <3> QED  BY <3>1, <3>2
  <2>5. ASSUME NEW i \in 1 .. m + 1, NEW j \in 1 .. m + 1, i < j
        PROVE  /\ stack'[i].due <= stack'[j].due
               /\ Own(stack'[i]) => stack'[i].due <= stack'[j].cut
    <3>1. i \in 1 .. m
      BY <2>5
    <3>2. CASE j = m + 1
      <4>1. stack'[i].due <= stack'[j].due
        BY <1>5, <2>1, <2>2, <3>1, <3>2
      <4>2. stack'[j].cut = cut'
        BY <1>2, <1>3, <1>5, <3>2
      <4> QED  BY <2>4, <4>1, <4>2
    <3>3. CASE j \in 1 .. m
      BY <1>4, <2>1, <2>5, <3>1, <3>3 DEF DispatchInv, MovesInv, Own
    <3> QED  BY <3>2, <3>3
  <2> QED  BY <1>5, <2>3, <2>4, <2>5 DEF MovesInv
<1>9. ProvideInv'
  BY <1>1, <1>3 DEF DispatchInv, ProvideInv, Busy, Map, Of
<1> QED  BY <1>6, <1>7, <1>8, <1>9 DEF DispatchInv

(* A route is executed.                                                    *)
LEMMA MatchKeepsInv ==
  ASSUME DispatchInv, SoleChains, NEW e \in left, provide_match(e)
  PROVE  DispatchInv'
<1>1. /\ Busy /\ left \subseteq Map /\ target = whole /\ view
      /\ executed = {d \in Map \ left : match(d.regex, whole)}
      /\ phase = "method" => (invoked <=> executed # {})
      /\ phase = "all" => \A d \in Of(TRUE) : ~match(d.regex, whole)
      /\ \A d \in executed : d.callbacks = 1
  <2>1. Busy
    BY DEF DispatchInv, TypeInv
  <2>2. ASSUME NEW d \in executed
        PROVE  d.callbacks = 1
    <3>1. ~(d.callbacks > 1)
      BY <2>1 DEF DispatchInv, ProvideInv
    <3>2. d.callbacks \in Nat \ {0}
      BY RouteTypes DEF DispatchInv, TypeInv
    <3> QED  BY <3>1, <3>2
  <2> QED  BY <2>1, <2>2 DEF DispatchInv, ProvideInv
<1>2. e \in Map /\ e \in routes /\ match(e.regex, whole) /\ e.callbacks \in Nat \ {0}
  <2>1. e \in Map /\ e \in routes
    BY <1>1 DEF Map, Of
  <2>2. match(e.regex, whole)
    BY <1>1 DEF provide_match, Matches
  <2> QED  BY <2>1, <2>2, RouteTypes DEF DispatchInv
<1>3. /\ stack = <<>> /\ left' = left \ {e} /\ executed' = executed \cup {e}
      /\ routes' = routes /\ phase' = phase /\ whole' = whole
      /\ invoked' = (invoked \/ phase = "method")
  BY DEF provide_match
<1>4. ASSUME e.callbacks > 1
      PROVE  left' = {}
  <2>1. routes \in RouteSets
    BY DEF DispatchInv, TypeInv
  <2>2. ASSUME NEW d \in left
        PROVE  d = e
    <3>1. d \in routes /\ d.has_method = e.has_method
      BY <1>1, <1>2 DEF Map, Of
    <3> QED  BY <1>2, <1>4, <2>1, <3>1 DEF SoleChains
  <2> QED  BY <1>3, <2>2
<1>5. whole \in Seq(Pieces) /\ whole # <<>> /\ Len(whole) \in Nat \ {0}
  BY <1>1, WholeTypes DEF DispatchInv
<1>6. PICK h : h = IF e.callbacks > 1
                   THEN Frame(e, Iterator(0, remaining(whole), 0), skipped(whole), 0)
                   ELSE Frame(e, Iterator(0, whole, 0), whole, 0)
  OBVIOUS
<1>7. /\ stack' = <<h>> /\ (e.callbacks > 1 \/ (target' = target /\ view' = view /\ cut' = cut))
      /\ (e.callbacks > 1 => target' = skipped(whole) /\ view' = FALSE /\ cut' = 0)
  <2>1. begin_exec(e)
    BY DEF provide_match
  <2> QED  BY <1>1, <1>6, <2>1 DEF begin_exec
<1>8. e \in Route
  BY <1>2, RouteTypes DEF DispatchInv
<1>9. h \in Frames /\ FrameInv(whole, executed', h)
  <2>1. e \in executed' /\ 0 <= MaxCalls
    BY <1>3, MaxCallsAssumption
  <2>2. CASE e.callbacks > 1
    <3>1. /\ skipped(whole) = PieceOf(whole, 1) /\ skipped(whole) \in Seq(Pieces)
          /\ remaining(whole) = Rest(whole, 0)
      BY <1>5, FirstCut
    <3>2. Rest(whole, 0) \in Seq(Pieces)
      BY <1>5, NextCut, 0 \in Nat
    <3>3. h = Frame(e, Iterator(0, remaining(whole), 0), skipped(whole), 0)
      BY <1>6, <2>2
    <3>4. /\ h.route = e /\ h.at = 0 /\ h.due = 0 /\ h.calls = 0 /\ h.seen = skipped(whole)
          /\ h.cut = 0 /\ h.its = {[pos |-> 0, rest |-> Rest(whole, 0), steps |-> 0]}
      BY <3>1, <3>3 DEF Frame, Iterator
    <3>5. h.its \subseteq Its /\ h \in Frames
      BY <1>8, <3>1, <3>2, <3>3, <3>4 DEF Frame, Iterator, Frames, Its
    <3>6. Least(0, e.callbacks - 1) = 0
      BY <1>2, <2>2 DEF Least
    <3>7. \A it \in h.its : Stands(whole, it, e) /\ h.due <= it.steps
      BY <3>4, <3>5, <3>6 DEF Stands
    <3> QED  BY <2>1, <2>2, <3>1, <3>4, <3>5, <3>6, <3>7 DEF FrameInv
  <2>3. CASE e.callbacks = 1
    <3>1. h = Frame(e, Iterator(0, whole, 0), whole, 0)
      BY <1>6, <2>3
    <3>2. /\ h.route = e /\ h.at = 0 /\ h.due = 0 /\ h.calls = 0 /\ h.seen = whole
          /\ h.cut = 0 /\ h.its = {[pos |-> 0, rest |-> whole, steps |-> 0]}
      BY <3>1 DEF Frame, Iterator
    <3>3. h.its \subseteq Its /\ h \in Frames
      BY <1>5, <1>8, <3>1, <3>2 DEF Frame, Iterator, Frames, Its
    <3> QED  BY <1>5, <2>1, <2>3, <3>2, <3>3 DEF FrameInv
  <2> QED  BY <1>2, <2>2, <2>3
<1>10. TypeInv'
  <2>1. target' \in Seq(Pieces) /\ Len(target') <= Len(whole')
    <3>1. CASE e.callbacks > 1
      <4>1. skipped(whole) \in Seq(Pieces) /\ Len(skipped(whole)) = 1
        BY <1>5, FirstCut
      <4>2. target' = skipped(whole)
        BY <1>7, <3>1
      <4> QED  BY <1>3, <1>5, <4>1, <4>2
    <3>2. CASE ~(e.callbacks > 1)
      <4>1. target' = whole
        BY <1>1, <1>7, <3>2
      <4> QED  BY <1>3, <1>5, <4>1
    <3> QED  BY <3>1, <3>2
  <2>2. view' \in BOOLEAN /\ cut' \in Nat
    <3>1. view \in BOOLEAN /\ cut \in Nat /\ 0 \in Nat
      BY DEF DispatchInv, TypeInv
    <3>2. CASE e.callbacks > 1
      BY <1>7, <3>1, <3>2
    <3>3. CASE ~(e.callbacks > 1)
      BY <1>7, <3>1, <3>3
    <3> QED  BY <3>2, <3>3
  <2>3. stack' \in Seq(Frames)
    BY <1>7, <1>9
  <2>4. invoked' \in BOOLEAN
    BY <1>3 DEF DispatchInv, TypeInv
  <2>5. left' \subseteq routes' /\ executed' \subseteq routes'
    BY <1>2, <1>3 DEF DispatchInv, TypeInv
  <2>6. Busy' /\ whole' \in Targets
    BY <1>1, <1>3 DEF DispatchInv, TypeInv, Busy
  <2> QED  BY <1>3, <2>1, <2>2, <2>3, <2>4, <2>5, <2>6 DEF DispatchInv, TypeInv, Busy
<1>11. FramesInv'
  <2>1. DOMAIN stack' = {1} /\ stack'[1] = h
    BY <1>7
  <2> QED  BY <1>3, <1>9, <2>1 DEF FramesInv
<1>12. ProvideInv'
  <2>1. Map' = Map /\ Of(TRUE)' = Of(TRUE) /\ Busy' = Busy
    BY <1>3 DEF Map, Of, Busy
  <2>2. left' \subseteq Map
    BY <1>1, <1>3
  <2>3. phase = "method" => invoked'
    BY <1>3
  <2>4. left' # {} \/ (phase' = "method" /\ ~invoked') => target' = whole' /\ view'
    BY <1>1, <1>2, <1>3, <1>4, <1>7, <2>3
  <2>5. executed' = {d \in Map \ left' : match(d.regex, whole)}
    BY <1>1, <1>2, <1>3
  <2>6. ASSUME NEW d \in executed', d.callbacks > 1
        PROVE  left' = {}
    <3>1. ASSUME d \in executed
          PROVE  FALSE
      <4>1. d.callbacks = 1
        BY <1>1, <3>1
      <4> QED  BY <2>6, <4>1
    <3> QED  BY <1>3, <1>4, <2>6, <3>1
  <2>7. phase' = "method" => (invoked' <=> executed' # {})
    BY <1>3, <2>3
  <2> QED  BY <1>1, <1>3, <2>1, <2>2, <2>4, <2>5, <2>6, <2>7 DEF ProvideInv
<1>13. MovesInv'
  <2>1. DOMAIN stack' = {1} /\ stack'[1] = h
    BY <1>7
  <2>2. h.due = 0 /\ h.route = e
    BY <1>6 DEF Frame, Iterator
  <2>3. cut' \in Nat
    BY <1>10 DEF TypeInv
  <2>4. e.callbacks # 1 => target' = PieceOf(whole', cut' + 1)
    <3> SUFFICES ASSUME e.callbacks # 1
                 PROVE  target' = PieceOf(whole', cut' + 1)
      OBVIOUS
    <3>1. e.callbacks > 1 /\ 0 + 1 = 1
      BY <1>2
    <3> QED  BY <1>3, <1>5, <1>7, <3>1, FirstCut
  <2> QED  BY <2>1, <2>2, <2>3, <2>4 DEF MovesInv
<1> QED  BY <1>10, <1>11, <1>12, <1>13 DEF DispatchInv

(* provide() is called: nothing is executed yet, and its view is valid.     *)
LEMMA ProvideKeepsInv ==
  ASSUME DispatchInv, NEW x \in Targets, provide(x)
  PROVE  DispatchInv'
<1>1. phase = "idle" /\ stack = <<>> /\ left = {}
  BY DEF provide, DispatchInv, TypeInv, Busy
<1>2. /\ phase' = "method" /\ whole' = x /\ target' = x /\ view' = TRUE /\ cut' = 0
      /\ left' = Of(TRUE) /\ invoked' = FALSE /\ executed' = {}
      /\ routes' = routes /\ stack' = stack
  BY DEF provide
<1>3. Map' = Of(TRUE) /\ Of(TRUE)' = Of(TRUE)
  BY <1>2 DEF Map, Of
<1>4. x \in Seq(Pieces)
  BY TargetsAssumption
<1>5. TypeInv'
  <2>1. Len(x) <= Len(x)
    BY <1>4
  <2>2. Of(TRUE) \subseteq routes
    BY DEF Of
  <2>3. Busy'
    BY <1>2 DEF Busy
  <2> QED  BY <1>1, <1>2, <1>4, <2>1, <2>2, <2>3 DEF DispatchInv, TypeInv
<1>6. FramesInv' /\ MovesInv'
  BY <1>1, <1>2 DEF FramesInv, MovesInv
<1>7. ProvideInv'
  BY <1>2, <1>3 DEF ProvideInv
<1> QED  BY <1>5, <1>6, <1>7 DEF DispatchInv

(* A route that does not match is passed over.                           *)
LEMMA MismatchKeepsInv ==
  ASSUME DispatchInv, NEW e \in left, provide_mismatch(e)
  PROVE  DispatchInv'
<1>1. /\ left' = left \ {e} /\ stack = <<>> /\ FALSE \in Matches(e)
      /\ UNCHANGED <<routes, phase, whole, target, view, cut, invoked, stack, executed>>
  BY DEF provide_mismatch, request_vars
<1>2. Busy
  BY DEF DispatchInv, TypeInv
<1>3. ~match(e.regex, whole)
  BY <1>1, <1>2 DEF DispatchInv, ProvideInv, Matches
<1>4. TypeInv'
  BY <1>1, <1>2 DEF DispatchInv, TypeInv, Busy
<1>5. FramesInv' /\ MovesInv'
  BY <1>1 DEF DispatchInv, FramesInv, MovesInv
<1>6. ProvideInv'
  <2>1. Map' = Map /\ Of(TRUE)' = Of(TRUE) /\ Busy' = Busy
    BY <1>1 DEF Map, Of, Busy
  <2> QED  BY <1>1, <1>2, <1>3, <2>1 DEF DispatchInv, ProvideInv
<1> QED  BY <1>4, <1>5, <1>6 DEF DispatchInv

(* No route of the method matched: provide() goes on to those without one. *)
LEMMA AllKeepsInv ==
  ASSUME DispatchInv, provide_all
  PROVE  DispatchInv'
<1>1. /\ phase = "method" /\ left = {} /\ stack = <<>> /\ ~invoked
      /\ phase' = "all" /\ left' = Of(FALSE)
      /\ UNCHANGED <<routes, whole, target, view, cut, invoked, stack, executed>>
  BY DEF provide_all, request_vars
<1>2. Busy /\ Busy'
  BY <1>1 DEF Busy
<1>3. Map = Of(TRUE) /\ Map' = Of(FALSE) /\ Of(TRUE)' = Of(TRUE)
  BY <1>1 DEF Map, Of
<1>4. executed = {} /\ target = whole /\ view
  BY <1>1, <1>2 DEF DispatchInv, ProvideInv
<1>5. \A d \in Of(TRUE) : ~match(d.regex, whole)
  BY <1>1, <1>2, <1>3, <1>4 DEF DispatchInv, ProvideInv
<1>6. TypeInv'
  <2>1. Of(FALSE) \subseteq routes
    BY DEF Of
  <2> QED  BY <1>1, <1>2, <2>1 DEF DispatchInv, TypeInv
<1>7. FramesInv' /\ MovesInv'
  BY <1>1 DEF DispatchInv, FramesInv, MovesInv
<1>8. ProvideInv'
  BY <1>1, <1>3, <1>4, <1>5 DEF ProvideInv
<1> QED  BY <1>6, <1>7, <1>8 DEF DispatchInv

(* provide() ends, by itself or by an exception.                         *)
LEMMA EndKeepsInv ==
  ASSUME DispatchInv,
         phase' \in {"idle", "terminated"}, left' = {}, stack' = <<>>,
         UNCHANGED <<routes, whole, target, view, cut, invoked, executed>>
  PROVE  DispatchInv'
<1>1. ~Busy'
  BY DEF Busy
<1>2. TypeInv'
  BY <1>1, EmptySeq DEF DispatchInv, TypeInv
<1>3. FramesInv' /\ MovesInv'
  BY DEF FramesInv, MovesInv
<1> QED  BY <1>1, <1>2, <1>3 DEF DispatchInv, ProvideInv

(* A callback returns to the one that called it.                         *)
LEMMA ReturnKeepsInv ==
  ASSUME DispatchInv, callback_return
  PROVE  DispatchInv'
<1>1. /\ stack # <<>> /\ stack' = SubSeq(stack, 1, Len(stack) - 1)
      /\ UNCHANGED <<routes, phase, whole, target, view, cut, left, invoked, executed>>
  BY DEF callback_return, request_vars
<1>2. stack \in Seq(Frames) /\ Busy
  BY <1>1 DEF DispatchInv, TypeInv
<1>3. PICK n \in Nat : Len(stack) = n + 1
  <2>1. Len(stack) \in Nat \ {0}
    BY <1>1, <1>2, EmptySeq
  <2> QED  BY <2>1, Len(stack) - 1 \in Nat
<1>4. /\ stack' \in Seq(Frames) /\ Len(stack') = n
      /\ \A i \in 1 .. n : stack'[i] = stack[i]
  BY <1>1, <1>2, <1>3
<1>5. TypeInv'
  BY <1>1, <1>2, <1>4 DEF DispatchInv, TypeInv, Busy
<1>6. FramesInv' /\ MovesInv'
  <2>1. DOMAIN stack' = 1 .. n /\ 1 .. n \subseteq DOMAIN stack
    BY <1>2, <1>3, <1>4, LenProperties
  <2> QED  BY <1>1, <1>4, <2>1 DEF DispatchInv, FramesInv, MovesInv
<1>7. ProvideInv'
  BY <1>1 DEF DispatchInv, ProvideInv, Busy, Map, Of
<1> QED  BY <1>5, <1>6, <1>7 DEF DispatchInv

(* Routes are registered between requests.                               *)
LEMMA RegisterKeepsInv ==
  ASSUME DispatchInv, Registering,
         routes' \in RouteSets, routes \subseteq routes',
         UNCHANGED <<phase, request_vars, left, invoked, stack, executed>>
  PROVE  DispatchInv'
<1>1. phase = "idle" /\ ~Busy /\ ~Busy'
  BY DEF Registering, Busy
<1>2. TypeInv'
  BY <1>1 DEF DispatchInv, TypeInv, request_vars
<1>3. FramesInv' /\ MovesInv' /\ ProvideInv'
  BY <1>1 DEF DispatchInv, FramesInv, MovesInv, ProvideInv, request_vars
<1> QED  BY <1>2, <1>3 DEF DispatchInv

(* What a step may do to the variables of Dispatch.                         *)
DispatchStep ==
  \/ UNCHANGED vars
  \/ /\ Registering /\ routes' \in RouteSets /\ routes \subseteq routes'
     /\ UNCHANGED <<phase, request_vars, left, invoked, stack, executed>>
  \/ \E x \in Targets : provide(x)
  \/ \E e \in left : provide_mismatch(e)
  \/ provide_all
  \/ provide_return
  \/ \E e \in left : provide_match(e)
  \/ \E it \in Held : advance(it) \/ call(it)
  \/ callback_return
  \/ /\ stack' = <<>> /\ left' = {} /\ phase' = IF Catches THEN "idle" ELSE "terminated"
     /\ UNCHANGED <<routes, request_vars, invoked, executed>>

(* Every step of Param is one of these on the variables of Dispatch.     *)
LEMMA NextIsDispatchStep ==
  ASSUME [ParamNext]_param_vars
  PROVE  DispatchStep
<1>1. CASE UNCHANGED param_vars
  BY <1>1 DEF param_vars, DispatchStep
<1>2. CASE \E e \in AllRoutes : param_verb(e) \/ param_route(e.name) \/ node_verb(e)
  <2>1. PICK e \in AllRoutes : param_verb(e) \/ param_route(e.name) \/ node_verb(e)
    BY <1>2
  <2>2. CASE param_verb(e)
    BY <2>2 DEF param_verb, Added, DispatchStep
  <2>3. CASE param_route(e.name)
    BY <2>3 DEF param_route, DispatchStep
  <2>4. CASE node_verb(e)
    BY <2>4 DEF node_verb, Added, DispatchStep
  <2> QED  BY <2>1, <2>2, <2>3, <2>4
<1>3. CASE \E x \in Targets : param_provide(x)
  BY <1>3 DEF param_provide, DispatchStep
<1>4. CASE param_skip
  BY <1>4 DEF param_skip, DispatchStep
<1>5. CASE \E e \in left : param_begin(e)
  BY <1>5 DEF param_begin, DispatchStep
<1>6. CASE \E it \in Held : param_advance(it) \/ param_call(it)
  BY <1>6 DEF param_advance, param_call, DispatchStep
<1>7. CASE param_return
  BY <1>7 DEF param_return, DispatchStep
<1>8. CASE unwind
  BY <1>8 DEF unwind, DispatchStep
<1> QED  BY <1>1, <1>2, <1>3, <1>4, <1>5, <1>6, <1>7, <1>8 DEF ParamNext

(* The invariant holds before any request.                               *)
LEMMA DispatchInvInit ==
  ASSUME ParamInit
  PROVE  DispatchInv
<1>1. /\ routes \in RouteSets /\ phase = "idle" /\ whole = <<>> /\ target = <<>> /\ view = TRUE /\ cut = 0
      /\ left = {} /\ invoked = FALSE /\ stack = <<>> /\ executed = {}
  BY DEF ParamInit, Init
<1>2. ~Busy
  BY <1>1 DEF Busy
<1>3. /\ <<>> \in Seq(Pieces) /\ <<>> \in Seq(Frames) /\ Len(<<>>) <= Len(<<>>)
      /\ DOMAIN <<>> = {}
  OBVIOUS
<1>4. TypeInv
  BY <1>1, <1>2, <1>3 DEF TypeInv
<1>5. FramesInv /\ MovesInv
  BY <1>1, <1>3 DEF FramesInv, MovesInv
<1> QED  BY <1>2, <1>4, <1>5 DEF DispatchInv, ProvideInv

(* The invariant is inductive.                                           *)
LEMMA DispatchInvKept ==
  ASSUME DispatchInv, SoleChains, DispatchStep
  PROVE  DispatchInv'
<1>1. CASE UNCHANGED vars
  BY <1>1 DEF vars, request_vars, DispatchInv, TypeInv, FramesInv, MovesInv, ProvideInv, Busy, Map, Of
<1>2. CASE /\ Registering /\ routes' \in RouteSets /\ routes \subseteq routes'
           /\ UNCHANGED <<phase, request_vars, left, invoked, stack, executed>>
  BY <1>2, RegisterKeepsInv
<1>3. CASE \E x \in Targets : provide(x)
  BY <1>3, ProvideKeepsInv
<1>4. CASE \E e \in left : provide_mismatch(e)
  BY <1>4, MismatchKeepsInv
<1>5. CASE provide_all
  BY <1>5, AllKeepsInv
<1>6. CASE provide_return
  <2>1. /\ stack = <<>> /\ left = {} /\ phase' = "idle"
        /\ UNCHANGED <<routes, whole, target, view, cut, left, invoked, stack, executed>>
    BY <1>6 DEF provide_return, request_vars
  <2> QED  BY <2>1, EndKeepsInv
<1>7. CASE \E e \in left : provide_match(e)
  BY <1>7, MatchKeepsInv
<1>8. CASE \E it \in Held : advance(it) \/ call(it)
  BY <1>8, AdvanceKeepsInv, CallKeepsInv
<1>9. CASE callback_return
  BY <1>9, ReturnKeepsInv
<1>10. CASE /\ stack' = <<>> /\ left' = {} /\ phase' = IF Catches THEN "idle" ELSE "terminated"
            /\ UNCHANGED <<routes, request_vars, invoked, executed>>
  BY <1>10, EndKeepsInv DEF request_vars
<1> QED  BY <1>1, <1>2, <1>3, <1>4, <1>5, <1>6, <1>7, <1>8, <1>9, <1>10 DEF DispatchStep

(* The invariant of Dispatch holds in every behaviour of Param.          *)
THEOREM DispatchInvHolds ==
  ASSUME SoleChains
  PROVE  ParamSpec => []DispatchInv
<1>1. ParamInit => DispatchInv
  BY DispatchInvInit
<1>2. DispatchInv /\ [ParamNext]_param_vars => DispatchInv'
  BY NextIsDispatchStep, DispatchInvKept
<1> QED  BY <1>1, <1>2, PTL DEF ParamSpec

(* The invariants of the frames say what each callback sees.             *)
LEMMA SeesItsSegment ==
  ASSUME DispatchInv
  PROVE  CallbackSeesItsSegment
<1>1. ASSUME NEW i \in DOMAIN stack
      PROVE  FrameInv(whole, executed, stack[i])
  BY DEF DispatchInv, FramesInv
<1>2. ASSUME NEW i \in DOMAIN stack, NEW j \in 1 .. i - 1
      PROVE  stack[j].cut = stack[j].due => stack[j].due <= stack[i].cut
  <2>1. j \in DOMAIN stack /\ j < i
    <3>1. stack \in Seq(Frames)
      BY DEF DispatchInv, TypeInv
    <3> QED  BY <3>1, LenProperties
  <2> QED  BY <2>1 DEF DispatchInv, MovesInv, Own
<1> QED  BY <1>1, <1>2 DEF FrameInv, CallbackSeesItsSegment, Piece, PieceOf

(* The callback that n steps of an iterator lead to is the n-th or the last, *)
(* and sees the segment that the iterator moved last has come to: its own,  *)
(* unless another has moved since, and never one before that of a running   *)
(* callback which sees its own; however iterators are copied, moved and     *)
(* called.                                                                 *)
THEOREM CallbackSeesItsSegmentHolds ==
  ASSUME SoleChains
  PROVE  ParamSpec => []CallbackSeesItsSegment
<1>1. ParamSpec => []DispatchInv
  BY DispatchInvHolds
<1>2. DispatchInv => CallbackSeesItsSegment
  BY SeesItsSegment
<1> QED  BY <1>1, <1>2, PTL

(* When provide() returns no entry is left, so what it executed are all the *)
(* entries that match.                                                   *)
LEMMA StepProvidesMatching ==
  ASSUME DispatchInv, ~Catches, DispatchStep
  PROVE  ProvidesMatching
<1> SUFFICES ASSUME phase # "idle", phase' = "idle"
             PROVE  executed = Expected
  BY DEF ProvidesMatching
<1>1. provide_return
  BY DEF DispatchStep, vars, request_vars, Registering, provide, provide_mismatch, provide_all,
         provide_match, advance, call, callback_return
<1>2. left = {} /\ (phase = "all" \/ (phase = "method" /\ invoked)) /\ Busy
  BY <1>1 DEF provide_return, Busy
<1>3. executed = {e \in Map : match(e.regex, whole)}
  BY <1>2 DEF DispatchInv, ProvideInv
<1>4. CASE phase = "all"
  <2>1. Map = Of(FALSE) /\ {e \in Of(TRUE) : match(e.regex, whole)} = {}
    BY <1>2, <1>4 DEF DispatchInv, ProvideInv, Map, Of
  <2> QED  BY <1>3, <2>1 DEF Expected
<1>5. CASE phase = "method"
  <2>1. Map = Of(TRUE) /\ executed # {}
    BY <1>2, <1>5 DEF DispatchInv, ProvideInv, Map, Of
  <2> QED  BY <1>3, <2>1 DEF Expected
<1> QED  BY <1>2, <1>4, <1>5

(* provide() returns having executed exactly the routes that match what the *)
(* request came with, although chains rewrite its target meanwhile.      *)
THEOREM ProvidesMatchingOnlyHolds ==
  ASSUME SoleChains, ~Catches
  PROVE  ParamSpec => ProvidesMatchingOnly
<1>1. ParamSpec => []DispatchInv
  BY DispatchInvHolds
<1>2. DispatchInv /\ [ParamNext]_param_vars => [ProvidesMatching]_vars
  BY NextIsDispatchStep, StepProvidesMatching
<1> QED  BY <1>1, <1>2, PTL DEF ParamSpec, ProvidesMatchingOnly
-----------------------------------------------------------------------------
(* The callbacks that run are of one route, and only its block may hold     *)
(* anything; once one that it has called returned, not even that.           *)
ResetInv ==
  /\ thrown => stack # <<>>
  /\ stack = <<>> /\ phase # "terminated" => \A name \in DOMAIN blocks : blocks[name] = reset
  /\ \A i \in DOMAIN stack : stack[i].route = Top.route /\ (i < Len(stack) => stack[i].calls > 0)
  /\ stack # <<>> =>
       \A name \in DOMAIN blocks :
         name # Top.route.name \/ (~IsLast(Top) /\ Top.calls > 0) => blocks[name] = reset

(* A frame is pushed, and its wrapper entered.                              *)
LEMMA EnterKeepsReset ==
  ASSUME NEW h \in Frames, h.calls = 0, stack' \in Seq(Frames), stack' # <<>>,
         stack'[Len(stack')] = h, enter,
         \A i \in DOMAIN stack' :
           stack'[i].route = h.route /\ (i < Len(stack') => stack'[i].calls > 0),
         \A name \in DOMAIN blocks : name # h.route.name => blocks[name] = reset
  PROVE  ResetInv'
<1>1. Top' = h
  BY DEF Top
<1>2. PICK block : blocks' = [blocks EXCEPT ![h.route.name] = block]
  BY DEF enter
<1>3. \A name \in DOMAIN blocks' : name # h.route.name => blocks'[name] = reset
  BY <1>2
<1>4. ~(h.calls > 0)
  OBVIOUS
<1> QED  BY <1>1, <1>3, <1>4 DEF ResetInv

(* A route is executed when all blocks are reset.                        *)
LEMMA BeginKeepsReset ==
  ASSUME DispatchInv, SoleChains, ResetInv, NEW e \in left, param_begin(e)
  PROVE  ResetInv'
<1>1. /\ stack = <<>> /\ provide_match(e) /\ enter
  BY DEF param_begin, provide_match
<1>2. \A name \in DOMAIN blocks : blocks[name] = reset
  BY <1>1 DEF ResetInv, DispatchInv, TypeInv, Busy
<1>3. DispatchInv'
  BY <1>1, MatchKeepsInv
<1>4. PICK h : stack' = <<h>> /\ h.calls = 0
  BY <1>1 DEF provide_match, begin_exec, Frame
<1>5. stack' \in Seq(Frames)
  BY <1>3 DEF DispatchInv, TypeInv
<1>6. Len(stack') = 1 /\ DOMAIN stack' = {1} /\ stack'[1] = h /\ stack' # <<>>
  BY <1>4
<1>7. h \in Frames
  BY <1>5, <1>6
<1> QED  BY <1>1, <1>2, <1>4, <1>5, <1>6, <1>7, EnterKeepsReset

(* A callback that calls another leaves the blocks of other routes alone.*)
LEMMA CallKeepsReset ==
  ASSUME DispatchInv, ResetInv, NEW it, param_call(it)
  PROVE  ResetInv'
<1>1. enter /\ call(it) /\ stack # <<>>
  BY CallPushes DEF param_call
<1>2. PICK g, h \in Frames :
        /\ stack' = Append([stack EXCEPT ![Len(stack)] = g], h)
        /\ FrameInv(whole, executed, g) /\ FrameInv(whole, executed, h)
        /\ g.route = Top.route /\ g.calls = Top.calls + 1
        /\ h.route = Top.route /\ h.calls = 0
  BY <1>1, CallPushes
<1>3. stack \in Seq(Frames) /\ FramesInv
  BY DEF DispatchInv, TypeInv
<1>4. PICK k \in Nat \ {0} : k = Len(stack)
  BY <1>1, <1>3, EmptySeq
<1>5. /\ stack' \in Seq(Frames) /\ Len(stack') = k + 1 /\ stack'[k + 1] = h
      /\ \A i \in 1 .. k : stack'[i] = IF i = k THEN g ELSE stack[i]
  BY <1>1, <1>2, <1>3, <1>4, FramesPushed
<1>6. g.calls > 0
  <2>1. Top \in Frames
    BY <1>1, TopTypes
  <2>2. Top.calls \in Nat
    BY <2>1 DEF Frames
  <2> QED  BY <1>2, <2>2
<1>7. ASSUME NEW i \in DOMAIN stack'
      PROVE  stack'[i].route = h.route /\ (i < Len(stack') => stack'[i].calls > 0)
  <2>1. i \in 1 .. k + 1
    BY <1>5, LenProperties
  <2>2. CASE i = k + 1
    BY <1>5, <2>2
  <2>3. CASE i = k
    BY <1>2, <1>4, <1>5, <1>6, <2>3
  <2>4. CASE i \in 1 .. k /\ i # k
    <3>1. stack'[i] = stack[i] /\ i \in DOMAIN stack /\ i < Len(stack)
      BY <1>3, <1>4, <1>5, <2>4, LenProperties
    <3> QED  BY <1>2, <3>1 DEF ResetInv
  <2> QED  BY <2>1, <2>2, <2>3, <2>4
<1>8. \A name \in DOMAIN blocks : name # h.route.name => blocks[name] = reset
  BY <1>1, <1>2 DEF ResetInv
<1>9. stack' # <<>> /\ stack'[Len(stack')] = h
  BY <1>5
<1> QED  BY <1>1, <1>2, <1>5, <1>7, <1>8, <1>9, EnterKeepsReset

(* A callback that moves an iterator leaves all blocks alone.            *)
LEMMA AdvanceKeepsReset ==
  ASSUME DispatchInv, ResetInv, NEW it, param_advance(it)
  PROVE  ResetInv'
<1>1. advance(it) /\ UNCHANGED <<blocks, thrown>> /\ stack # <<>>
  BY AdvanceMoves DEF param_advance
<1>2. PICK g \in Frames :
        /\ stack' = [stack EXCEPT ![Len(stack)] = g] /\ FrameInv(whole, executed, g)
        /\ g.route = Top.route /\ g.at = Top.at /\ g.calls = Top.calls
  BY <1>1, AdvanceMoves
<1>3. /\ stack' \in Seq(Frames) /\ Len(stack') = Len(stack) /\ DOMAIN stack' = DOMAIN stack
      /\ \A i \in DOMAIN stack : stack'[i] = IF i = Len(stack) THEN g ELSE stack[i]
  BY <1>1, <1>2, FramesReplaced DEF DispatchInv, TypeInv
<1>4. Len(stack) \in DOMAIN stack /\ stack' # <<>>
  <2>1. stack \in Seq(Frames)
    BY DEF DispatchInv, TypeInv
  <2>2. Len(stack) \in Nat \ {0} /\ Len(stack) \in 1 .. Len(stack)
    BY <1>1, <2>1, EmptySeq
  <2> QED  BY <1>3, <2>1, <2>2, LenProperties, EmptySeq
<1>5. Top' = g
  BY <1>3, <1>4 DEF Top
<1>6. \A i \in DOMAIN stack : stack'[i].route = stack[i].route /\ stack'[i].calls = stack[i].calls
  BY <1>2, <1>3 DEF Top
<1>7. \A i \in DOMAIN stack' :
        stack'[i].route = Top'.route /\ (i < Len(stack') => stack'[i].calls > 0)
  BY <1>2, <1>3, <1>5, <1>6 DEF ResetInv
<1>8. IsLast(Top)' <=> IsLast(Top)
  BY <1>2, <1>5 DEF IsLast
<1> QED  BY <1>1, <1>2, <1>4, <1>5, <1>7, <1>8 DEF ResetInv

(* A callback returns: the last has reset the block, and so has, for any *)
(* other, the last that it called.                                       *)
LEMMA ReturnKeepsReset ==
  ASSUME DispatchInv, ~MayStop, ResetInv, param_return
  PROVE  ResetInv'
<1>1. /\ ~thrown /\ thrown' = thrown /\ stack # <<>>
      /\ stack' = SubSeq(stack, 1, Len(stack) - 1)
      /\ IsLast(Top) \/ Top.calls > 0
      /\ blocks' = IF IsLast(Top) THEN [blocks EXCEPT ![Top.route.name] = reset] ELSE blocks
  BY DEF param_return, callback_return, running
<1>2. stack \in Seq(Frames)
  BY DEF DispatchInv, TypeInv
<1>3. PICK k \in Nat : Len(stack) = k + 1
  <2>1. Len(stack) \in Nat \ {0}
    BY <1>1, <1>2, EmptySeq
  <2> QED  BY <2>1, Len(stack) - 1 \in Nat
<1>4. /\ stack' \in Seq(Frames) /\ Len(stack') = k
      /\ \A i \in 1 .. k : stack'[i] = stack[i] /\ i \in DOMAIN stack /\ i < Len(stack)
  BY <1>1, <1>2, <1>3
<1>5. \A name \in DOMAIN blocks' : blocks'[name] = reset
  <2>1. CASE IsLast(Top)
    BY <1>1, <2>1 DEF ResetInv
  <2>2. CASE ~IsLast(Top)
    BY <1>1, <2>2 DEF ResetInv
  <2> QED  BY <2>1, <2>2
<1>6. CASE k = 0
  <2>1. stack' = <<>>
    BY <1>4, <1>6, EmptySeq
  <2> QED  BY <1>1, <1>5, <2>1 DEF ResetInv
<1>7. CASE k > 0
  <2>1. stack' # <<>> /\ k \in 1 .. k
    BY <1>4, <1>7
  <2>2. Top' = stack[k]
    BY <1>4, <2>1 DEF Top
  <2>3. ASSUME NEW i \in DOMAIN stack'
        PROVE  stack'[i].route = Top'.route /\ (i < Len(stack') => stack'[i].calls > 0)
    <3>1. i \in 1 .. k
      BY <1>4, LenProperties
    <3> QED  BY <1>4, <2>1, <2>2, <3>1 DEF ResetInv
  <2> QED  BY <1>1, <1>5, <2>1, <2>3 DEF ResetInv
<1> QED  BY <1>3, <1>6, <1>7

(* With the invariant of Dispatch, this one is inductive.                *)
LEMMA ResetInvKept ==
  ASSUME DispatchInv, SoleChains, ~MayStop, ~Catches, ResetInv, [ParamNext]_param_vars
  PROVE  ResetInv'
<1>1. CASE UNCHANGED param_vars
  BY <1>1 DEF param_vars, vars, ResetInv, Top, IsLast
<1>2. CASE \E e \in AllRoutes : param_verb(e) \/ param_route(e.name) \/ node_verb(e)
  <2>1. PICK e \in AllRoutes : param_verb(e) \/ param_route(e.name) \/ node_verb(e)
    BY <1>2
  <2>2. /\ phase = "idle" /\ ~thrown /\ thrown' = thrown /\ stack' = stack /\ phase' = phase
        /\ blocks' = blocks \/ NewBlock(e.name)
    BY <2>1 DEF param_verb, param_route, node_verb, Added, Registering, vars
  <2>3. stack = <<>>
    BY <2>2 DEF DispatchInv, TypeInv, Busy
  <2>4. \A name \in DOMAIN blocks' : blocks'[name] = reset
    BY <2>2, <2>3 DEF NewBlock, ResetInv
  <2> QED  BY <2>2, <2>3, <2>4 DEF ResetInv
<1>3. CASE \E x \in Targets : param_provide(x)
  <2>1. phase = "idle" /\ UNCHANGED <<stack, blocks, thrown>>
    BY <1>3 DEF param_provide, provide
  <2>2. stack = <<>>
    BY <2>1 DEF DispatchInv, TypeInv, Busy
  <2> QED  BY <2>1, <2>2 DEF ResetInv
<1>4. CASE param_skip
  <2>1. stack = <<>> /\ Busy /\ UNCHANGED <<stack, blocks, thrown>>
    BY <1>4 DEF param_skip, provide_mismatch, provide_all, provide_return, DispatchInv, TypeInv,
                Busy
  <2> QED  BY <2>1 DEF ResetInv, Busy
<1>5. CASE \E e \in left : param_begin(e)
  BY <1>5, BeginKeepsReset
<1>6. CASE \E it \in Held : param_advance(it) \/ param_call(it)
  BY <1>6, AdvanceKeepsReset, CallKeepsReset
<1>7. CASE param_return
  BY <1>7, ReturnKeepsReset
<1>8. CASE unwind
  <2>1. stack' = <<>> /\ thrown' = FALSE /\ phase' = "terminated"
    BY <1>8 DEF unwind
  <2> QED  BY <2>1 DEF ResetInv
<1> QED  BY <1>1, <1>2, <1>3, <1>4, <1>5, <1>6, <1>7, <1>8 DEF ParamNext

(* Between two requests every block is as it was made, provided that no  *)
(* callback returns without calling the next and no exception is caught. *)
THEOREM BlocksResetHolds ==
  ASSUME SoleChains, ~MayStop, ~Catches
  PROVE  ParamSpec => []BlocksReset
<1>1. ParamSpec => []DispatchInv
  BY DispatchInvHolds
<1>2. ParamInit => ResetInv
  BY DEF ParamInit, Init, ResetInv
<1>3. DispatchInv /\ ResetInv /\ [ParamNext]_param_vars => ResetInv'
  BY ResetInvKept
<1>4. DispatchInv /\ ResetInv => BlocksReset
  BY DEF DispatchInv, TypeInv, ResetInv, BlocksReset, Busy
<1> QED  BY <1>1, <1>2, <1>3, <1>4, PTL DEF ParamSpec
-----------------------------------------------------------------------------
(* The types of Dispatch.                                                  *)
LEMMA DispatchTypes ==
  ASSUME DispatchInv
  PROVE  DispatchTypeOK
<1>1. ASSUME NEW i \in DOMAIN stack, NEW f, f = stack[i]
      PROVE  /\ f.route \in executed /\ f.at \in 0 .. f.route.callbacks - 1
             /\ f.calls \in 0 .. MaxCalls
             /\ \A it \in f.its : it.pos \in f.at .. f.route.callbacks - 1 /\ it.rest # <<>>
  <2>1. f \in Frames /\ FrameInv(whole, executed, f) /\ Busy
    BY <1>1 DEF DispatchInv, TypeInv, FramesInv
  <2>2. f.route \in executed /\ f.route.callbacks \in Nat \ {0}
    BY <2>1, RouteTypes DEF FrameInv, DispatchInv, TypeInv
  <2>3. f.calls \in 0 .. MaxCalls
    BY <2>1, MaxCallsAssumption DEF FrameInv, Frames
  <2>4. CASE f.route.callbacks = 1
    BY <2>1, <2>2, <2>3, <2>4 DEF FrameInv
  <2>5. CASE f.route.callbacks # 1
    <3>1. f.due \in Nat /\ f.at = Least(f.due, f.route.callbacks - 1)
      BY <2>1, <2>5 DEF FrameInv, Frames
    <3>2. f.at \in 0 .. f.route.callbacks - 1
      BY <2>2, <3>1 DEF Least
    <3>3. ASSUME NEW it \in f.its
          PROVE  it.pos \in f.at .. f.route.callbacks - 1 /\ it.rest # <<>>
      <4>1. Stands(whole, it, f.route) /\ f.due <= it.steps
        BY <2>1, <2>5 DEF FrameInv
      <4>2. /\ it.steps \in Nat /\ it.pos = Least(it.steps, f.route.callbacks - 1)
            /\ it.rest = Rest(whole, it.steps)
        BY <4>1 DEF Stands, Its
      <4>3. it.pos \in f.at .. f.route.callbacks - 1
        BY <2>2, <3>1, <4>1, <4>2 DEF Least
      <4>4. whole \in Seq(Pieces) /\ whole # <<>>
        BY <2>1, WholeTypes DEF DispatchInv
      <4> QED  BY <4>2, <4>3, <4>4, NextCut
    <3> QED  BY <2>2, <2>3, <3>2, <3>3
  <2> QED  BY <2>4, <2>5
<1> QED  BY <1>1 DEF DispatchTypeOK, DispatchInv, TypeInv

(* A set of positions has as many members in order as its cardinality says. *)
LEMMA NthIsMember ==
  ASSUME NEW m \in Nat, NEW S \in SUBSET (1 .. m), NEW n \in 1 .. Cardinality(S)
  PROVE  Nth(S, n) \in S /\ Cardinality({j \in S : j <= Nth(S, n)}) = n
<1> DEFINE UpTo(k) == {j \in S : j <= k}
           T == {k \in Nat : n <= Cardinality(UpTo(k))}
<1>0. \A j \in S : j \in Nat /\ 1 <= j /\ j <= m
  OBVIOUS
<1>1. IsFiniteSet(S) /\ Cardinality(S) \in Nat
  BY FS_Interval, FS_Subset, FS_CardinalityType, 1 \in Int, m \in Int
<1>2. ASSUME NEW k \in Nat
      PROVE  IsFiniteSet(UpTo(k)) /\ Cardinality(UpTo(k)) \in Nat
  BY <1>1, UpTo(k) \in SUBSET S, FS_Subset, FS_CardinalityType
<1>3. m \in T
  <2>1. UpTo(m) = S
    BY <1>0
  <2> QED  BY <1>1, <2>1
<1>4. 0 \notin T
  <2>1. UpTo(0) = {}
    <3>1. \A j \in S : ~(j <= 0)
      BY <1>0
    <3> QED  BY <3>1
  <2>2. Cardinality(UpTo(0)) = 0
    BY <2>1, FS_EmptySet
  <2>3. ~(n <= 0)
    BY <1>1
  <2> QED  BY <2>2, <2>3
<1>5. PICK k \in T : \A l \in T : ~(l < k)
  <2>1. IsWellFoundedOn(OpToRel(<, Nat), Nat)
    BY NatLessThanWellFounded
  <2>2. PICK k \in T : \A l \in T : ~(<<l, k>> \in OpToRel(<, Nat))
    BY <1>3, <2>1, WFMin, T \subseteq Nat, T # {}
  <2> QED  BY <2>2 DEF OpToRel
<1>6. k \in Nat /\ k # 0 /\ k - 1 \in Nat /\ k - 1 < k
  BY <1>4, <1>5
<1>7. n <= Cardinality(UpTo(k)) /\ ~(n <= Cardinality(UpTo(k - 1)))
  <2>1. k - 1 \notin T
    BY <1>5, <1>6
  <2> QED  BY <1>5, <1>6, <2>1
<1>8. k \in S
  <2> SUFFICES ASSUME k \notin S  PROVE FALSE
    OBVIOUS
  <2>1. UpTo(k) = UpTo(k - 1)
    <3>1. \A j \in S : j <= k <=> j <= k - 1
      <4> SUFFICES ASSUME NEW j \in S
                   PROVE  j <= k <=> j <= k - 1
        OBVIOUS
      <4>1. j \in Nat /\ j # k
        BY <1>0
      <4> QED  BY <1>6, <4>1
    <3> QED  BY <3>1
  <2> QED  BY <1>7, <2>1
<1>9. Cardinality(UpTo(k)) = n
  <2>1. UpTo(k) = UpTo(k - 1) \cup {k} /\ k \notin UpTo(k - 1)
    <3>1. \A j \in S : j <= k <=> (j <= k - 1 \/ j = k)
      <4> SUFFICES ASSUME NEW j \in S
                   PROVE  j <= k <=> (j <= k - 1 \/ j = k)
        OBVIOUS
      <4>1. j \in Nat
        BY <1>0
      <4> QED  BY <1>6, <4>1
    <3>2. ~(k <= k - 1)
      BY <1>6
    <3> QED  BY <1>8, <3>1, <3>2
  <2> HIDE DEF UpTo
  <2>2. Cardinality(UpTo(k)) = Cardinality(UpTo(k - 1)) + 1
    BY <1>2, <1>6, <2>1, FS_AddElement
  <2>3. Cardinality(UpTo(k - 1)) \in Nat /\ n \in Nat
    BY <1>1, <1>2, <1>6
  <2> QED  BY <1>7, <2>2, <2>3
<1> QED  BY <1>8, <1>9 DEF Nth

(* Captures are pieces of the target.                                    *)
LEMMA CapturesTypes ==
  ASSUME NEW part \in Seq(Pieces \cup {Any}), NEW pieces \in Seq(Pieces)
  PROVE  captures(part, pieces) \in Seq(Pieces)
<1>1. CASE match(part, pieces)
  <2>1. PICK m \in Nat : m = Len(part)
    OBVIOUS
  <2>2. PICK S : S = {i \in 1 .. Len(part) : part[i] = Any}
    OBVIOUS
  <2>3. S \in SUBSET (1 .. m)
    BY <2>1, <2>2
  <2>4. PICK k \in Nat : k = Cardinality(S)
    <3>1. IsFiniteSet(S)
      BY <2>3, FS_Interval, FS_Subset, 1 \in Int, m \in Int
    <3> QED  BY <3>1, FS_CardinalityType
  <2>5. ASSUME NEW n \in 1 .. k
        PROVE  pieces[Nth(S, n)] \in Pieces
    <3>1. Nth(S, n) \in S
      BY <2>3, <2>4, NthIsMember
    <3>2. Nth(S, n) \in 1 .. Len(pieces)
      BY <1>1, <2>1, <2>3, <3>1 DEF match
    <3> QED  BY <3>2
  <2>6. captures(part, pieces) = [n \in 1 .. k |-> pieces[Nth(S, n)]]
    BY <1>1, <2>2, <2>4 DEF captures, At
  <2> QED  BY <2>5, <2>6
<1>2. CASE ~match(part, pieces)
  BY <1>2 DEF captures
<1> QED  BY <1>1, <1>2

(* The parts of a route's expression: there are as many as it has pieces,   *)
(* and one or two more.                                                    *)
LEMMA SplitTypes ==
  ASSUME NEW e \in Route
  PROVE  /\ split_regex(e) \in Seq(Seq(Pieces \cup {Any}))
         /\ Len(split_regex(e)) = Len(e.regex) + IF e.anchored THEN 2 ELSE 1
<1>1. PICK P : P = Pieces \cup {Any}
  OBVIOUS
<1>2. e.regex \in Seq(P) /\ e.anchored \in BOOLEAN
  BY <1>1 DEF Route
<1>3. PICK n \in Nat : n = Len(e.regex)
  BY <1>2
<1>4. <<e.regex>> \in Seq(Seq(P)) /\ Len(<<e.regex>>) = 1
  BY <1>2
<1>5. PICK b : b = IF e.anchored THEN << <<>> >> ELSE <<>>
  OBVIOUS
<1>6. b \in Seq(Seq(P)) /\ Len(b) = IF e.anchored THEN 1 ELSE 0
  <2>1. CASE e.anchored
    BY <1>5, <2>1
  <2>2. CASE ~e.anchored
    BY <1>5, <2>2
  <2> QED  BY <2>1, <2>2
<1>7. PICK c : c = [i \in 1 .. n |-> <<e.regex[i]>>]
  OBVIOUS
<1>8. c \in Seq(Seq(P)) /\ Len(c) = n
  <2>1. \A i \in 1 .. n : <<e.regex[i]>> \in Seq(P)
    BY <1>2, <1>3
  <2> QED  BY <1>7, <2>1
<1>9. split_regex(e) = <<e.regex>> \o b \o c
  BY <1>3, <1>5, <1>7 DEF split_regex
<1>10. <<e.regex>> \o b \in Seq(Seq(P)) /\ Len(<<e.regex>> \o b) = 1 + Len(b)
  BY <1>4, <1>6, ConcatProperties
<1>11. split_regex(e) \in Seq(Seq(P)) /\ Len(split_regex(e)) = 1 + Len(b) + n
  BY <1>8, <1>9, <1>10, ConcatProperties
<1>12. CASE e.anchored
  BY <1>1, <1>3, <1>6, <1>11, <1>12
<1>13. CASE ~e.anchored
  BY <1>1, <1>3, <1>6, <1>11, <1>13
<1> QED  BY <1>12, <1>13

(* What the wrapper of a callback makes of the block of its route.          *)
Block == [rp : Nat, cur_pos_cb : Nat, str_args : Seq(Pieces)]
Positions(e) == 0 .. e.callbacks + Len(e.regex)

(* Capturing leaves rp_iter_ and cur_pos_cb where they are.              *)
LEMMA CaptureTypes ==
  ASSUME NEW e \in Route, NEW b \in Block, b.rp \in 1 .. Len(split_regex(e)),
         NEW pieces \in Seq(Pieces)
  PROVE  /\ capture(b, e, pieces) \in Block
         /\ capture(b, e, pieces).rp = b.rp
         /\ capture(b, e, pieces).cur_pos_cb = b.cur_pos_cb
<1>1. PICK part : part = split_regex(e)[b.rp]
  OBVIOUS
<1>2. part \in Seq(Pieces \cup {Any})
  BY <1>1, SplitTypes, ElementOfSeq
<1>3. PICK c \in Seq(Pieces) : c = captures(part, pieces)
  BY <1>2, CapturesTypes
<1>4. capture(b, e, pieces) = [b EXCEPT !.str_args = b.str_args \o c]
  BY <1>1, <1>3 DEF capture, Block
<1>5. b.str_args \o c \in Seq(Pieces)
  BY ConcatProperties DEF Block
<1> QED  BY <1>4, <1>5 DEF Block

(* Where rp_iter_ comes to, there is a part of the expression.           *)
LEMMA ProcessTypes ==
  ASSUME NEW f \in Frames, f.route.regex # <<>>, f.at < f.route.callbacks,
         NEW b \in Block, b.rp \in 1 .. Len(split_regex(f.route))
  PROVE  /\ process(b, f) \in Block
         /\ process(b, f).rp \in 1 .. Len(split_regex(f.route))
         /\ process(b, f).cur_pos_cb \in {b.cur_pos_cb} \cup Positions(f.route)
<1>1. PICK e \in Route : e = f.route
  BY DEF Frames
<1>2. PICK last \in Nat : last = Len(split_regex(e))
  BY SplitTypes, LenProperties
<1>3. PICK m \in Nat \ {0} : m = Len(e.regex)
  <2>1. e.regex \in Seq(Pieces \cup {Any}) /\ e.regex # <<>>
    BY <1>1 DEF Route
  <2> QED  BY <2>1, EmptySeq
<1>4. last \in {m + 1, m + 2}
  <2>1. last = m + IF e.anchored THEN 2 ELSE 1
    BY <1>2, <1>3, SplitTypes
  <2>2. CASE e.anchored
    BY <2>1, <2>2
  <2>3. CASE ~e.anchored
    BY <2>1, <2>3
  <2> QED  BY <2>2, <2>3
<1>5. /\ f.seen \in Seq(Pieces) /\ f.at \in Nat /\ e.callbacks \in Nat \ {0}
      /\ b.rp \in Nat /\ b.rp \in 1 .. last /\ b.cur_pos_cb \in Nat
  BY <1>1, <1>2 DEF Frames, Route, Block
<1>6. CASE IsLast(f)
  <2>1. PICK c : c = IF b.rp = 1 THEN b ELSE [b EXCEPT !.rp = last, !.cur_pos_cb = last - 1]
    OBVIOUS
  <2>2. process(b, f) = capture(c, e, f.seen)
    BY <1>1, <1>2, <1>6, <2>1 DEF process, process_classic
  <2>3. c \in Block /\ c.rp \in 1 .. last /\ c.cur_pos_cb \in {b.cur_pos_cb} \cup Positions(e)
    <3>1. CASE b.rp = 1
      BY <1>5, <2>1, <3>1
    <3>2. CASE b.rp # 1
      <4>1. c = [b EXCEPT !.rp = last, !.cur_pos_cb = last - 1]
        BY <2>1, <3>2
      <4>2. last - 1 \in Positions(e) /\ last - 1 \in Nat /\ last \in 1 .. last
        BY <1>3, <1>4, <1>5 DEF Positions
      <4> QED  BY <4>1, <4>2 DEF Block
    <3> QED  BY <3>1, <3>2
  <2> QED  BY <1>1, <1>2, <1>5, <2>2, <2>3, CaptureTypes
<1>7. CASE ~IsLast(f)
  <2>1. PICK steps \in Nat :
          /\ steps = IF f.at > b.cur_pos_cb THEN f.at - b.cur_pos_cb ELSE 0
          /\ steps = 0 \/ b.cur_pos_cb + steps = f.at
    BY <1>5
  <2>2. PICK moved \in 1 .. last : moved = Least(b.rp + steps, last)
    BY <1>4, <1>5, <2>1 DEF Least
  <2>3. PICK rp \in 1 .. last : rp = IF moved = 1 THEN 2 ELSE moved
    BY <1>3, <1>4, <2>2
  <2>4. PICK c : c = [b EXCEPT !.rp = rp, !.cur_pos_cb = b.cur_pos_cb + steps]
    OBVIOUS
  <2>5. process(b, f) = capture(c, e, f.seen)
    <3>1. process(b, f) = process_advanced(b, e, f.at, f.seen)
      BY <1>1, <1>7 DEF process
    <3>2. process_advanced(b, e, f.at, f.seen)
          = capture([b EXCEPT !.rp = rp, !.cur_pos_cb = @ + steps], e, f.seen)
      BY <1>2, <2>1, <2>2, <2>3 DEF process_advanced
    <3> QED  BY <2>4, <3>1, <3>2 DEF Block
  <2>6. b.cur_pos_cb + steps \in {b.cur_pos_cb} \cup Positions(e) /\ b.cur_pos_cb + steps \in Nat
    <3>1. f.at \in Positions(e) /\ f.at \in Nat
      BY <1>1, <1>3, <1>5 DEF Positions
    <3>2. CASE steps = 0
      BY <1>5, <3>2
    <3>3. CASE b.cur_pos_cb + steps = f.at
      BY <3>1, <3>3
    <3> QED  BY <2>1, <3>2, <3>3
  <2>7. /\ c \in Block /\ c.rp = rp /\ c.cur_pos_cb = b.cur_pos_cb + steps
    <3>1. rp \in Nat
      BY <1>4, <2>3
    <3> QED  BY <2>4, <2>6, <3>1 DEF Block
  <2> QED  BY <1>1, <1>2, <1>5, <2>3, <2>5, <2>6, <2>7, CaptureTypes
<1> QED  BY <1>6, <1>7

(* A callback is given one value for each type of the pack.              *)
LEMMA ArgumentsTypes ==
  ASSUME NEW args \in Seq(Pieces)
  PROVE  /\ arguments(args) \in [1 .. Count -> Pieces \cup {Default, OutOfRange}]
         /\ \A t \in Throws(args) : t \in BOOLEAN
<1>1. \A i \in DOMAIN args : args[i] \in Pieces
  BY LenProperties
<1> QED  BY <1>1 DEF arguments, Throws
-----------------------------------------------------------------------------
(* A block is as it was made, or fits a route that shares it; and there are *)
(* as many tuples of arguments as callbacks that run.                      *)
Fits(b, e) == b.rp \in 1 .. Len(split_regex(e)) /\ b.cur_pos_cb \in Positions(e)
Arguments == [1 .. Count -> Pieces \cup {Default, OutOfRange}]

BlocksInv ==
  /\ \A e \in routes : e.name \in DOMAIN blocks
  /\ \A name \in DOMAIN blocks :
       /\ blocks[name] \in Block
       /\ blocks[name] = reset \/ \E e \in routes : e.name = name /\ Fits(blocks[name], e)
GivenInv ==
  thrown \in BOOLEAN /\ given \in Seq(Arguments) /\ Len(given) = Len(stack)

(* A block as it was made fits any route.                                *)
LEMMA ResetFits ==
  ASSUME NEW e \in Route
  PROVE  reset \in Block /\ Fits(reset, e)
<1>1. e.callbacks \in Nat /\ Len(e.regex) \in Nat
  BY DEF Route
<1>2. Len(split_regex(e)) \in Nat /\ 1 <= Len(split_regex(e))
  <2>1. PICK k \in Nat : k = IF e.anchored THEN 2 ELSE 1
    OBVIOUS
  <2>2. k \in {1, 2}
    BY <2>1
  <2>3. Len(split_regex(e)) = Len(e.regex) + k
    BY <2>1, SplitTypes
  <2> QED  BY <1>1, <2>2, <2>3
<1>3. reset \in Block
  BY EmptySeq DEF reset, Block
<1> QED  BY <1>1, <1>2, <1>3 DEF reset, Fits, Positions

(* Routes that share a block have the same parts.                          *)
LEMMA SameParts ==
  ASSUME TypeInv, NEW e \in routes, NEW f \in routes, e.name = f.name
  PROVE  split_regex(e) = split_regex(f)
<1>1. e.regex = f.regex /\ e.anchored = f.anchored
  BY BlocksAssumption DEF TypeInv
<1> QED  BY <1>1 DEF split_regex

(* These invariants say what ParamTypeOK does.                           *)
LEMMA ParamTypes ==
  ASSUME DispatchInv, BlocksInv, GivenInv
  PROVE  ParamTypeOK
<1>1. ASSUME NEW e \in routes
      PROVE  /\ e.name \in DOMAIN blocks
             /\ blocks[e.name].rp \in 1 .. Len(split_regex(e))
             /\ \E f \in routes : f.name = e.name
                               /\ blocks[e.name].cur_pos_cb \in 0 .. f.callbacks + Len(f.regex)
             /\ blocks[e.name].str_args \in Seq(Pieces)
  <2>1. e \in Route /\ e.name \in DOMAIN blocks /\ blocks[e.name] \in Block
    BY RouteTypes DEF DispatchInv, BlocksInv
  <2>2. PICK f \in routes : f.name = e.name /\ Fits(blocks[e.name], f)
    <3>1. CASE blocks[e.name] = reset
      BY <2>1, <3>1, ResetFits
    <3>2. CASE blocks[e.name] # reset
      BY <2>1, <3>2 DEF BlocksInv
    <3> QED  BY <3>1, <3>2
  <2>3. split_regex(e) = split_regex(f)
    BY <2>2, SameParts DEF DispatchInv
  <2> QED  BY <2>1, <2>2, <2>3 DEF Fits, Positions, Block
<1>2. \A i \in DOMAIN given : given[i] \in Arguments
  BY LenProperties DEF GivenInv
<1> QED  BY <1>1, <1>2, DispatchTypes DEF ParamTypeOK, GivenInv, Arguments

(* Entering a wrapper keeps them.                                        *)
LEMMA EnterKeepsTypes ==
  ASSUME DispatchInv', BlocksInv, GivenInv, routes' = routes, enter,
         stack' # <<>>, Len(stack') = Len(stack) + 1
  PROVE  BlocksInv' /\ GivenInv'
<1>1. stack' \in Seq(Frames) /\ Busy' /\ whole' \in Seq(Pieces) /\ whole' # <<>>
  BY TargetsAssumption DEF DispatchInv, TypeInv
<1>2. PICK f : f = stack'[Len(stack')]
  OBVIOUS
<1>3. f \in Frames /\ FrameInv(whole', executed', f)
  <2>1. Len(stack') \in DOMAIN stack'
    BY <1>1, EmptySeq, LenProperties
  <2>2. FrameInv(whole', executed', stack'[Len(stack')])
    BY <2>1 DEF DispatchInv, FramesInv
  <2> QED  BY <1>1, <1>2, <2>1, <2>2, EmptySeq, ElementOfSeq
<1>4. PICK e \in routes : e = f.route
  BY <1>3 DEF FrameInv, DispatchInv, TypeInv
<1>5. e \in Route /\ e.callbacks \in Nat \ {0}
  <2>1. routes' \in RouteSets
    BY DEF DispatchInv, TypeInv
  <2> QED  BY <2>1, RoutesAssumption DEF Route
<1>6. e.regex # <<>>
  <2>1. e \in executed'
    BY <1>3, <1>4 DEF FrameInv
  <2>2. match(e.regex, whole')
    BY <1>1, <2>1 DEF DispatchInv, ProvideInv
  <2>3. Len(e.regex) = Len(whole')
    BY <2>2 DEF match
  <2>4. Len(whole') # 0
    BY <1>1, EmptySeq
  <2> QED  BY <2>3, <2>4, EmptySeq
<1>7. f.at < f.route.callbacks
  <2>1. CASE e.callbacks = 1
    BY <1>3, <1>4, <2>1 DEF FrameInv
  <2>2. CASE e.callbacks # 1
    <3>1. f.due \in Nat /\ f.at = Least(f.due, e.callbacks - 1)
      BY <1>3, <1>4, <2>2 DEF FrameInv, Frames
    <3> QED  BY <1>4, <1>5, <3>1 DEF Least
  <2> QED  BY <2>1, <2>2
<1>8. e.name \in DOMAIN blocks
  BY DEF BlocksInv
<1>9. PICK b \in Block : b = blocks[e.name]
  BY <1>8 DEF BlocksInv
<1>10. PICK g \in routes : g.name = e.name /\ Fits(b, g)
  <2>1. CASE b = reset
    BY <1>5, <2>1, ResetFits
  <2>2. CASE b # reset
    BY <1>8, <1>9, <2>2 DEF BlocksInv
  <2> QED  BY <2>1, <2>2
<1>11. split_regex(g) = split_regex(e)
  <2>1. routes \in RouteSets
    BY DEF DispatchInv, TypeInv
  <2>2. e.regex = g.regex /\ e.anchored = g.anchored
    BY <1>10, <2>1, BlocksAssumption
  <2> QED  BY <2>2 DEF split_regex
<1>12. PICK block \in Block :
         /\ block = process(b, f) /\ block.rp \in 1 .. Len(split_regex(e))
         /\ block.cur_pos_cb \in {b.cur_pos_cb} \cup Positions(e)
  <2>1. b.rp \in 1 .. Len(split_regex(f.route))
    BY <1>4, <1>10, <1>11 DEF Fits
  <2> QED  BY <1>3, <1>4, <1>6, <1>7, <2>1, ProcessTypes
<1>13. PICK r \in routes : r.name = e.name /\ Fits(block, r)
  <2>1. CASE block.cur_pos_cb = b.cur_pos_cb
    BY <1>10, <1>11, <1>12, <2>1 DEF Fits
  <2>2. CASE block.cur_pos_cb \in Positions(e)
    BY <1>12, <2>2 DEF Fits
  <2> QED  BY <1>12, <2>1, <2>2
<1>14. /\ blocks' = [blocks EXCEPT ![e.name] = block]
       /\ given' = Append(given, arguments(block.str_args))
       /\ thrown' \in Throws(block.str_args)
  BY <1>2, <1>4, <1>9, <1>12 DEF enter
<1>15. BlocksInv'
  <2>1. DOMAIN blocks' = DOMAIN blocks
    BY <1>14
  <2>2. ASSUME NEW name \in DOMAIN blocks'
        PROVE  /\ blocks'[name] \in Block
               /\ blocks'[name] = reset \/ \E d \in routes : d.name = name /\ Fits(blocks'[name], d)
    <3>1. CASE name = e.name
      BY <1>12, <1>13, <1>14, <2>1, <3>1
    <3>2. CASE name # e.name
      <4>1. blocks'[name] = blocks[name] /\ name \in DOMAIN blocks
        BY <1>14, <2>1, <3>2
      <4> QED  BY <4>1 DEF BlocksInv
    <3> QED  BY <3>1, <3>2
  <2>3. \A d \in routes : d.name \in DOMAIN blocks'
    BY <2>1 DEF BlocksInv
  <2> QED  BY <2>2, <2>3 DEF BlocksInv
<1>16. GivenInv'
  <2>1. arguments(block.str_args) \in Arguments /\ thrown' \in BOOLEAN
    BY <1>14, ArgumentsTypes DEF Block, Arguments
  <2>2. given \in Seq(Arguments) /\ Len(given) = Len(stack)
    BY DEF GivenInv
  <2>3. given' \in Seq(Arguments) /\ Len(given') = Len(given) + 1
    BY <1>14, <2>1, <2>2, AppendProperties
  <2> QED  BY <2>1, <2>2, <2>3 DEF GivenInv
<1> QED  BY <1>15, <1>16

(* So does every other step.                                             *)
LEMMA TypesKept ==
  ASSUME DispatchInv, DispatchInv', BlocksInv, GivenInv, [ParamNext]_param_vars
  PROVE  BlocksInv' /\ GivenInv'
<1>1. CASE UNCHANGED param_vars
  BY <1>1 DEF param_vars, vars, BlocksInv, GivenInv
<1>2. ASSUME NEW e \in AllRoutes, param_verb(e) \/ param_route(e.name) \/ node_verb(e)
      PROVE  BlocksInv' /\ GivenInv'
  <2>1. /\ UNCHANGED <<stack, given, thrown>>
        /\ routes' = routes \/ (routes' = routes \cup {e} /\ e.name \in DOMAIN blocks')
        /\ blocks' = blocks \/ NewBlock(e.name)
    <3>1. CASE param_verb(e)
      BY <3>1 DEF param_verb, Added, NewBlock
    <3>2. CASE param_route(e.name)
      BY <3>2 DEF param_route, vars
    <3>3. CASE node_verb(e)
      BY <3>3 DEF node_verb, Added
    <3> QED  BY <1>2, <3>1, <3>2, <3>3
  <2>2. GivenInv'
    BY <2>1 DEF GivenInv
  <2>3. /\ DOMAIN blocks \subseteq DOMAIN blocks'
        /\ \A name \in DOMAIN blocks' :
             (name \in DOMAIN blocks /\ blocks'[name] = blocks[name]) \/ blocks'[name] = reset
    BY <2>1 DEF NewBlock
  <2>4. reset \in Block
    BY EmptySeq DEF reset, Block
  <2>5. ASSUME NEW name \in DOMAIN blocks'
        PROVE  /\ blocks'[name] \in Block
               /\ \/ blocks'[name] = reset
                  \/ \E d \in routes' : d.name = name /\ Fits(blocks'[name], d)
    <3>1. CASE blocks'[name] = reset
      BY <2>4, <3>1
    <3>2. CASE blocks'[name] # reset
      <4>1. name \in DOMAIN blocks /\ blocks'[name] = blocks[name]
        BY <2>3, <3>2
      <4>2. PICK d \in routes : d.name = name /\ Fits(blocks[name], d)
        BY <3>2, <4>1 DEF BlocksInv
      <4> QED  BY <2>1, <4>1, <4>2 DEF BlocksInv
    <3> QED  BY <3>1, <3>2
  <2>6. \A d \in routes' : d.name \in DOMAIN blocks'
    BY <2>1, <2>3 DEF BlocksInv
  <2> QED  BY <2>2, <2>5, <2>6 DEF BlocksInv
<1>3. ASSUME NEW x \in Targets, param_provide(x)
      PROVE  BlocksInv' /\ GivenInv'
  BY <1>3 DEF param_provide, provide, BlocksInv, GivenInv
<1>4. CASE param_skip
  <2>1. UNCHANGED <<routes, stack, blocks, given, thrown>>
    BY <1>4 DEF param_skip, provide_mismatch, provide_all, provide_return
  <2> QED  BY <2>1 DEF BlocksInv, GivenInv
<1>5. ASSUME NEW e \in left, param_begin(e)
      PROVE  BlocksInv' /\ GivenInv'
  <2>1. /\ routes' = routes /\ enter /\ stack = <<>> /\ stack' # <<>>
        /\ Len(stack') = 1 /\ Len(stack) = 0
    BY <1>5 DEF param_begin, provide_match, begin_exec
  <2> QED  BY <2>1, EnterKeepsTypes
<1>6. ASSUME NEW it \in Held, param_call(it)
      PROVE  BlocksInv' /\ GivenInv'
  <2>1. /\ routes' = routes /\ enter /\ stack # <<>> /\ call(it)
    BY <1>6, CallPushes DEF param_call, call
  <2>2. PICK g, h \in Frames :
          /\ stack' = Append([stack EXCEPT ![Len(stack)] = g], h)
          /\ FrameInv(whole, executed, g) /\ FrameInv(whole, executed, h)
    BY <2>1, CallPushes
  <2>3. stack \in Seq(Frames) /\ FramesInv
    BY DEF DispatchInv, TypeInv
  <2>4. stack' \in Seq(Frames) /\ Len(stack') = Len(stack) + 1
    BY <2>1, <2>2, <2>3, FramesPushed
  <2>5. stack' # <<>>
    BY <2>3, <2>4, EmptySeq, LenProperties
  <2> QED  BY <2>1, <2>4, <2>5, EnterKeepsTypes
<1>7. CASE param_return
  <2>1. /\ routes' = routes /\ thrown' = thrown /\ stack # <<>>
        /\ stack' = SubSeq(stack, 1, Len(stack) - 1)
        /\ given' = SubSeq(given, 1, Len(given) - 1)
        /\ blocks' = blocks \/ blocks' = [blocks EXCEPT ![Top.route.name] = reset]
    BY <1>7 DEF param_return, callback_return
  <2>2. stack \in Seq(Frames) /\ given \in Seq(Arguments) /\ Len(given) = Len(stack)
    BY DEF DispatchInv, TypeInv, GivenInv
  <2>3. PICK k \in Nat : Len(stack) = k + 1
    <3>1. Len(stack) \in Nat \ {0}
      BY <2>1, <2>2, EmptySeq
    <3> QED  BY <3>1, Len(stack) - 1 \in Nat
  <2>4. GivenInv'
    <3>1. Len(stack') = k
      BY <2>1, <2>2, <2>3
    <3>2. given' \in Seq(Arguments) /\ Len(given') = k
      BY <2>1, <2>2, <2>3
    <3>3. thrown' \in BOOLEAN
      BY <2>1 DEF GivenInv
    <3> QED  BY <3>1, <3>2, <3>3 DEF GivenInv
  <2>5. /\ DOMAIN blocks' = DOMAIN blocks
        /\ \A name \in DOMAIN blocks : blocks'[name] = blocks[name] \/ blocks'[name] = reset
    BY <2>1
  <2>6. reset \in Block
    BY EmptySeq DEF reset, Block
  <2>7. BlocksInv'
    BY <2>1, <2>5, <2>6 DEF BlocksInv
  <2> QED  BY <2>4, <2>7
<1>8. CASE unwind
  <2>1. UNCHANGED <<routes, blocks>> /\ thrown' = FALSE /\ stack' = <<>> /\ given' = <<>>
    BY <1>8 DEF unwind
  <2> QED  BY <2>1, EmptySeq DEF BlocksInv, GivenInv
<1>9. ASSUME NEW it \in Held, param_advance(it)
      PROVE  BlocksInv' /\ GivenInv'
  <2>1. /\ UNCHANGED <<routes, blocks, given, thrown>> /\ stack # <<>> /\ advance(it)
    BY <1>9, AdvanceMoves DEF param_advance, advance
  <2>2. PICK g \in Frames :
          stack' = [stack EXCEPT ![Len(stack)] = g] /\ FrameInv(whole, executed, g)
    BY <2>1, AdvanceMoves
  <2>3. Len(stack') = Len(stack)
    BY <2>1, <2>2, FramesReplaced DEF DispatchInv, TypeInv
  <2> QED  BY <2>1, <2>3 DEF BlocksInv, GivenInv
<1> QED  BY <1>1, <1>2, <1>3, <1>4, <1>5, <1>6, <1>7, <1>8, <1>9 DEF ParamNext

(* Every variable of Dispatch and Param keeps its type: no callback beyond *)
(* the last is entered, no iterator runs out of target, and rp_iter_ always *)
(* points at a part of the expression.                                   *)
THEOREM ParamTypeCorrect ==
  ASSUME SoleChains
  PROVE  ParamSpec => []ParamTypeOK
<1>1. ParamSpec => []DispatchInv
  BY DispatchInvHolds
<1>2. ParamInit => BlocksInv /\ GivenInv
  <2> SUFFICES ASSUME ParamInit
               PROVE  BlocksInv /\ GivenInv
    OBVIOUS
  <2>1. routes = {} /\ DOMAIN blocks = {} /\ given = <<>> /\ thrown = FALSE /\ stack = <<>>
    BY DEF ParamInit, Init
  <2> QED  BY <2>1, EmptySeq DEF BlocksInv, GivenInv
<1>3. DispatchInv /\ DispatchInv' /\ BlocksInv /\ GivenInv /\ [ParamNext]_param_vars
        => BlocksInv' /\ GivenInv'
  BY TypesKept
<1>4. DispatchInv /\ BlocksInv /\ GivenInv => ParamTypeOK
  BY ParamTypes
<1> QED  BY <1>1, <1>2, <1>3, <1>4, PTL DEF ParamSpec
-----------------------------------------------------------------------------
(* The positions of a target w that the i-th callback on a stack st may     *)
(* expect as arguments, the pieces there, and the tuple they make.          *)
PositionOf(w, due) == Least(due + 1, Len(w))
Shown(w, st, i) ==
  {k \in 1 .. Len(w) :
     /\ st[i].route.regex[k] = Any
     /\ st[i].route.callbacks = 1 \/ \E j \in 1 .. i : PositionOf(w, st[j].due) = k}
Expect(args) == [n \in 1 .. Count |-> IF n \in DOMAIN args THEN args[n] ELSE Default]

(* Where the block of a chain stands while its n-th callback runs, and has  *)
(* called nothing yet.                                                     *)
BlockAt(w, due, args) == [rp |-> Least(due + 2, Len(w) + 1), cur_pos_cb |-> due, str_args |-> args]

(* The way to the i-th callback: each saw its own segment, none below it has *)
(* called a second one, and each is further along than the one below.       *)
OneWayTo(st, i) ==
  /\ \A j \in 1 .. i : Own(st[j])
  /\ \A j \in 1 .. i - 1 : st[j].calls <= 1 /\ st[j].due < st[j + 1].due

ArgInv ==
  /\ \A i \in DOMAIN stack :
       OneWayTo(stack, i) => given[i] = Expect(At(whole, Shown(whole, stack, i)))
  /\ stack # <<>> /\ OneWayTo(stack, Len(stack)) =>
       /\ ~IsLast(Top) /\ Top.calls = 0 =>
            blocks[Top.route.name]
            = BlockAt(whole, Top.due, At(whole, Shown(whole, stack, Len(stack))))
       /\ thrown => \E n \in 1 .. Count : given[Len(stack)][n] \in Unconvertible
-----------------------------------------------------------------------------
(* The member of a set of positions with n members up to it is the n-th.    *)
LEMMA NthIs ==
  ASSUME NEW m \in Nat, NEW S \in SUBSET (1 .. m), NEW i \in S,
         NEW n, n = Cardinality({j \in S : j <= i})
  PROVE  Nth(S, n) = i
<1> DEFINE UpTo(k) == {j \in S : j <= k}
<1>1. \A j \in S : j \in Nat
  OBVIOUS
<1>2. IsFiniteSet(S)
  BY FS_Interval, FS_Subset, 1 \in Int, m \in Int
<1>3. ASSUME NEW x \in S, NEW y \in S, x < y
      PROVE  Cardinality(UpTo(x)) # Cardinality(UpTo(y))
  <2>1. UpTo(x) \in SUBSET UpTo(y)
    <3>1. \A j \in S : j <= x => j <= y
      BY <1>1, <1>3
    <3> QED  BY <3>1
  <2>2. y \in UpTo(y) /\ y \notin UpTo(x)
    BY <1>1, <1>3
  <2>3. IsFiniteSet(UpTo(y))
    BY <1>2, UpTo(y) \in SUBSET S, FS_Subset
  <2> HIDE DEF UpTo
  <2> QED  BY <2>1, <2>2, <2>3, FS_Subset
<1>4. ASSUME NEW k \in S, Cardinality(UpTo(k)) = n
      PROVE  k = i
  <2>1. ~(k < i) /\ ~(i < k)
    BY <1>3, <1>4
  <2> QED  BY <1>1, <2>1
<1>5. Nth(S, n) \in S /\ Cardinality(UpTo(Nth(S, n))) = n
  BY DEF Nth
<1> QED  BY <1>4, <1>5

(* At no positions there is nothing.                                       *)
LEMMA AtNone ==
  ASSUME NEW w
  PROVE  At(w, {}) = <<>>
<1>1. Cardinality({}) = 0
  BY FS_EmptySet
<1>2. At(w, {}) = [n \in 1 .. 0 |-> w[Nth({}, n)]]
  BY <1>1 DEF At
<1> QED  BY <1>2

(* A position above all others is the last.                                *)
LEMMA AtOneMore ==
  ASSUME NEW w \in Seq(Pieces), NEW S \in SUBSET (1 .. Len(w)), NEW p \in 1 .. Len(w),
         \A j \in S : j < p
  PROVE  /\ At(w, S) \in Seq(Pieces)
         /\ At(w, S \cup {p}) = At(w, S) \o <<w[p]>>
<1>1. PICK m \in Nat : m = Len(w)
  OBVIOUS
<1>2. PICK T \in SUBSET (1 .. m) : T = S \cup {p}
  BY <1>1
<1>3. S \in SUBSET (1 .. m) /\ p \in 1 .. m /\ p \notin S /\ \A j \in S : j \in Nat
  BY <1>1
<1>4. IsFiniteSet(S)
  BY <1>3, FS_Interval, FS_Subset, 1 \in Int, m \in Int
<1>5. PICK c \in Nat : c = Cardinality(S)
  BY <1>4, FS_CardinalityType
<1>6. Cardinality(T) = c + 1
  BY <1>2, <1>3, <1>4, <1>5, FS_AddElement
<1>7. Nth(T, c + 1) = p
  <2>1. \A j \in T : j <= p
    BY <1>2, <1>3
  <2>2. {j \in T : j <= p} = T
    BY <2>1
  <2>3. p \in T
    BY <1>2
  <2> QED  BY <1>6, <2>2, <2>3, NthIs
<1>8. ASSUME NEW n \in 1 .. c
      PROVE  Nth(S, n) \in S /\ Nth(T, n) = Nth(S, n)
  <2>1. PICK i \in S : i = Nth(S, n) /\ Cardinality({j \in S : j <= i}) = n
    BY <1>3, <1>5, NthIsMember
  <2>2. {j \in T : j <= i} = {j \in S : j <= i}
    <3>1. ~(p <= i)
      BY <1>3
    <3> QED  BY <1>2, <3>1
  <2>3. i \in T
    BY <1>2
  <2>4. Nth(T, n) = i
    BY ZenonT(30), <2>1, <2>2, <2>3, NthIs
  <2> QED  BY <2>1, <2>4
<1>9. PICK a : a = [n \in 1 .. c |-> w[Nth(S, n)]]
  OBVIOUS
<1>10. a \in Seq(Pieces) /\ Len(a) = c /\ \A n \in 1 .. c : a[n] = w[Nth(S, n)]
  <2>1. ASSUME NEW n \in 1 .. c
        PROVE  w[Nth(S, n)] \in Pieces
    <3>1. Nth(S, n) \in 1 .. Len(w)
      BY <1>8
    <3> QED  BY <3>1
  <2> QED  BY <1>9, <2>1
<1>11. PICK b : b = [n \in 1 .. c + 1 |-> w[Nth(T, n)]]
  OBVIOUS
<1>12. \A n \in 1 .. c + 1 : b[n] = IF n = c + 1 THEN w[p] ELSE a[n]
  <2> SUFFICES ASSUME NEW n \in 1 .. c + 1
               PROVE  b[n] = IF n = c + 1 THEN w[p] ELSE a[n]
    OBVIOUS
  <2>1. b[n] = w[Nth(T, n)]
    BY <1>11
  <2>2. CASE n = c + 1
    BY <1>7, <2>1, <2>2
  <2>3. CASE n # c + 1
    <3>1. n \in 1 .. c
      BY <2>3
    <3> QED  BY <1>8, <1>10, <2>1, <2>3, <3>1
  <2> QED  BY <2>2, <2>3
<1>13. w[p] \in Pieces
  OBVIOUS
<1>14. b \in Seq(Pieces) /\ Len(b) = c + 1
  <2>1. ASSUME NEW n \in 1 .. c + 1
        PROVE  w[Nth(T, n)] \in Pieces
    <3>1. b[n] \in Pieces
      <4>1. CASE n = c + 1
        BY <1>12, <1>13, <4>1
      <4>2. CASE n # c + 1
        <5>1. n \in 1 .. c
          BY <4>2
        <5> QED  BY <1>10, <1>12, <4>2, <5>1
      <4> QED  BY <4>1, <4>2
    <3> QED  BY <1>11, <3>1
  <2> QED  BY <1>11, <2>1
<1>15. PICK q : q = a \o <<w[p]>>
  OBVIOUS
<1>16. /\ q \in Seq(Pieces) /\ Len(q) = c + 1
       /\ \A n \in 1 .. c + 1 : q[n] = IF n = c + 1 THEN w[p] ELSE a[n]
  <2>1. <<w[p]>> \in Seq(Pieces) /\ Len(<<w[p]>>) = 1 /\ <<w[p]>>[1] = w[p]
    BY <1>13
  <2>2. /\ q \in Seq(Pieces) /\ Len(q) = Len(a) + 1
        /\ \A n \in 1 .. Len(a) + 1 : q[n] = IF n <= Len(a) THEN a[n] ELSE <<w[p]>>[n - Len(a)]
    BY <1>10, <1>15, <2>1, ConcatProperties
  <2>3. ASSUME NEW n \in 1 .. c + 1
        PROVE  q[n] = IF n = c + 1 THEN w[p] ELSE a[n]
    <3>1. CASE n = c + 1
      <4>1. ~(n <= Len(a)) /\ n - Len(a) = 1
        BY <1>10, <3>1
      <4> QED  BY <1>10, <2>1, <2>2, <3>1, <4>1
    <3>2. CASE n # c + 1
      <4>1. n <= Len(a)
        BY <1>10, <3>2
      <4> QED  BY <1>10, <2>2, <3>2, <4>1
    <3> QED  BY <3>1, <3>2
  <2> QED  BY <1>10, <2>2, <2>3
<1>17. b = q
  <2>1. \A n \in 1 .. c + 1 : b[n] = q[n]
    BY <1>12, <1>16
  <2> QED  BY <1>14, <1>16, <2>1, SeqEqual
<1>18. At(w, S) = a /\ At(w, T) = b
  BY <1>5, <1>6, <1>9, <1>11 DEF At
<1> QED  BY <1>2, <1>10, <1>15, <1>17, <1>18

(* A part of one piece captures the piece it is matched with, if any.       *)
LEMMA CaptureOne ==
  ASSUME NEW a \in Pieces \cup {Any}, NEW x \in Pieces
  PROVE  captures(<<a>>, <<x>>) = IF a = Any THEN <<x>> ELSE <<>>
<1>1. match(<<a>>, <<x>>) <=> a \in {Any, x}
  BY DEF match
<1>2. PICK S : S = {i \in 1 .. Len(<<a>>) : <<a>>[i] = Any}
  OBVIOUS
<1>3. CASE a = Any
  <2>1. S = {} \cup {1}
    BY <1>2, <1>3
  <2>2. <<x>> \in Seq(Pieces) /\ Len(<<x>>) = 1 /\ <<x>>[1] = x
    OBVIOUS
  <2>3. At(<<x>>, {} \cup {1}) = At(<<x>>, {}) \o <<x>>
    <3>1. PICK w \in Seq(Pieces) : w = <<x>>
      BY <2>2
    <3>2. {} \in SUBSET (1 .. Len(w)) /\ 1 \in 1 .. Len(w) /\ \A j \in {} : j < 1
      BY <2>2, <3>1
    <3>3. At(w, {} \cup {1}) = At(w, {}) \o <<w[1]>>
      BY <3>2, AtOneMore
    <3> QED  BY <2>2, <3>1, <3>3
  <2>4. At(<<x>>, S) = <<x>>
    <3>1. <<>> \o <<x>> = <<x>>
      OBVIOUS
    <3> QED  BY <2>1, <2>3, <3>1, AtNone
  <2> QED  BY <1>1, <1>2, <1>3, <2>4 DEF captures
<1>4. CASE a # Any
  <2>1. S = {}
    BY <1>2, <1>4
  <2>2. At(<<x>>, S) = <<>>
    BY <2>1, AtNone
  <2> QED  BY <1>2, <1>4, <2>2 DEF captures
<1> QED  BY <1>3, <1>4

(* The parts of the split expression of a route without '^'.                *)
LEMMA PartsAre ==
  ASSUME NEW e \in Route
  PROVE  /\ split_regex(e)[1] = e.regex
         /\ ~e.anchored => \A k \in 1 .. Len(e.regex) : split_regex(e)[k + 1] = <<e.regex[k]>>
<1>1. PICK P : P = Pieces \cup {Any}
  OBVIOUS
<1>2. e.regex \in Seq(P) /\ e.anchored \in BOOLEAN
  BY <1>1 DEF Route
<1>3. PICK n \in Nat : n = Len(e.regex)
  BY <1>2
<1>4. PICK a : a = <<e.regex>>
  OBVIOUS
<1>5. a \in Seq(Seq(P)) /\ Len(a) = 1 /\ a[1] = e.regex
  BY <1>2, <1>4
<1>6. PICK b : b = IF e.anchored THEN << <<>> >> ELSE <<>>
  OBVIOUS
<1>7. b \in Seq(Seq(P)) /\ (~e.anchored => Len(b) = 0)
  <2>1. CASE e.anchored
    BY <1>6, <2>1
  <2>2. CASE ~e.anchored
    BY <1>6, <2>2
  <2> QED  BY <2>1, <2>2
<1>8. PICK c : c = [i \in 1 .. n |-> <<e.regex[i]>>]
  OBVIOUS
<1>9. c \in Seq(Seq(P)) /\ Len(c) = n /\ \A i \in 1 .. n : c[i] = <<e.regex[i]>>
  <2>1. \A i \in 1 .. n : <<e.regex[i]>> \in Seq(P)
    BY <1>2, <1>3
  <2> QED  BY <1>8, <2>1
<1>10. PICK d : d = a \o b
  OBVIOUS
<1>11. /\ d \in Seq(Seq(P)) /\ Len(d) = 1 + Len(b)
       /\ \A i \in 1 .. 1 + Len(b) : d[i] = IF i <= 1 THEN a[i] ELSE b[i - 1]
  <2>1. /\ a \o b \in Seq(Seq(P)) /\ Len(a \o b) = Len(a) + Len(b)
        /\ \A i \in 1 .. Len(a) + Len(b) :
             (a \o b)[i] = IF i <= Len(a) THEN a[i] ELSE b[i - Len(a)]
    BY <1>5, <1>7, ConcatProperties, Zenon
  <2> QED  BY <1>5, <1>10, <2>1, Zenon
<1>12. d[1] = e.regex
  <2>1. Len(b) \in Nat
    BY <1>7
  <2>2. 1 \in 1 .. 1 + Len(b) /\ 1 <= 1
    BY <2>1
  <2> QED  BY <1>5, <1>11, <2>2
<1>13. PICK s : s = d \o c
  OBVIOUS
<1>14. /\ Len(d) \in Nat /\ Len(d) >= 1
       /\ \A i \in 1 .. Len(d) + n : s[i] = IF i <= Len(d) THEN d[i] ELSE c[i - Len(d)]
  <2>1. Len(d) \in Nat /\ Len(d) >= 1
    BY <1>7, <1>11
  <2> QED  BY <1>9, <1>11, <1>13, <2>1, ConcatProperties
<1>15. split_regex(e) = s
  BY <1>3, <1>4, <1>6, <1>8, <1>10, <1>13 DEF split_regex
<1>16. s[1] = e.regex
  <2>1. 1 \in 1 .. Len(d) + n /\ 1 <= Len(d)
    BY <1>14
  <2> QED  BY <1>12, <1>14, <2>1
<1>17. ASSUME ~e.anchored, NEW k \in 1 .. n
       PROVE  s[k + 1] = <<e.regex[k]>>
  <2>1. Len(d) = 1
    BY <1>7, <1>11, <1>17
  <2>2. k + 1 \in 1 .. Len(d) + n /\ ~(k + 1 <= Len(d)) /\ k + 1 - Len(d) = k
    BY <2>1
  <2> QED  BY SMTT(30), <1>9, <1>14, <2>2
<1> QED  BY <1>3, <1>15, <1>16, <1>17

(* What a part of one piece adds to the arguments.                          *)
Captured(a, x) == IF a = Any THEN <<x>> ELSE <<>>
CapturedAt(w, e, due) == Captured(e.regex[PositionOf(w, due)], w[PositionOf(w, due)])

(* Where the wrappers of a chain leave the block: that of the first callback *)
(* makes the first step along the parts, and captures the first piece.      *)
LEMMA ProcessFirst ==
  ASSUME NEW w \in Seq(Pieces), w # <<>>, NEW f \in Frames, ~f.route.anchored,
         Len(f.route.regex) = Len(w), ~IsLast(f), f.at = 0, f.seen = <<w[1]>>
  PROVE  process(reset, f) = BlockAt(w, 0, Captured(f.route.regex[1], w[1]))
<1>1. PICK e \in Route : e = f.route
  BY DEF Frames
<1>2. PICK L \in Nat \ {0} : L = Len(w)
  BY EmptySeq
<1>3. e.regex \in Seq(Pieces \cup {Any}) /\ Len(e.regex) = L
  BY <1>1, <1>2 DEF Route
<1>4. Len(split_regex(e)) = L + 1
  <2>1. Len(split_regex(e)) = Len(e.regex) + IF e.anchored THEN 2 ELSE 1
    BY SplitTypes
  <2> QED  BY <1>1, <1>3, <2>1
<1>5. split_regex(e)[2] = <<e.regex[1]>>
  <2>1. 1 \in 1 .. Len(e.regex) /\ 1 + 1 = 2
    BY <1>2, <1>3
  <2> QED  BY <1>1, <2>1, PartsAre
<1>6. PICK b : b = [reset EXCEPT !.rp = 2, !.cur_pos_cb = 0]
  OBVIOUS
<1>7. process(reset, f) = capture(b, e, <<w[1]>>)
  <2>1. process(reset, f) = process_advanced(reset, e, 0, <<w[1]>>)
    BY <1>1 DEF process
  <2>2. Least(reset.rp + 0, L + 1) = 1 /\ reset.cur_pos_cb = 0
    BY <1>2 DEF reset, Least
  <2>3. process_advanced(reset, e, 0, <<w[1]>>) = capture(b, e, <<w[1]>>)
    BY <1>4, <1>6, <2>2 DEF process_advanced, reset
  <2> QED  BY <2>1, <2>3
<1>8. b = [rp |-> 2, cur_pos_cb |-> 0, str_args |-> <<>>]
  BY <1>6 DEF reset
<1>9. captures(<<e.regex[1]>>, <<w[1]>>) = Captured(e.regex[1], w[1])
  <2>1. e.regex[1] \in Pieces \cup {Any} /\ w[1] \in Pieces
    BY <1>2, <1>3
  <2> QED  BY <2>1, CaptureOne DEF Captured
<1>10. capture(b, e, <<w[1]>>)
       = [rp |-> 2, cur_pos_cb |-> 0, str_args |-> <<>> \o Captured(e.regex[1], w[1])]
  BY <1>5, <1>8, <1>9 DEF capture
<1>11. <<>> \o Captured(e.regex[1], w[1]) = Captured(e.regex[1], w[1])
  <2>1. w[1] \in Pieces
    BY <1>2
  <2> QED  BY <2>1 DEF Captured
<1>12. Least(0 + 2, L + 1) = 2
  BY <1>2 DEF Least
<1> QED  BY <1>1, <1>2, <1>7, <1>10, <1>11, <1>12 DEF BlockAt

(* That of any other but the last goes on to the piece its callback sees.   *)
LEMMA ProcessNext ==
  ASSUME NEW w \in Seq(Pieces), w # <<>>, NEW f \in Frames, ~f.route.anchored,
         Len(f.route.regex) = Len(w), ~IsLast(f), NEW d \in Nat, d < f.due,
         f.at = f.due, f.seen = PieceOf(w, f.due + 1), NEW args \in Seq(Pieces)
  PROVE  process(BlockAt(w, d, args), f)
         = BlockAt(w, f.due, args \o CapturedAt(w, f.route, f.due))
<1>0. PICK p : p = PositionOf(w, f.due)
  OBVIOUS
<1>1. PICK e \in Route : e = f.route
  BY DEF Frames
<1>2. PICK L \in Nat \ {0} : L = Len(w)
  BY EmptySeq
<1>3. e.regex \in Seq(Pieces \cup {Any}) /\ Len(e.regex) = L
  BY <1>1, <1>2 DEF Route
<1>4. Len(split_regex(e)) = L + 1
  <2>1. Len(split_regex(e)) = Len(e.regex) + IF e.anchored THEN 2 ELSE 1
    BY SplitTypes
  <2> QED  BY <1>1, <1>3, <2>1
<1>5. PICK to \in Nat : to = f.due
  BY DEF Frames
<1>6. p \in 1 .. L /\ p = IF to + 1 < L THEN to + 1 ELSE L
  BY <1>0, <1>2, <1>5 DEF PositionOf, Least
<1>7. f.seen = <<w[p]>>
  BY <1>2, <1>5, <1>6 DEF PieceOf
<1>8. split_regex(e)[p + 1] = <<e.regex[p]>>
  BY <1>1, <1>3, <1>6, PartsAre
<1>9. PICK b : b = BlockAt(w, d, args)
  OBVIOUS
<1>10. b = [rp |-> Least(d + 2, L + 1), cur_pos_cb |-> d, str_args |-> args]
  BY <1>2, <1>9 DEF BlockAt
<1>11. Least(Least(d + 2, L + 1) + (to - d), L + 1) = p + 1 /\ Least(to + 2, L + 1) = p + 1
  BY <1>2, <1>5, <1>6 DEF Least
<1>12. process(b, f) = capture([b EXCEPT !.rp = p + 1, !.cur_pos_cb = to], e, <<w[p]>>)
  <2>1. process(b, f) = process_advanced(b, e, to, <<w[p]>>)
    BY <1>1, <1>5, <1>7 DEF process
  <2>2. to > b.cur_pos_cb /\ b.cur_pos_cb = d /\ b.rp = Least(d + 2, L + 1) /\ d + (to - d) = to
    BY <1>5, <1>10
  <2>3. (IF to > b.cur_pos_cb THEN to - b.cur_pos_cb ELSE 0) = to - d
    BY <2>2
  <2>4. p + 1 # 1
    BY <1>6
  <2>5. process_advanced(b, e, to, <<w[p]>>)
        = capture([b EXCEPT !.rp = p + 1, !.cur_pos_cb = @ + (to - d)], e, <<w[p]>>)
    BY <1>4, <1>11, <2>2, <2>3, <2>4 DEF process_advanced
  <2> QED  BY <1>10, <2>1, <2>2, <2>5
<1>13. captures(<<e.regex[p]>>, <<w[p]>>) = Captured(e.regex[p], w[p])
  <2>1. e.regex[p] \in Pieces \cup {Any} /\ w[p] \in Pieces
    BY <1>2, <1>3, <1>6
  <2> QED  BY <2>1, CaptureOne DEF Captured
<1>14. PICK c : c = [b EXCEPT !.rp = p + 1, !.cur_pos_cb = to]
  OBVIOUS
<1>15. c = [rp |-> p + 1, cur_pos_cb |-> to, str_args |-> args]
  BY <1>10, <1>14
<1>16. capture(c, e, <<w[p]>>)
       = [rp |-> p + 1, cur_pos_cb |-> to, str_args |-> args \o Captured(e.regex[p], w[p])]
  <2>1. c.rp = p + 1 /\ c.str_args = args
    BY <1>15
  <2>2. capture(c, e, <<w[p]>>) = [c EXCEPT !.str_args = args \o Captured(e.regex[p], w[p])]
    BY <1>8, <1>13, <2>1 DEF capture
  <2> QED  BY <1>15, <2>2
<1> QED  BY <1>0, <1>1, <1>2, <1>5, <1>9, <1>11, <1>12, <1>14, <1>16 DEF BlockAt, CapturedAt

(* That of the last takes the last part, whatever piece its callback sees.  *)
LEMMA ProcessLast ==
  ASSUME NEW w \in Seq(Pieces), w # <<>>, NEW f \in Frames, ~f.route.anchored,
         Len(f.route.regex) = Len(w), IsLast(f), NEW d \in Nat,
         f.seen = PieceOf(w, f.due + 1), NEW args \in Seq(Pieces)
  PROVE  process(BlockAt(w, d, args), f)
         = [rp |-> Len(w) + 1, cur_pos_cb |-> Len(w),
            str_args |-> args \o Captured(f.route.regex[Len(w)], w[PositionOf(w, f.due)])]
<1>0. PICK p : p = PositionOf(w, f.due)
  OBVIOUS
<1>1. PICK e \in Route : e = f.route
  BY DEF Frames
<1>2. PICK L \in Nat \ {0} : L = Len(w)
  BY EmptySeq
<1>3. e.regex \in Seq(Pieces \cup {Any}) /\ Len(e.regex) = L
  BY <1>1, <1>2 DEF Route
<1>4. Len(split_regex(e)) = L + 1
  <2>1. Len(split_regex(e)) = Len(e.regex) + IF e.anchored THEN 2 ELSE 1
    BY SplitTypes
  <2> QED  BY <1>1, <1>3, <2>1
<1>5. PICK to \in Nat : to = f.due
  BY DEF Frames
<1>6. p \in 1 .. L /\ p = IF to + 1 < L THEN to + 1 ELSE L
  BY <1>0, <1>2, <1>5 DEF PositionOf, Least
<1>7. f.seen = <<w[p]>>
  BY <1>2, <1>5, <1>6 DEF PieceOf
<1>8. split_regex(e)[L + 1] = <<e.regex[L]>>
  <2>1. L \in 1 .. Len(e.regex)
    BY <1>2, <1>3
  <2> QED  BY <1>1, <2>1, PartsAre
<1>9. PICK b : b = BlockAt(w, d, args)
  OBVIOUS
<1>10. b = [rp |-> Least(d + 2, L + 1), cur_pos_cb |-> d, str_args |-> args]
  BY <1>2, <1>9 DEF BlockAt
<1>11. b.rp # 1
  <2>1. Least(d + 2, L + 1) # 1
    BY <1>2 DEF Least
  <2> QED  BY <1>10, <2>1
<1>12. PICK c : c = [b EXCEPT !.rp = Len(split_regex(e)), !.cur_pos_cb = Len(split_regex(e)) - 1]
  OBVIOUS
<1>13. c = [rp |-> L + 1, cur_pos_cb |-> L, str_args |-> args]
  <2>1. Len(split_regex(e)) - 1 = L
    BY <1>4
  <2> QED  BY <1>4, <1>10, <1>12, <2>1
<1>14. process(b, f) = capture(c, e, <<w[p]>>)
  <2>1. process(b, f) = process_classic(b, e, <<w[p]>>)
    BY <1>1, <1>7 DEF process
  <2>2. process_classic(b, e, <<w[p]>>) = capture(c, e, <<w[p]>>)
    <3>1. c = IF b.rp = 1 THEN b
             ELSE [b EXCEPT !.rp = Len(split_regex(e)), !.cur_pos_cb = Len(split_regex(e)) - 1]
      BY <1>11, <1>12, Zenon
    <3> QED  BY <3>1 DEF process_classic
  <2> QED  BY <2>1, <2>2
<1>15. captures(<<e.regex[L]>>, <<w[p]>>) = Captured(e.regex[L], w[p])
  <2>1. e.regex[L] \in Pieces \cup {Any} /\ w[p] \in Pieces
    BY <1>2, <1>3, <1>6
  <2> QED  BY <2>1, CaptureOne DEF Captured
<1>16. capture(c, e, <<w[p]>>)
       = [rp |-> L + 1, cur_pos_cb |-> L, str_args |-> args \o Captured(e.regex[L], w[p])]
  <2>1. c.rp = L + 1 /\ c.str_args = args
    BY <1>13
  <2>2. capture(c, e, <<w[p]>>) = [c EXCEPT !.str_args = args \o Captured(e.regex[L], w[p])]
    BY <1>8, <1>15, <2>1 DEF capture
  <2> QED  BY <1>13, <2>2
<1> QED  BY <1>0, <1>1, <1>2, <1>9, <1>14, <1>16

(* A single callback is given all captures of the whole target.             *)
LEMMA ProcessSole ==
  ASSUME NEW w \in Seq(Pieces), w # <<>>, NEW f \in Frames, IsLast(f), f.seen = w,
         match(f.route.regex, w)
  PROVE  process(reset, f).str_args = At(w, {k \in 1 .. Len(w) : f.route.regex[k] = Any})
<1>1. PICK e \in Route : e = f.route
  BY DEF Frames
<1>2. process(reset, f) = capture(reset, e, w)
  BY <1>1 DEF process, process_classic, reset
<1>3. split_regex(e)[1] = e.regex
  BY PartsAre
<1>4. Len(e.regex) = Len(w)
  BY <1>1 DEF match
<1>5. PICK S : S = {k \in 1 .. Len(w) : e.regex[k] = Any}
  OBVIOUS
<1>6. captures(e.regex, w) = At(w, S)
  BY <1>1, <1>4, <1>5 DEF captures
<1>7. S \in SUBSET (1 .. Len(w)) /\ Len(w) \in Nat
  BY <1>5
<1>8. <<>> \o At(w, S) = At(w, S)
  <2>1. At(w, S) \in Seq(Pieces)
    BY <1>1, <1>3, <1>6, CapturesTypes DEF Route
  <2> QED  BY <2>1
<1> QED  BY <1>1, <1>2, <1>3, <1>5, <1>6, <1>8 DEF capture, reset

(* A callback is given what was captured, and defaults for the rest; and a   *)
(* conversion fails only for one of these.  (Of a pack of twelve types this *)
(* is not true: see paramcb_count.)                                        *)
LEMMA ArgumentsAre ==
  ASSUME Count # 12, NEW args \in Seq(Pieces)
  PROVE  /\ arguments(args) = Expect(args)
         /\ TRUE \in Throws(args) => \E n \in 1 .. Count : Expect(args)[n] \in Unconvertible
<1>1. PICK l \in Nat : l = Len(args) /\ DOMAIN args = 1 .. l
  BY LenProperties
<1>2. Count \in Nat /\ Count > 0
  BY PackAssumption
<1>3. converted(args) = IF l >= Count THEN Count ELSE l
  <2>1. paramcb_count = Count
    BY DEF paramcb_count
  <2>2. CASE l >= Count
    BY <1>1, <1>2, <2>1, <2>2 DEF converted
  <2>3. CASE ~(l >= Count)
    <3>1. Count - l < Count \/ l = 0
      BY <1>1, <1>2
    <3>2. CASE l = 0
      BY <1>1, <1>2, <2>1, <2>3, <3>2 DEF converted
    <3>3. CASE l # 0
      BY <1>1, <1>2, <2>1, <2>3, <3>1, <3>3 DEF converted
    <3> QED  BY <3>2, <3>3
  <2> QED  BY <2>2, <2>3
<1>4. PICK c \in Nat : c = converted(args) /\ c <= l /\ c <= Count /\ (c = l \/ c = Count)
  BY <1>1, <1>2, <1>3
<1>5. ASSUME NEW n \in 1 .. Count
      PROVE  (IF n > c THEN Default ELSE IF n \in DOMAIN args THEN args[n] ELSE OutOfRange)
             = IF n \in DOMAIN args THEN args[n] ELSE Default
  <2>1. CASE n > c
    <3>1. n \notin DOMAIN args
      BY <1>1, <1>2, <1>4, <2>1
    <3> QED  BY <2>1, <3>1
  <2>2. CASE ~(n > c)
    <3>1. n \in DOMAIN args
      BY <1>1, <1>4, <2>2
    <3> QED  BY <2>2, <3>1
  <2> QED  BY <2>1, <2>2
<1>6. arguments(args) = Expect(args)
  BY <1>4, <1>5 DEF arguments, Expect
<1>7. ASSUME TRUE \in Throws(args)
      PROVE  \E n \in 1 .. Count : Expect(args)[n] \in Unconvertible
  <2>1. PICK n \in 1 .. c : args[n] \in Unconvertible
    <3>1. ~(c > Len(args))
      BY <1>1, <1>4
    <3> QED  BY <1>4, <1>7, <3>1 DEF Throws
  <2>2. n \in 1 .. Count /\ n \in DOMAIN args
    BY <1>1, <1>2, <1>4
  <2>3. Expect(args)[n] = args[n]
    BY <2>2 DEF Expect
  <2> QED  BY <2>1, <2>2, <2>3
<1> QED  BY <1>6, <1>7

(* The positions shown depend on nothing but the routes and the advances.   *)
LEMMA ShownSame ==
  ASSUME NEW w, NEW st, NEW tt, NEW i \in Nat, tt[i].route = st[i].route,
         \A j \in 1 .. i : tt[j].due = st[j].due
  PROVE  Shown(w, tt, i) = Shown(w, st, i)
BY DEF Shown

(* Nor does the way to a callback depend on more than advances and calls.    *)
LEMMA WaySame ==
  ASSUME NEW st, NEW tt, NEW i \in Nat, OneWayTo(tt, i),
         \A j \in 1 .. i : tt[j].due = st[j].due /\ tt[j].cut = st[j].cut,
         \A j \in 1 .. i - 1 : tt[j].calls = st[j].calls
  PROVE  OneWayTo(st, i)
<1>1. \A j \in 1 .. i - 1 : j \in 1 .. i /\ j + 1 \in 1 .. i
  OBVIOUS
<1> QED  BY <1>1 DEF OneWayTo, Own

(* The first callback of a chain is shown the first piece.                  *)
LEMMA ShownFirst ==
  ASSUME NEW w \in Seq(Pieces), w # <<>>, NEW st, st[1].route.callbacks > 1, st[1].due = 0,
         st[1].route.callbacks \in Nat
  PROVE  At(w, Shown(w, st, 1)) = Captured(st[1].route.regex[1], w[1])
<1>1. PICK L \in Nat \ {0} : L = Len(w)
  BY EmptySeq
<1>2. PositionOf(w, st[1].due) = 1
  BY <1>1 DEF PositionOf, Least
<1>3. Shown(w, st, 1) = {k \in 1 .. L : st[1].route.regex[k] = Any /\ k = 1}
  <2>1. 1 .. 1 = {1} /\ st[1].route.callbacks # 1
    OBVIOUS
  <2> QED  BY <1>1, <1>2, <2>1 DEF Shown
<1>4. CASE st[1].route.regex[1] = Any
  <2>1. Shown(w, st, 1) = {} \cup {1}
    BY <1>1, <1>3, <1>4
  <2>2. {} \in SUBSET (1 .. Len(w)) /\ 1 \in 1 .. Len(w) /\ \A j \in {} : j < 1
    BY <1>1
  <2>3. At(w, {} \cup {1}) = At(w, {}) \o <<w[1]>>
    BY <2>2, AtOneMore
  <2>4. <<>> \o <<w[1]>> = <<w[1]>>
    <3>1. w[1] \in Pieces
      BY <1>1
    <3> QED  BY <3>1
  <2> QED  BY <1>4, <2>1, <2>3, <2>4, AtNone DEF Captured
<1>5. CASE st[1].route.regex[1] # Any
  <2>1. Shown(w, st, 1) = {}
    BY <1>3, <1>5
  <2> QED  BY <1>5, <2>1, AtNone DEF Captured
<1> QED  BY <1>4, <1>5

(* The callbacks of a chain on a stack, each further on than those below.   *)
ChainOn(st, m, e) ==
  /\ \A j \in 1 .. m + 1 : st[j].route = e /\ st[j].due \in Nat
  /\ \A j \in 1 .. m : st[j].due + 1 < e.callbacks /\ st[j].due < st[m + 1].due

(* A callback further on in a chain that fits its expression is shown the   *)
(* piece it sees, after those that were shown before.                      *)
LEMMA ShownNext ==
  ASSUME NEW w \in Seq(Pieces), w # <<>>, NEW e \in Route, e.callbacks > 1,
         Len(e.regex) = Len(w), FitsRegex(e), NEW m \in Nat \ {0}, NEW st,
         ChainOn(st, m, e)
  PROVE  At(w, Shown(w, st, m + 1))
         = At(w, Shown(w, st, m)) \o CapturedAt(w, e, st[m + 1].due)
<1>0. PICK p : p = PositionOf(w, st[m + 1].due)
  OBVIOUS
<1>1. PICK L \in Nat \ {0} : L = Len(w)
  BY EmptySeq
<1>2. PICK d \in Nat : d = st[m + 1].due
  <2>1. m + 1 \in 1 .. m + 1
    OBVIOUS
  <2> QED  BY <2>1 DEF ChainOn
<1>3. p \in 1 .. L /\ p = IF d + 1 < L THEN d + 1 ELSE L
  BY <1>0, <1>1, <1>2 DEF PositionOf, Least
<1>4. PICK S : S = Shown(w, st, m)
  OBVIOUS
<1>5. e.callbacks \in Nat /\ e.callbacks # 1
  BY DEF Route
<1>6. /\ S = {k \in 1 .. L : e.regex[k] = Any /\ \E j \in 1 .. m : PositionOf(w, st[j].due) = k}
      /\ Shown(w, st, m + 1)
         = {k \in 1 .. L : e.regex[k] = Any /\ \E j \in 1 .. m + 1 : PositionOf(w, st[j].due) = k}
  <2>1. st[m].route = e /\ st[m + 1].route = e
    <3>1. m \in 1 .. m + 1 /\ m + 1 \in 1 .. m + 1
      OBVIOUS
    <3> QED  BY <3>1 DEF ChainOn
  <2> QED  BY <1>1, <1>4, <1>5, <2>1 DEF Shown
<1>7. Shown(w, st, m + 1) = S \cup {k \in 1 .. L : e.regex[k] = Any /\ k = p}
  <2>1. \A j : j \in 1 .. m + 1 <=> j \in 1 .. m \/ j = m + 1
    OBVIOUS
  <2> QED  BY <1>0, <1>6, <2>1
<1>8. ASSUME NEW k \in S
      PROVE  k < p
  <2>1. k \in 1 .. L /\ e.regex[k] = Any
    BY <1>6
  <2>2. PICK j \in 1 .. m : PositionOf(w, st[j].due) = k
    BY <1>6
  <2>3. PICK c \in Nat : c = st[j].due
    <3>1. j \in 1 .. m + 1
      OBVIOUS
    <3> QED  BY <3>1 DEF ChainOn
  <2>4. k = IF c + 1 < L THEN c + 1 ELSE L
    BY <1>1, <2>2, <2>3 DEF PositionOf, Least
  <2>5. c + 1 < e.callbacks /\ c < d
    BY <1>2, <2>3 DEF ChainOn
  <2>6. c + 1 < L
    <3> SUFFICES ASSUME ~(c + 1 < L)  PROVE FALSE
      OBVIOUS
    <3>1. k = L
      BY <2>4
    <3>2. e.callbacks > L
      BY <1>1, <1>5, <2>3, <2>5
    <3> QED  BY <1>1, <2>1, <3>1, <3>2 DEF FitsRegex
  <2> QED  BY <1>1, <1>2, <1>3, <2>3, <2>4, <2>5, <2>6
<1>9. S \in SUBSET (1 .. Len(w)) /\ p \in 1 .. Len(w)
  BY <1>1, <1>3, <1>6
<1>10. At(w, S) \in Seq(Pieces) /\ At(w, S \cup {p}) = At(w, S) \o <<w[p]>>
  BY <1>8, <1>9, AtOneMore
<1>11. CASE e.regex[p] = Any
  <2>1. Shown(w, st, m + 1) = S \cup {p}
    BY <1>3, <1>7, <1>11
  <2> QED  BY <1>0, <1>4, <1>10, <1>11, <2>1 DEF Captured, CapturedAt
<1>12. CASE e.regex[p] # Any
  <2>1. Shown(w, st, m + 1) = S
    BY <1>7, <1>12
  <2>2. At(w, S) \o <<>> = At(w, S)
    BY <1>10
  <2> QED  BY <1>0, <1>4, <1>12, <2>1, <2>2 DEF Captured, CapturedAt
<1> QED  BY <1>11, <1>12

(* A wrapper is entered: its callback is given what it may expect, if that  *)
(* is what the wrapper leaves in the block.                                *)
LEMMA EnterGives ==
  ASSUME Count # 12, enter, NEW f, f = stack'[Len(stack')],
         f.route.name \in DOMAIN blocks,
         NEW block, block = process(blocks[f.route.name], f), block.str_args \in Seq(Pieces)
  PROVE  /\ blocks'[f.route.name] = block
         /\ given' = Append(given, Expect(block.str_args))
         /\ thrown' => \E n \in 1 .. Count : Expect(block.str_args)[n] \in Unconvertible
<1>1. /\ blocks' = [blocks EXCEPT ![f.route.name] = block]
      /\ given' = Append(given, arguments(block.str_args))
      /\ thrown' \in Throws(block.str_args)
  BY DEF enter
<1>2. thrown' \in BOOLEAN
  BY <1>1, ArgumentsTypes
<1>3. thrown' => TRUE \in Throws(block.str_args)
  BY <1>1, <1>2
<1> QED  BY <1>1, <1>3, ArgumentsAre

(* The first callback of a request is given its own arguments: the block is *)
(* as it was made.                                                         *)
LEMMA BeginKeepsArgs ==
  ASSUME SoleChains, ChainsFit, Count # 12,
         DispatchInv, DispatchInv', BlocksInv, GivenInv, ResetInv, NEW e \in left, param_begin(e)
  PROVE  ArgInv'
<1>1. /\ stack = <<>> /\ provide_match(e) /\ enter
  BY DEF param_begin, provide_match
<1>2. \A name \in DOMAIN blocks : blocks[name] = reset
  BY <1>1 DEF ResetInv, DispatchInv, TypeInv, Busy
<1>3. PICK h : /\ stack' = <<h>> /\ h.calls = 0 /\ h.route = e /\ h.at = 0 /\ h.due = 0
               /\ h.cut = 0
  BY <1>1 DEF provide_match, begin_exec, Frame, Iterator
<1>4. /\ stack' \in Seq(Frames) /\ Busy' /\ whole' \in Seq(Pieces) /\ whole' # <<>>
  BY <1>3, TargetsAssumption DEF DispatchInv, TypeInv
<1>5. Len(stack') = 1 /\ DOMAIN stack' = {1} /\ stack'[1] = h /\ stack' # <<>> /\ Top' = h
  BY <1>3 DEF Top
<1>6. h \in Frames /\ FrameInv(whole', executed', h)
  BY <1>4, <1>5 DEF DispatchInv, FramesInv
<1>7. match(e.regex, whole')
  <2>1. e \in executed'
    BY <1>3, <1>6 DEF FrameInv
  <2> QED  BY <1>4, <2>1 DEF DispatchInv, ProvideInv
<1>8. PICK w \in Seq(Pieces) : w = whole' /\ w # <<>>
  BY <1>4
<1>9. e \in routes /\ e \in Route /\ e.callbacks \in Nat \ {0} /\ routes \in RouteSets
  BY RouteTypes DEF DispatchInv, TypeInv
<1>10. e.name \in DOMAIN blocks /\ blocks[e.name] = reset
  BY <1>2, <1>9 DEF BlocksInv
<1>11. Len(e.regex) = Len(w)
  BY <1>7, <1>8 DEF match
<1>12. PICK st : st = stack'
  OBVIOUS
<1>13. PICK args : args = At(w, Shown(w, st, 1))
  OBVIOUS
<1>14. /\ process(reset, h).str_args = args /\ args \in Seq(Pieces)
       /\ ~IsLast(h) => process(reset, h) = BlockAt(w, 0, args)
  <2>1. CASE e.callbacks = 1
    <3>1. IsLast(h) /\ h.seen = w
      BY <1>3, <1>6, <1>8, <2>1 DEF IsLast, FrameInv
    <3>2. Shown(w, st, 1) = {k \in 1 .. Len(w) : e.regex[k] = Any}
      BY <1>3, <1>5, <1>12, <2>1 DEF Shown
    <3>3. process(reset, h).str_args = At(w, {k \in 1 .. Len(w) : h.route.regex[k] = Any})
      BY <1>3, <1>6, <1>7, <1>8, <3>1, ProcessSole
    <3>4. args \in Seq(Pieces)
      <4>1. captures(e.regex, w) = args
        BY <1>7, <1>8, <1>11, <1>13, <3>2 DEF captures
      <4> QED  BY <1>9, <4>1, CapturesTypes DEF Route
    <3> QED  BY <1>3, <1>13, <3>1, <3>2, <3>3, <3>4
  <2>2. CASE e.callbacks # 1
    <3>1. e.callbacks > 1 /\ ~e.anchored
      <4>1. e.callbacks > 1
        BY <1>9, <2>2
      <4> QED  BY <1>9, <4>1 DEF ChainsFit, FitsRegex
    <3>2. ~IsLast(h)
      BY <1>3, <1>9, <3>1 DEF IsLast
    <3>3. h.seen = <<w[1]>>
      <4>1. h.seen = PieceOf(w, 0 + 1)
        BY <1>3, <1>6, <1>8, <2>2 DEF FrameInv
      <4>2. PICK L \in Nat \ {0} : L = Len(w)
        BY <1>8, EmptySeq
      <4>3. (IF 1 < L THEN 1 ELSE L) = 1
        OBVIOUS
      <4>4. (IF 1 < Len(w) THEN 1 ELSE Len(w)) = 1
        BY <4>2, <4>3
      <4>5. 0 + 1 = 1
        OBVIOUS
      <4> QED  BY <4>1, <4>4, <4>5 DEF PieceOf
    <3>4. process(reset, h) = BlockAt(w, 0, Captured(h.route.regex[1], w[1]))
      BY <1>3, <1>6, <1>8, <1>11, <3>1, <3>2, <3>3, ProcessFirst
    <3>5. args = Captured(e.regex[1], w[1])
      <4>1. st[1].route = e /\ st[1].due = 0
        BY <1>3, <1>5, <1>12
      <4> QED  BY <1>8, <1>9, <1>13, <3>1, <4>1, ShownFirst
    <3>6. args \in Seq(Pieces)
      <4>1. Len(w) \in Nat \ {0}
        BY <1>8, EmptySeq
      <4>2. w[1] \in Pieces
        BY <4>1
      <4> QED  BY <3>5, <4>2 DEF Captured
    <3>7. process(reset, h) = BlockAt(w, 0, args)
      BY <1>3, <3>4, <3>5
    <3> QED  BY <3>6, <3>7 DEF BlockAt
  <2> QED  BY <2>1, <2>2
<1>15. PICK block : block = process(reset, h)
  OBVIOUS
<1>16. /\ blocks'[e.name] = block /\ given' = Append(given, Expect(args))
       /\ thrown' => \E n \in 1 .. Count : Expect(args)[n] \in Unconvertible
  <2>1. h = stack'[Len(stack')] /\ h.route.name \in DOMAIN blocks
        /\ block = process(blocks[h.route.name], h)
    BY <1>3, <1>5, <1>10, <1>15
  <2> QED  BY ZenonT(30), <1>1, <1>3, <1>14, <1>15, <2>1, EnterGives
<1>17. given'[1] = Expect(args)
  <2>1. given \in Seq(Arguments) /\ Len(given) = 0
    BY <1>1 DEF GivenInv
  <2>2. given = <<>>
    BY <2>1, EmptySeq
  <2> QED  BY <1>16, <2>2
<1> QED  BY <1>3, <1>5, <1>8, <1>12, <1>13, <1>14, <1>15, <1>16, <1>17 DEF ArgInv

(* A chain that fits, its last callback and any other: what the wrapper of  *)
(* the callback called captures is what it is shown.                       *)
LEMMA CallCaptures ==
  ASSUME NEW w \in Seq(Pieces), w # <<>>, NEW h \in Frames, h.route.callbacks > 1,
         Len(h.route.regex) = Len(w), FitsRegex(h.route),
         h.at = Least(h.due, h.route.callbacks - 1),
         h.seen = PieceOf(w, h.due + 1), NEW d \in Nat, d < h.due, NEW args \in Seq(Pieces)
  PROVE  /\ args \o CapturedAt(w, h.route, h.due) \in Seq(Pieces)
         /\ process(BlockAt(w, d, args), h).str_args = args \o CapturedAt(w, h.route, h.due)
         /\ ~IsLast(h) => process(BlockAt(w, d, args), h)
                         = BlockAt(w, h.due, args \o CapturedAt(w, h.route, h.due))
<1>0. PICK p, e, more : /\ p = PositionOf(w, h.due) /\ e = h.route
                       /\ more = args \o CapturedAt(w, h.route, h.due)
                       /\ more = args \o Captured(e.regex[p], w[p])
  BY DEF CapturedAt
<1>1. PICK L \in Nat \ {0} : L = Len(w)
  BY EmptySeq
<1>2. PICK to \in Nat : to = h.due
  BY DEF Frames
<1>3. p \in 1 .. L /\ p = IF to + 1 < L THEN to + 1 ELSE L
  <2>1. p = Least(to + 1, L)
    BY Zenon, <1>0, <1>1, <1>2 DEF PositionOf
  <2> QED  BY <2>1 DEF Least
<1>4. PICK cb \in Nat : cb = e.callbacks /\ cb > 1
  BY <1>0 DEF Frames, Route
<1>5. more \in Seq(Pieces)
  <2>1. w[p] \in Pieces
    BY <1>1, <1>3
  <2>2. Captured(e.regex[p], w[p]) \in Seq(Pieces)
    BY <2>1 DEF Captured
  <2> QED  BY <1>0, <2>2, ConcatProperties
<1>6. CASE IsLast(h)
  <2>1. process(BlockAt(w, d, args), h).str_args = args \o Captured(e.regex[Len(w)], w[p])
    <3>1. ~h.route.anchored /\ Len(h.route.regex) = Len(w)
      BY DEF FitsRegex
    <3>2. process(BlockAt(w, d, args), h)
          = [rp |-> Len(w) + 1, cur_pos_cb |-> Len(w),
             str_args |-> args \o Captured(h.route.regex[Len(w)], w[PositionOf(w, h.due)])]
      BY <1>6, <3>1, ProcessLast
    <3>3. h.route = e /\ PositionOf(w, h.due) = p
      BY <1>0
    <3> QED  BY <3>2, <3>3
  <2>2. to >= cb - 1
    BY <1>0, <1>2, <1>4, <1>6 DEF IsLast, Least
  <2>3. e.regex[L] = Any <=> e.regex[p] = Any
    <3>1. CASE p = L
      BY <3>1
    <3>2. CASE p # L
      <4>1. p \in cb .. L /\ L \in cb .. L
        BY <1>3, <1>4, <2>2, <3>2
      <4> QED  BY <1>0, <1>1, <1>4, <4>1 DEF FitsRegex
    <3> QED  BY <3>1, <3>2
  <2>4. Captured(e.regex[L], w[p]) = Captured(e.regex[p], w[p])
    BY <2>3 DEF Captured
  <2> QED  BY <1>0, <1>1, <1>5, <1>6, <2>1, <2>4
<1>7. CASE ~IsLast(h)
  <2>1. h.at = h.due
    BY <1>0, <1>2, <1>4, <1>7 DEF IsLast, Least
  <2>2. process(BlockAt(w, d, args), h) = BlockAt(w, h.due, more)
    <3>1. ~h.route.anchored /\ Len(h.route.regex) = Len(w)
      BY DEF FitsRegex
    <3>2. process(BlockAt(w, d, args), h)
          = BlockAt(w, h.due, args \o CapturedAt(w, h.route, h.due))
      BY <1>7, <2>1, <3>1, ProcessNext
    <3> QED  BY <1>0, <3>2
  <2>3. process(BlockAt(w, d, args), h).str_args = more
    BY <2>2 DEF BlockAt
  <2>4. more = args \o CapturedAt(w, h.route, h.due)
    BY <1>0
  <2> QED  BY ZenonT(30), <1>5, <2>2, <2>3, <2>4
<1> QED  BY <1>6, <1>7

(* A chain that calls on: what the callbacks below were given stays theirs,  *)
(* and the one called is given its own, if there was one way to it.         *)
LEMMA CallKeepsArgs ==
  ASSUME ChainsFit, Count # 12, DispatchInv, DispatchInv', BlocksInv, GivenInv, ResetInv, ArgInv,
         NEW it, param_call(it)
  PROVE  ArgInv'
<1>1. /\ stack # <<>> /\ enter /\ call(it)
      /\ UNCHANGED <<routes, phase, whole, executed>> /\ ~IsLast(Top)
  BY CallPushes DEF param_call, call, request_vars
<1>2. PICK g, h \in Frames :
        /\ stack' = Append([stack EXCEPT ![Len(stack)] = g], h)
        /\ FrameInv(whole, executed, g) /\ FrameInv(whole, executed, h)
        /\ g.route = Top.route /\ g.calls = Top.calls + 1 /\ g.due = Top.due /\ g.cut = Top.cut
        /\ h.route = Top.route /\ h.calls = 0
  BY <1>1, CallPushes
<1>3. stack \in Seq(Frames) /\ FramesInv
  BY DEF DispatchInv, TypeInv
<1>4. PICK m \in Nat \ {0} : m = Len(stack)
  BY <1>1, <1>3, EmptySeq
<1>5. PICK st \in Seq(Frames) : st = stack' /\ Len(st) = m + 1
  BY <1>1, <1>2, <1>3, <1>4, FramesPushed
<1>6. /\ st[m + 1] = h /\ \A i \in 1 .. m : st[i] = IF i = m THEN g ELSE stack[i]
      /\ DOMAIN stack = 1 .. m /\ DOMAIN st = 1 .. m + 1 /\ st # <<>> /\ Top' = h
  <2>1. /\ st[m + 1] = h /\ \A i \in 1 .. m : st[i] = IF i = m THEN g ELSE stack[i]
    BY <1>1, <1>2, <1>3, <1>4, <1>5, FramesPushed
  <2>2. DOMAIN stack = 1 .. m /\ DOMAIN st = 1 .. m + 1
    BY <1>3, <1>4, <1>5, LenProperties
  <2> QED  BY <1>5, <2>1, <2>2 DEF Top
<1>7. PICK e \in routes : e = Top.route /\ e \in Route /\ e.callbacks > 1 /\ e.callbacks \in Nat
  <2>1. Top.route \in routes /\ Top.route.callbacks \in Nat \ {0} /\ Top.route.callbacks # 1
    BY <1>1, TopTypes
  <2> QED  BY <2>1, RouteTypes DEF DispatchInv
<1>8. Busy /\ FrameInv(whole, executed, Top) /\ Top = stack[m] /\ Top \in Frames
  BY <1>1, <1>4, TopTypes DEF Top
<1>9. PICK w \in Seq(Pieces) : w = whole /\ w # <<>>
  BY <1>8, WholeTypes DEF DispatchInv
<1>10. Len(e.regex) = Len(w)
  <2>1. e \in executed
    BY <1>7, <1>8 DEF FrameInv
  <2> QED  BY <1>8, <1>9, <2>1 DEF DispatchInv, ProvideInv, match
<1>11. FitsRegex(e)
  <2>1. routes \in RouteSets
    BY DEF DispatchInv, TypeInv
  <2> QED  BY <1>7, <2>1 DEF ChainsFit
<1>12. /\ \A i \in 1 .. m + 1 : st[i].route = e /\ st[i].due \in Nat
       /\ \A i \in 1 .. m : /\ st[i].due = stack[i].due /\ stack[i].route = e
                            /\ st[i].due \in Nat /\ i \in 1 .. m + 1
  <2>1. ASSUME NEW i \in 1 .. m
        PROVE  stack[i].route = e /\ st[i].route = e /\ st[i].due = stack[i].due
    <3>1. stack[i].route = e
      BY <1>6, <1>7 DEF ResetInv
    <3> QED  BY <1>2, <1>6, <1>7, <1>8, <3>1
  <2>2. st[m + 1].route = e
    BY <1>2, <1>6, <1>7
  <2>3. ASSUME NEW i \in 1 .. m + 1
        PROVE  st[i].due \in Nat
    <3>1. st[i] \in Frames
      BY <1>6, ElementOfSeq
    <3> QED  BY <3>1 DEF Frames
  <2>4. \A i \in 1 .. m : i \in 1 .. m + 1
    OBVIOUS
  <2>5. \A i \in 1 .. m + 1 : i \in 1 .. m \/ i = m + 1
    OBVIOUS
  <2> QED  BY <2>1, <2>2, <2>3, <2>4, <2>5
<1>13. /\ \A i \in 1 .. m : stack[i].due <= Top.due
       /\ \A i \in 1 .. m : st[i].cut = stack[i].cut
       /\ \A i \in 1 .. m - 1 : i \in 1 .. m /\ st[i].calls = stack[i].calls
  <2>1. ASSUME NEW i \in 1 .. m
        PROVE  stack[i].due <= Top.due
    <3>1. i = m \/ i < m
      OBVIOUS
    <3>2. stack[i].due \in Nat /\ Top.due \in Nat
      BY <1>8, <1>12 DEF Frames
    <3>3. CASE i = m
      BY <1>8, <3>2, <3>3
    <3>4. CASE i < m
      BY <1>6, <1>8, <3>4 DEF DispatchInv, MovesInv
    <3> QED  BY <3>1, <3>3, <3>4
  <2>2. ASSUME NEW i \in 1 .. m
        PROVE  st[i].cut = stack[i].cut
    BY <1>2, <1>6, <1>8
  <2>3. \A i \in 1 .. m - 1 : i \in 1 .. m /\ i # m
    OBVIOUS
  <2> QED  BY <1>6, <2>1, <2>2, <2>3
<1>14. PICK f : f = stack'[Len(stack')] /\ f = h
  BY <1>5, <1>6
<1>15. given \in Seq(Arguments) /\ Len(given) = m
  BY <1>4 DEF GivenInv
<1>16. PICK block : block = process(blocks[e.name], h)
  OBVIOUS
<1>17. e.name \in DOMAIN blocks
  BY DEF BlocksInv
<1>18. given' = Append(given, arguments(block.str_args))
  <2>1. PICK b : b = process(blocks[f.route.name], f)
    OBVIOUS
  <2>2. given' = Append(given, arguments(b.str_args))
    BY <1>1, <1>14, <2>1 DEF enter
  <2> QED  BY <1>2, <1>7, <1>14, <1>16, <2>1, <2>2
<1>19. \A i \in 1 .. m : given'[i] = given[i]
  BY <1>15, <1>18
<1>20. PICK prev, more :
         prev = At(w, Shown(w, stack, m)) /\ more = At(w, Shown(w, st, m + 1))
  OBVIOUS
<1>21. ASSUME OneWayTo(st, m + 1)
       PROVE  /\ block.str_args = more /\ (~IsLast(h) => block = BlockAt(w, h.due, more))
              /\ more \in Seq(Pieces)
  <2>1. OneWayTo(stack, m) /\ Top.calls = 0 /\ Top.due < h.due /\ h.cut = h.due
    <3>1. /\ \A j \in 1 .. m + 1 : Own(st[j])
          /\ \A j \in 1 .. m : st[j].calls <= 1 /\ st[j].due < st[j + 1].due
      BY <1>21 DEF OneWayTo
    <3>2. m \in 1 .. m /\ m + 1 \in 1 .. m + 1
      OBVIOUS
    <3>3. OneWayTo(st, m)
      <4>1. \A j \in 1 .. m - 1 : j \in 1 .. m
        OBVIOUS
      <4>2. \A j \in 1 .. m : j \in 1 .. m + 1
        OBVIOUS
      <4> QED  BY <3>1, <4>1, <4>2 DEF OneWayTo
    <3>4. OneWayTo(stack, m)
      BY <1>12, <1>13, <3>3, WaySame
    <3>5. st[m] = g /\ st[m + 1] = h
      BY <1>6, <3>2
    <3>6. g.calls <= 1 /\ g.due < h.due /\ h.cut = h.due
      BY <3>1, <3>2, <3>5 DEF Own
    <3>7. Top.calls \in Nat
      BY <1>8 DEF Frames
    <3> QED  BY <1>2, <3>4, <3>6, <3>7
  <2>2. blocks[e.name] = BlockAt(w, Top.due, prev)
    BY <1>1, <1>4, <1>7, <1>9, <1>20, <2>1 DEF ArgInv
  <2>3. prev \in Seq(Pieces)
    <3>1. blocks[e.name] \in Block
      BY <1>17 DEF BlocksInv
    <3>2. blocks[e.name].str_args = prev
      BY <2>2 DEF BlockAt
    <3> QED  BY <3>1, <3>2 DEF Block
  <2>5. more = prev \o CapturedAt(w, e, h.due)
    <3>1. Shown(w, st, m) = Shown(w, stack, m)
      <4>1. st[m].route = stack[m].route /\ \A j \in 1 .. m : st[j].due = stack[j].due
        <5>1. m \in 1 .. m /\ m \in 1 .. m + 1
          OBVIOUS
        <5> QED  BY <1>12, <5>1
      <4> QED  BY <4>1, ShownSame
    <3>2. ASSUME NEW j \in 1 .. m
          PROVE  st[j].due + 1 < e.callbacks /\ st[j].due < st[m + 1].due
      <4>1. Top.due + 1 < e.callbacks
        <5>1. Top.at = Least(Top.due, e.callbacks - 1) /\ Top.at + 1 # e.callbacks
              /\ Top.due \in Nat
          BY SMTT(30), <1>1, <1>7, <1>8 DEF FrameInv, IsLast, Frames
        <5> QED  BY <1>7, <5>1 DEF Least
      <4>2. st[j].due \in Nat /\ Top.due \in Nat /\ h.due \in Nat /\ st[j].due <= Top.due
        BY <1>8, <1>12, <1>13 DEF Frames
      <4> QED  BY <1>6, <1>7, <2>1, <4>1, <4>2
    <3>3. At(w, Shown(w, st, m + 1)) = At(w, Shown(w, st, m)) \o CapturedAt(w, e, st[m + 1].due)
      <4>1. ChainOn(st, m, e)
        BY <1>12, <3>2 DEF ChainOn
      <4> QED  BY <1>7, <1>9, <1>10, <1>11, <4>1, ShownNext
    <3> QED  BY <1>6, <1>20, <3>1, <3>3
  <2>6. h.route = e /\ h.at = Least(h.due, e.callbacks - 1) /\ h.seen = PieceOf(w, h.due + 1)
    BY <1>2, <1>7, <1>9, <2>1 DEF FrameInv
  <2>7. Top.due \in Nat /\ Top.due < h.due
    BY <1>8, <2>1 DEF Frames
  <2>8. /\ more \in Seq(Pieces) /\ process(BlockAt(w, Top.due, prev), h).str_args = more
        /\ ~IsLast(h) => process(BlockAt(w, Top.due, prev), h) = BlockAt(w, h.due, more)
    <3>1. PICK d \in Nat : d = Top.due /\ d < h.due
      BY <2>7
    <3>2. h.route.callbacks > 1 /\ Len(h.route.regex) = Len(w) /\ FitsRegex(h.route)
          /\ h.at = Least(h.due, h.route.callbacks - 1)
      BY <1>7, <1>10, <1>11, <2>6
    <3>3. /\ prev \o CapturedAt(w, h.route, h.due) \in Seq(Pieces)
          /\ process(BlockAt(w, d, prev), h).str_args = prev \o CapturedAt(w, h.route, h.due)
          /\ ~IsLast(h) => process(BlockAt(w, d, prev), h)
                          = BlockAt(w, h.due, prev \o CapturedAt(w, h.route, h.due))
      BY ZenonT(60), <1>9, <2>3, <2>6, <3>1, <3>2, CallCaptures
    <3> QED  BY <2>5, <2>6, <3>1, <3>3
  <2> QED  BY <1>16, <2>2, <2>8
<1>22. ASSUME OneWayTo(st, m + 1)
       PROVE  /\ given'[m + 1] = Expect(more)
              /\ ~IsLast(h) => blocks'[e.name] = BlockAt(w, h.due, more)
              /\ thrown' => \E k \in 1 .. Count : given'[m + 1][k] \in Unconvertible
  <2>1. block.str_args = more /\ more \in Seq(Pieces)
    BY <1>21, <1>22
  <2>2. /\ blocks'[h.route.name] = block /\ given' = Append(given, Expect(block.str_args))
        /\ thrown' => \E k \in 1 .. Count : Expect(block.str_args)[k] \in Unconvertible
    <3>1. f.route.name \in DOMAIN blocks /\ block = process(blocks[f.route.name], f)
          /\ block.str_args \in Seq(Pieces)
      BY <1>2, <1>7, <1>14, <1>16, <1>17, <2>1
    <3> QED  BY <1>1, <1>14, <3>1, EnterGives
  <2>3. given'[m + 1] = Expect(more)
    BY <1>15, <2>1, <2>2
  <2> QED  BY <1>2, <1>7, <1>21, <1>22, <2>1, <2>2, <2>3
<1>23. ASSUME NEW i \in 1 .. m + 1, OneWayTo(st, i)
       PROVE  given'[i] = Expect(At(w, Shown(w, st, i)))
  <2>1. CASE i = m + 1
    BY <1>20, <1>22, <1>23, <2>1
  <2>2. CASE i # m + 1
    <3>1. i \in 1 .. m
      BY <2>2
    <3>2. OneWayTo(stack, i)
      <4>1. \A j \in 1 .. i : st[j].due = stack[j].due /\ st[j].cut = stack[j].cut
        BY <1>12, <1>13, <3>1
      <4>2. \A j \in 1 .. i - 1 : j \in 1 .. m - 1
        BY <3>1
      <4>3. \A j \in 1 .. i - 1 : st[j].calls = stack[j].calls
        BY <1>13, <4>2
      <4> QED  BY <1>23, <3>1, <4>1, <4>3, WaySame
    <3>3. Shown(w, st, i) = Shown(w, stack, i)
      <4>1. st[i].route = stack[i].route
        BY <1>12, <3>1
      <4>2. \A j \in 1 .. i : st[j].due = stack[j].due
        BY <1>12, <3>1
      <4> QED  BY <4>1, <4>2, ShownSame
    <3>4. given[i] = Expect(At(w, Shown(w, stack, i)))
      BY <1>6, <1>9, <3>1, <3>2 DEF ArgInv
    <3> QED  BY <1>19, <3>1, <3>3, <3>4
  <2> QED  BY <2>1, <2>2
<1>24. whole' = w /\ Top'.route = e
  BY <1>1, <1>2, <1>6, <1>7, <1>9
<1> QED  BY <1>5, <1>6, <1>20, <1>22, <1>23, <1>24 DEF ArgInv

(* A callback that moves an iterator changes nothing that any was given.    *)
LEMMA AdvanceKeepsArgs ==
  ASSUME DispatchInv, ArgInv, NEW it, param_advance(it)
  PROVE  ArgInv'
<1>1. advance(it) /\ UNCHANGED <<blocks, given, thrown>> /\ stack # <<>> /\ whole' = whole
  BY AdvanceMoves DEF param_advance, advance
<1>2. PICK g \in Frames :
        /\ stack' = [stack EXCEPT ![Len(stack)] = g] /\ FrameInv(whole, executed, g)
        /\ g.route = Top.route /\ g.at = Top.at /\ g.due = Top.due
        /\ g.cut = Top.cut /\ g.calls = Top.calls
  BY <1>1, AdvanceMoves
<1>3. stack \in Seq(Frames)
  BY DEF DispatchInv, TypeInv
<1>4. PICK m \in Nat \ {0} : m = Len(stack) /\ DOMAIN stack = 1 .. m /\ m \in 1 .. m
  BY <1>1, <1>3, EmptySeq, LenProperties
<1>5. PICK st \in Seq(Frames) :
        /\ st = stack' /\ Len(st) = m /\ DOMAIN st = 1 .. m
        /\ \A i \in 1 .. m : st[i] = IF i = m THEN g ELSE stack[i]
  <2>1. /\ stack' \in Seq(Frames) /\ Len(stack') = m
        /\ \A i \in DOMAIN stack : stack'[i] = IF i = Len(stack) THEN g ELSE stack[i]
    BY <1>1, <1>2, <1>3, <1>4, FramesReplaced DEF DispatchInv
  <2>2. DOMAIN stack' = 1 .. m
    BY <2>1, LenProperties
  <2> QED  BY <1>4, <2>1, <2>2
<1>6. \A i \in 1 .. m : /\ st[i].route = stack[i].route /\ st[i].due = stack[i].due
                       /\ st[i].cut = stack[i].cut /\ st[i].calls = stack[i].calls
  BY <1>2, <1>4, <1>5 DEF Top
<1>7. Top' = g /\ Top = stack[m] /\ st # <<>>
  BY <1>4, <1>5, EmptySeq DEF Top
<1>8. ASSUME NEW i \in 1 .. m
      PROVE  /\ OneWayTo(st, i) => OneWayTo(stack, i)
             /\ Shown(whole, st, i) = Shown(whole, stack, i)
  <2>1. \A j \in 1 .. i : j \in 1 .. m
    OBVIOUS
  <2>2. \A j \in 1 .. i - 1 : j \in 1 .. m
    OBVIOUS
  <2> QED  BY <1>6, <2>1, <2>2, WaySame, ShownSame
<1>9. IsLast(Top)' <=> IsLast(Top)
  BY <1>2, <1>7 DEF IsLast
<1> QED  BY <1>1, <1>2, <1>4, <1>5, <1>7, <1>8, <1>9 DEF ArgInv

(* A callback that returns leaves those below what they were given.         *)
LEMMA ReturnKeepsArgs ==
  ASSUME DispatchInv, GivenInv, ResetInv, ArgInv, param_return
  PROVE  ArgInv'
<1>1. /\ ~thrown /\ thrown' = thrown /\ stack # <<>> /\ whole' = whole
      /\ stack' = SubSeq(stack, 1, Len(stack) - 1)
      /\ given' = SubSeq(given, 1, Len(given) - 1)
  BY DEF param_return, callback_return, running, request_vars
<1>2. stack \in Seq(Frames) /\ given \in Seq(Arguments) /\ Len(given) = Len(stack)
  BY DEF DispatchInv, TypeInv, GivenInv
<1>3. PICK k \in Nat : Len(stack) = k + 1
  <2>1. Len(stack) \in Nat \ {0}
    BY <1>1, <1>2, EmptySeq
  <2> QED  BY <2>1, Len(stack) - 1 \in Nat
<1>4. /\ stack' \in Seq(Frames) /\ Len(stack') = k
      /\ \A i \in 1 .. k : stack'[i] = stack[i] /\ i \in DOMAIN stack /\ i < Len(stack)
  BY <1>1, <1>2, <1>3
<1>5. \A i \in 1 .. k : given'[i] = given[i]
  BY <1>1, <1>2, <1>3
<1>6. PICK st : st = stack'
  OBVIOUS
<1>7. DOMAIN st = 1 .. k
  BY <1>4, <1>6, LenProperties
<1>8. ASSUME NEW i \in 1 .. k, OneWayTo(st, i)
      PROVE  given'[i] = Expect(At(whole, Shown(whole, st, i)))
  <2>1. \A j \in 1 .. i : st[j] = stack[j]
    <3>1. \A j \in 1 .. i : j \in 1 .. k
      OBVIOUS
    <3> QED  BY <1>4, <1>6, <3>1
  <2>2. i \in 1 .. i /\ \A j \in 1 .. i - 1 : j \in 1 .. i
    OBVIOUS
  <2>3. OneWayTo(stack, i)
    BY <1>8, <2>1, <2>2, WaySame
  <2>4. Shown(whole, st, i) = Shown(whole, stack, i)
    BY <2>1, <2>2, ShownSame
  <2> QED  BY <1>4, <1>5, <2>3, <2>4 DEF ArgInv
<1>9. stack' # <<>> => Top'.calls # 0
  <2> SUFFICES ASSUME stack' # <<>>  PROVE Top'.calls # 0
    OBVIOUS
  <2>1. k # 0
    BY <1>4, EmptySeq
  <2>2. k \in 1 .. k
    BY <2>1
  <2>3. Top' = stack[k] /\ stack[k].calls > 0
    BY <1>4, <2>2 DEF Top, ResetInv
  <2> QED  BY <2>3
<1> QED  BY <1>1, <1>6, <1>7, <1>8, <1>9 DEF ArgInv

(* With the invariants before it, this one is inductive.                    *)
LEMMA ArgInvKept ==
  ASSUME SoleChains, ChainsFit, Count # 12, ~Catches,
         DispatchInv, DispatchInv', BlocksInv, GivenInv, ResetInv, ArgInv, [ParamNext]_param_vars
  PROVE  ArgInv'
<1>1. CASE UNCHANGED param_vars
  BY <1>1 DEF param_vars, vars, request_vars, ArgInv, Top, IsLast
<1>2. ASSUME stack' = <<>>
      PROVE  ArgInv'
  BY <1>2 DEF ArgInv
<1>3. CASE \E e \in AllRoutes : param_verb(e) \/ param_route(e.name) \/ node_verb(e)
  <2>1. PICK e \in AllRoutes : param_verb(e) \/ param_route(e.name) \/ node_verb(e)
    BY <1>3
  <2>2. phase = "idle" /\ stack' = stack
    BY <2>1 DEF param_verb, param_route, node_verb, Added, Registering, vars
  <2> QED  BY <1>2, <2>2 DEF DispatchInv, TypeInv, Busy
<1>4. CASE \E x \in Targets : param_provide(x)
  <2>1. phase = "idle" /\ stack' = stack
    BY <1>4 DEF param_provide, provide
  <2> QED  BY <1>2, <2>1 DEF DispatchInv, TypeInv, Busy
<1>5. CASE param_skip
  <2>1. stack = <<>> /\ stack' = stack
    BY <1>5 DEF param_skip, provide_mismatch, provide_all, provide_return
  <2> QED  BY <1>2, <2>1
<1>6. CASE \E e \in left : param_begin(e)
  BY <1>6, BeginKeepsArgs
<1>7. CASE \E it \in Held : param_advance(it) \/ param_call(it)
  BY <1>7, AdvanceKeepsArgs, CallKeepsArgs
<1>8. CASE param_return
  BY <1>8, ReturnKeepsArgs
<1>9. CASE unwind
  BY <1>2, <1>9 DEF unwind
<1> QED  BY <1>1, <1>3, <1>4, <1>5, <1>6, <1>7, <1>8, <1>9 DEF ParamNext

(* If there was one way to all of them, what they were given is what they   *)
(* may expect.                                                             *)
LEMMA ArgsAreOwn ==
  ASSUME GivenInv, ResetInv, ArgInv, DispatchInv
  PROVE  ArgumentsAreOwn
<1> SUFFICES ASSUME OneWay
             PROVE  /\ \A i \in DOMAIN stack :
                         given[i] = [n \in 1 .. Count |-> IF n \in DOMAIN Seen(i) THEN Seen(i)[n]
                                                          ELSE Default]
                    /\ thrown => \E n \in 1 .. Count : given[Len(stack)][n] \in Unconvertible
  BY DEF ArgumentsAreOwn
<1>1. stack \in Seq(Frames)
  BY DEF DispatchInv, TypeInv
<1>2. PICK m \in Nat : m = Len(stack) /\ DOMAIN stack = 1 .. m
  BY <1>1, LenProperties
<1>3. ASSUME NEW i \in 1 .. m
      PROVE  OneWayTo(stack, i)
  <2>1. \A j \in 1 .. i : j \in 1 .. m
    OBVIOUS
  <2>2. ASSUME NEW j \in 1 .. i - 1
        PROVE  stack[j].calls <= 1 /\ stack[j].due < stack[j + 1].due
    <3>1. j \in 1 .. m /\ j + 1 \in 1 .. m /\ j + 1 > 1 /\ j + 1 - 1 = j
      OBVIOUS
    <3>2. stack[j + 1 - 1].due < stack[j + 1].due
      BY <1>2, <3>1 DEF OneWay
    <3> QED  BY <1>2, <3>1, <3>2 DEF OneWay
  <2> QED  BY <1>2, <2>1, <2>2 DEF OneWay, OneWayTo, Own
<1>4. ASSUME NEW i \in DOMAIN stack
      PROVE  given[i] = [n \in 1 .. Count |-> IF n \in DOMAIN Seen(i) THEN Seen(i)[n] ELSE Default]
  <2>1. Seen(i) = At(whole, Shown(whole, stack, i))
    BY DEF Seen, Shown, PositionOf
  <2>2. given[i] = Expect(At(whole, Shown(whole, stack, i)))
    BY <1>2, <1>3 DEF ArgInv
  <2> QED  BY <2>1, <2>2 DEF Expect
<1>5. ASSUME thrown
      PROVE  \E n \in 1 .. Count : given[Len(stack)][n] \in Unconvertible
  <2>1. stack # <<>>
    BY <1>5 DEF ResetInv
  <2>2. m \in 1 .. m
    BY <1>1, <1>2, <2>1, EmptySeq
  <2> QED  BY <1>2, <1>3, <1>5, <2>1, <2>2 DEF ArgInv
<1> QED  BY <1>4, <1>5

(* The arguments of a callback are the parameters of its own request, of    *)
(* the segments seen by it and those that led to it, with defaults for the  *)
(* rest: for any routes, targets and sequence of requests, if every         *)
(* callback calls one further along, once, with the iterator moved last, no *)
(* exception is caught, chains fit their expressions, and the pack is not   *)
(* one of twelve.                                                          *)
THEOREM ArgumentsAreOwnHolds ==
  ASSUME SoleChains, ChainsFit, ~MayStop, ~Catches, Count # 12
  PROVE  ParamSpec => []ArgumentsAreOwn
<1>1. ParamSpec => []DispatchInv
  BY DispatchInvHolds
<1>2. ParamInit => BlocksInv /\ GivenInv /\ ResetInv /\ ArgInv
  <2> SUFFICES ASSUME ParamInit
               PROVE  BlocksInv /\ GivenInv /\ ResetInv /\ ArgInv
    OBVIOUS
  <2>1. routes = {} /\ DOMAIN blocks = {} /\ given = <<>> /\ thrown = FALSE /\ stack = <<>>
    BY DEF ParamInit, Init
  <2>2. BlocksInv /\ GivenInv
    BY <2>1, EmptySeq DEF BlocksInv, GivenInv
  <2>3. ResetInv /\ ArgInv
    BY <2>1 DEF ResetInv, ArgInv
  <2> QED  BY <2>2, <2>3
<1>3. DispatchInv /\ DispatchInv' /\ BlocksInv /\ GivenInv /\ [ParamNext]_param_vars
        => BlocksInv' /\ GivenInv'
  BY TypesKept
<1>4. DispatchInv /\ ResetInv /\ [ParamNext]_param_vars => ResetInv'
  BY ResetInvKept
<1>5. DispatchInv /\ DispatchInv' /\ BlocksInv /\ GivenInv /\ ResetInv /\ ArgInv
        /\ [ParamNext]_param_vars => ArgInv'
  BY ArgInvKept
<1>6. DispatchInv /\ GivenInv /\ ResetInv /\ ArgInv => ArgumentsAreOwn
  BY ArgsAreOwn
<1> QED  BY <1>1, <1>2, <1>3, <1>4, <1>5, <1>6, PTL DEF ParamSpec
=============================================================================
