---- MODULE AppSnapshot_proofs ----
(***************************************************************************)
(* Every request handler maps a well-formed snapshot to a well-formed one. *)
(* One lemma per handler; DaemonState_proofs builds the invariants of the  *)
(* specification on them.                                                  *)
(***************************************************************************)
EXTENDS AppSnapshot, SequenceTheorems, FunctionTheorems,
        FiniteSetTheorems, TLAPS

----
(* Sequences without repetitions *)

\* The elements of a sequence are its values.
LEMMA ToSetRange ==
    ASSUME NEW S, NEW q \in Seq(S)
    PROVE  /\ ToSet(q) \subseteq S
           /\ \A i \in 1..Len(q) : q[i] \in ToSet(q)
           /\ \A e \in ToSet(q) : \E i \in 1..Len(q) : q[i] = e
  BY DEF ToSet

\* Append adds one element at the end, which keeps a repetition-free
\* sequence free of repetitions when the element is new.
LEMMA AppendElements ==
    ASSUME NEW S, NEW q \in Seq(S), NEW e \in S
    PROVE  /\ Append(q, e) \in Seq(S)
           /\ Len(Append(q, e)) = Len(q) + 1
           /\ ToSet(Append(q, e)) = ToSet(q) \cup {e}
           /\ IsInjective(q) /\ e \notin ToSet(q) => IsInjective(Append(q, e))
  <1>1. /\ Append(q, e) \in Seq(S)
        /\ Len(Append(q, e)) = Len(q) + 1
        /\ \A i \in 1..Len(q) : Append(q, e)[i] = q[i]
        /\ Append(q, e)[Len(q) + 1] = e
    OBVIOUS
  <1>2. ToSet(Append(q, e)) = ToSet(q) \cup {e}
    <2>1. ToSet(Append(q, e)) \subseteq ToSet(q) \cup {e}
      <3>1. SUFFICES ASSUME NEW i \in 1..(Len(q) + 1)
                     PROVE  Append(q, e)[i] \in ToSet(q) \cup {e}
        BY <1>1 DEF ToSet
      <3>2. CASE i \in 1..Len(q)  BY <3>2, <1>1 DEF ToSet
      <3>3. CASE i = Len(q) + 1   BY <3>3, <1>1
      <3> QED  BY <3>2, <3>3
    <2>2. ToSet(q) \subseteq ToSet(Append(q, e))
      BY <1>1 DEF ToSet
    <2>3. e \in ToSet(Append(q, e))
      BY <1>1 DEF ToSet
    <2> QED  BY <2>1, <2>2, <2>3
  <1>3. ASSUME IsInjective(q), e \notin ToSet(q)
        PROVE  IsInjective(Append(q, e))
    BY <1>1, <1>3 DEF IsInjective, ToSet
  <1> QED  BY <1>1, <1>2, <1>3

\* Without removes the one element at its place.
LEMMA WithoutPositions ==
    ASSUME NEW S, NEW q \in Seq(S), NEW e \in ToSet(q)
    PROVE  /\ IndexOf(q, e) \in 1..Len(q) /\ q[IndexOf(q, e)] = e
           /\ Without(q, e) \in Seq(S)
           /\ Len(Without(q, e)) = Len(q) - 1
           /\ \A i \in 1..(Len(q) - 1) :
                 Without(q, e)[i] = IF i < IndexOf(q, e) THEN q[i] ELSE q[i + 1]
  <1> DEFINE k == IndexOf(q, e)
             r == Without(q, e)
             low  == SubSeq(q, 1, k - 1)
             high == SubSeq(q, k + 1, Len(q))
  <1>1. k \in 1..Len(q) /\ q[k] = e
    BY ToSetRange DEF IndexOf
  <1>2. r = low \o high
    BY DEF Without, RemoveAt
  <1>a. Len(q) \in Nat /\ k \in Nat /\ k >= 1 /\ k <= Len(q)
    BY <1>1
  <1> HIDE DEF k
  <1>3. low \in Seq(S) /\ Len(low) = k - 1 /\ \A i \in 1..(k - 1) : low[i] = q[i]
    <2>1. \A i \in 1..(k - 1) : q[i] \in S
      BY <1>a, ElementOfSeq
    <2>2. /\ low \in Seq(S)
          /\ Len(low) = IF 1 <= k - 1 THEN (k - 1) - 1 + 1 ELSE 0
          /\ \A i \in 1..((k - 1) - 1 + 1) : low[i] = q[1 + i - 1]
      BY <2>1, <1>a, SubSeqProperties
    <2> HIDE DEF low
    <2> QED  BY <2>2, <1>a
  <1>4. /\ high \in Seq(S)
        /\ Len(high) = Len(q) - k
        /\ \A i \in 1..(Len(q) - k) : high[i] = q[k + i]
    <2>1. \A i \in (k + 1)..Len(q) : q[i] \in S
      BY <1>a, ElementOfSeq
    <2>2. /\ high \in Seq(S)
          /\ Len(high) = IF k + 1 <= Len(q) THEN Len(q) - (k + 1) + 1 ELSE 0
          /\ \A i \in 1..(Len(q) - (k + 1) + 1) : high[i] = q[(k + 1) + i - 1]
      BY <2>1, <1>a, SubSeqProperties
    <2> HIDE DEF high
    <2> QED  BY <2>2, <1>a
  <1> HIDE DEF low, high, r
  <1>5. /\ r \in Seq(S)
        /\ Len(r) = Len(q) - 1
        /\ \A i \in 1..(Len(q) - 1) : r[i] = IF i < k THEN q[i] ELSE q[i + 1]
    <2>1. /\ low \o high \in Seq(S)
          /\ Len(low \o high) = Len(low) + Len(high)
          /\ \A i \in 1..(Len(low) + Len(high)) :
                (low \o high)[i] = IF i <= Len(low) THEN low[i]
                                   ELSE high[i - Len(low)]
      BY <1>3, <1>4, ConcatProperties
    <2>2. r \in Seq(S) /\ Len(r) = Len(q) - 1
      BY <2>1, <1>2, <1>3, <1>4, <1>a
    <2>3. ASSUME NEW i \in 1..(Len(q) - 1)
          PROVE  r[i] = IF i < k THEN q[i] ELSE q[i + 1]
      <3>1. r[i] = IF i <= k - 1 THEN low[i] ELSE high[i - (k - 1)]
        BY <2>1, <1>2, <1>3, <1>4, <1>a
      <3>2. CASE i < k   BY <3>1, <3>2, <1>a, <1>3
      <3>3. CASE ~(i < k)
        <4>1. i - (k - 1) \in 1..(Len(q) - k) /\ k + (i - (k - 1)) = i + 1
          BY <3>3, <1>a
        <4> QED  BY <3>1, <3>3, <4>1, <1>a, <1>4
      <3> QED  BY <3>2, <3>3
    <2> QED  BY <2>2, <2>3
  <1> QED  BY <1>1, <1>5 DEF r, k

\* It keeps the others, and keeps them free of repetitions.
LEMMA WithoutElements ==
    ASSUME NEW S, NEW q \in Seq(S), IsInjective(q), NEW e \in ToSet(q)
    PROVE  /\ Without(q, e) \in Seq(S)
           /\ Len(Without(q, e)) = Len(q) - 1
           /\ ToSet(Without(q, e)) = ToSet(q) \ {e}
           /\ IsInjective(Without(q, e))
  <1> DEFINE k == IndexOf(q, e)
             r == Without(q, e)
  <1>1. k \in 1..Len(q) /\ q[k] = e
    BY WithoutPositions
  <1>2. /\ r \in Seq(S)
        /\ Len(r) = Len(q) - 1
        /\ \A i \in 1..(Len(q) - 1) : r[i] = IF i < k THEN q[i] ELSE q[i + 1]
    BY WithoutPositions
  <1>3. Len(q) \in Nat /\ k \in Nat /\ k >= 1 /\ k <= Len(q)
    BY <1>1
  <1> HIDE DEF k, r
  <1>4. ToSet(r) \subseteq ToSet(q) \ {e}
    <2>1. ASSUME NEW i \in 1..(Len(q) - 1)  PROVE  r[i] \in ToSet(q) \ {e}
      <3>1. \E j \in 1..Len(q) : j # k /\ r[i] = q[j]
        <4>1. CASE i < k     BY <4>1, <1>2, <1>3
        <4>2. CASE ~(i < k)
          <5>1. i + 1 \in 1..Len(q) /\ i + 1 # k /\ r[i] = q[i + 1]
            BY <4>2, <1>2, <1>3
          <5> QED  BY <5>1
        <4> QED  BY <4>1, <4>2
      <3> QED  BY <3>1, <1>1 DEF ToSet, IsInjective
    <2> QED  BY <2>1, <1>2 DEF ToSet
  <1>5. ASSUME NEW f \in ToSet(q), f # e  PROVE f \in ToSet(r)
    <2>1. PICK i \in 1..Len(q) : q[i] = f
      BY ToSetRange
    <2>2. CASE i < k
      <3>1. i \in 1..(Len(q) - 1) /\ r[i] = f  BY <1>1, <1>2, <2>1, <2>2
      <3> QED  BY <3>1, <1>2 DEF ToSet
    <2>3. CASE i > k
      <3>1. i - 1 \in 1..(Len(q) - 1) /\ r[i - 1] = f  BY <1>1, <1>2, <2>1, <2>3
      <3> QED  BY <3>1, <1>2 DEF ToSet
    <2> QED  BY <2>1, <2>2, <2>3, <1>1, <1>5
  <1>6. IsInjective(r)
    <2>1. ASSUME NEW i \in 1..(Len(q) - 1), NEW j \in 1..(Len(q) - 1),
                 r[i] = r[j], i < j
          PROVE  FALSE
      <3>1. CASE j < k
        <4>1. j \in 1..Len(q) /\ i \in 1..Len(q) /\ i # j /\ q[i] = q[j]
          BY <3>1, <2>1, <1>2, <1>3
        <4> QED  BY <4>1 DEF IsInjective
      <3>2. CASE i < k /\ ~(j < k)
        <4>1. j + 1 \in 1..Len(q) /\ i \in 1..Len(q) /\ i # j + 1
              /\ q[i] = q[j + 1]
          BY <3>2, <2>1, <1>2, <1>3
        <4> QED  BY <4>1 DEF IsInjective
      <3>3. CASE ~(i < k)
        <4>1. j + 1 \in 1..Len(q) /\ i + 1 \in 1..Len(q) /\ i + 1 # j + 1
              /\ q[i + 1] = q[j + 1]
          BY <3>3, <2>1, <1>2, <1>3
        <4> QED  BY <4>1 DEF IsInjective
      <3> QED  BY <3>1, <3>2, <3>3, <1>3
    <2>2. DOMAIN r = 1..(Len(q) - 1)
      BY <1>2, <1>3
    <2>3. ASSUME NEW i \in 1..(Len(q) - 1), NEW j \in 1..(Len(q) - 1),
                 r[i] = r[j]
          PROVE  i = j
      BY <2>1, <2>3, <1>3
    <2> QED  BY <2>2, <2>3 DEF IsInjective
  <1> QED  BY <1>2, <1>4, <1>5, <1>6 DEF r

\* Each element is found where it is.
LEMMA IndexOfElement ==
    ASSUME NEW S, NEW q \in Seq(S), IsInjective(q), NEW i \in 1..Len(q)
    PROVE  IndexOf(q, q[i]) = i
  <1>1. IndexOf(q, q[i]) \in 1..Len(q) /\ q[IndexOf(q, q[i])] = q[i]
    BY DEF IndexOf
  <1> QED  BY <1>1 DEF IsInjective

\* Two repetition-free sequences with the same elements have one length.
LEMMA SameElementsSameLength ==
    ASSUME NEW S, NEW a \in Seq(S), NEW b \in Seq(S),
           IsInjective(a), IsInjective(b), ToSet(a) = ToSet(b)
    PROVE  Len(a) = Len(b)
  <1>1. ASSUME NEW q \in Seq(S), IsInjective(q)
        PROVE  Cardinality(ToSet(q)) = Len(q)
    <2>1. q \in [1..Len(q) -> ToSet(q)] /\ Len(q) \in Nat
      <3>1. q \in [1..Len(q) -> S] /\ Len(q) \in Nat
        BY LenProperties
      <3> QED  BY <3>1, ToSetRange
    <2>2. \A i, j \in 1..Len(q) : q[i] = q[j] => i = j
      BY <1>1, <2>1 DEF IsInjective
    <2>3. \A e \in ToSet(q) : \E i \in 1..Len(q) : q[i] = e
      BY ToSetRange
    <2>4. q \in Bijection(1..Len(q), ToSet(q))
      BY <2>1, <2>2, <2>3, Fun_IsBij
    <2> QED  BY <2>1, <2>4, FS_CountingElements DEF ExistsBijection
  <1> QED  BY <1>1

----
(* The handlers *)

LEMMA EmptyWF == WellFormed(EmptySnapshot)
  BY SnapshotAssumption
     DEF WellFormed, IsSnapshot, WorkspacesListed, LayoutsMatchPanes,
         FocusInside, EmptySnapshot, ToSet, IsInjective, PanesOf

\* One workspace replaced by one with the same set of leaves.
LEMMA ReplaceWorkspaceWF ==
    ASSUME NEW s, WellFormed(s), NEW w \in DOMAIN s.ws, NEW new \in Workspace,
           NEW focus \in DOMAIN s.ws \cup {s.activeWs},
           IsInjective(new.layout), Len(new.layout) <= MaxTerminals,
           ToSet(new.layout) = ToSet(s.ws[w].layout),
           IF new.layout = <<>> THEN new.active = None
           ELSE new.active \in ToSet(new.layout)
    PROVE  WellFormed(Update(s, [s.ws EXCEPT ![w] = new], focus, s.panes))
  <1> DEFINE ws == [s.ws EXCEPT ![w] = new]
             n  == Update(s, ws, focus, s.panes)
  <1>1. /\ s.ws \in [DOMAIN s.ws -> Workspace]
        /\ DOMAIN s.ws \subseteq WorkspaceIds
        /\ s.order \in Seq(WorkspaceIds)
        /\ s.activeWs \in WorkspaceIds \cup {None}
        /\ DOMAIN s.panes \subseteq PaneIds
        /\ s.panes \in [DOMAIN s.panes -> Pane]
    BY DEF WellFormed, IsSnapshot
  <1>2. /\ ws \in [DOMAIN s.ws -> Workspace]
        /\ DOMAIN ws = DOMAIN s.ws
        /\ ws[w] = new
        /\ \A v \in DOMAIN s.ws \ {w} : ws[v] = s.ws[v]
    BY <1>1
  <1> HIDE DEF ws
  <1>3. /\ n.order = s.order /\ n.ws = ws
        /\ n.activeWs = focus /\ n.panes = s.panes
    BY DEF Update
  <1>4. IsSnapshot(n)
    BY <1>1, <1>2 DEF IsSnapshot, Update
  <1> HIDE DEF n
  <1>5. WorkspacesListed(n)
    BY <1>2, <1>3 DEF WellFormed, WorkspacesListed
  <1>6. LayoutsMatchPanes(n)
    <2>1. ASSUME NEW v \in DOMAIN s.ws
          PROVE  /\ IsInjective(ws[v].layout)
                 /\ Len(ws[v].layout) <= MaxTerminals
                 /\ ToSet(ws[v].layout) = PanesOf(s, v)
      <3>1. CASE v = w   BY <3>1, <1>2 DEF WellFormed, LayoutsMatchPanes
      <3>2. CASE v # w   BY <3>2, <1>2 DEF WellFormed, LayoutsMatchPanes
      <3> QED  BY <3>1, <3>2
    <2> QED  BY <2>1, <1>2, <1>3 DEF WellFormed, LayoutsMatchPanes, PanesOf
  <1>7. FocusInside(n)
    <2>1. IF s.order = <<>> THEN focus = None ELSE focus \in DOMAIN s.ws
      <3>1. s.order # <<>>
        <4>1. w \in ToSet(s.order)
          BY DEF WellFormed, WorkspacesListed
        <4> QED  BY <4>1, <1>1 DEF ToSet
      <3> QED  BY <3>1 DEF WellFormed, FocusInside
    <2>2. ASSUME NEW v \in DOMAIN s.ws
          PROVE  IF ws[v].layout = <<>> THEN ws[v].active = None
                 ELSE ws[v].active \in ToSet(ws[v].layout)
      <3>1. CASE v = w   BY <3>1, <1>2
      <3>2. CASE v # w   BY <3>2, <1>2 DEF WellFormed, FocusInside
      <3> QED  BY <3>1, <3>2
    <2> QED  BY <2>1, <2>2, <1>2, <1>3 DEF FocusInside
  <1> QED  BY <1>4, <1>5, <1>6, <1>7 DEF WellFormed, n, ws

\* Panes updated in place: same panes, same workspaces.
LEMMA UpdatePanesWF ==
    ASSUME NEW s, WellFormed(s), NEW panes \in [DOMAIN s.panes -> Pane],
           \A p \in DOMAIN s.panes : panes[p].ws = s.panes[p].ws
    PROVE  WellFormed(Update(s, s.ws, s.activeWs, panes))
  <1> DEFINE n == Update(s, s.ws, s.activeWs, panes)
  <1>1. /\ n.order = s.order /\ n.ws = s.ws
        /\ n.activeWs = s.activeWs /\ n.panes = panes
        /\ DOMAIN n.panes = DOMAIN s.panes
    BY DEF Update
  <1>2. IsSnapshot(n)
    BY DEF WellFormed, IsSnapshot, Update
  <1> HIDE DEF n
  <1>3. \A w : PanesOf(n, w) = PanesOf(s, w)
    BY <1>1 DEF PanesOf
  <1>4. WorkspacesListed(n) /\ FocusInside(n)
    BY <1>1 DEF WellFormed, WorkspacesListed, FocusInside
  <1>5. LayoutsMatchPanes(n)
    BY <1>1, <1>3 DEF WellFormed, LayoutsMatchPanes
  <1> QED  BY <1>2, <1>4, <1>5 DEF WellFormed, n

\* A new pane at the end of the layout of w, focused.
LEMMA AddPaneWF ==
    ASSUME NEW s, WellFormed(s), NEW w \in DOMAIN s.ws,
           NEW p \in PaneIds \ DOMAIN s.panes, NEW pane \in Pane, pane.ws = w,
           NEW new \in Workspace, new.active = p,
           new.layout = Append(s.ws[w].layout, p),
           Len(s.ws[w].layout) < MaxTerminals
    PROVE  WellFormed(Update(s, [s.ws EXCEPT ![w] = new], s.activeWs,
                      WithPane(s.panes, p, pane)))
  <1> DEFINE ws == [s.ws EXCEPT ![w] = new]
             panes == WithPane(s.panes, p, pane)
             n  == Update(s, ws, s.activeWs, panes)
  <1>1. /\ s.ws \in [DOMAIN s.ws -> Workspace]
        /\ DOMAIN s.ws \subseteq WorkspaceIds
        /\ s.order \in Seq(WorkspaceIds)
        /\ s.activeWs \in WorkspaceIds \cup {None}
        /\ DOMAIN s.panes \subseteq PaneIds
        /\ s.panes \in [DOMAIN s.panes -> Pane]
    BY DEF WellFormed, IsSnapshot
  <1>2. /\ ws \in [DOMAIN s.ws -> Workspace]
        /\ DOMAIN ws = DOMAIN s.ws
        /\ ws[w] = new
        /\ \A v \in DOMAIN s.ws \ {w} : ws[v] = s.ws[v]
    BY <1>1
  <1>3. /\ panes \in [DOMAIN s.panes \cup {p} -> Pane]
        /\ DOMAIN panes = DOMAIN s.panes \cup {p}
        /\ panes[p] = pane
        /\ \A q \in DOMAIN s.panes : panes[q] = s.panes[q]
    BY <1>1 DEF WithPane
  <1> HIDE DEF ws, panes
  <1>4. /\ n.order = s.order /\ n.ws = ws
        /\ n.activeWs = s.activeWs /\ n.panes = panes
    BY DEF Update
  <1>5. IsSnapshot(n)
    BY <1>1, <1>2, <1>3 DEF IsSnapshot, Update
  <1> HIDE DEF n
  <1>6. PanesOf(n, w) = PanesOf(s, w) \cup {p}
    BY <1>3, <1>4 DEF PanesOf
  <1>7. \A v \in DOMAIN s.ws \ {w} : PanesOf(n, v) = PanesOf(s, v)
    BY <1>3, <1>4 DEF PanesOf
  <1>8. /\ IsInjective(new.layout)
        /\ Len(new.layout) <= MaxTerminals
        /\ ToSet(new.layout) = PanesOf(n, w)
        /\ p \in ToSet(new.layout)
        /\ new.layout # <<>>
    <2>1. s.ws[w].layout \in Seq(PaneIds)
      BY <1>1 DEF Workspace
    <2>2. /\ Len(new.layout) = Len(s.ws[w].layout) + 1
          /\ ToSet(new.layout) = ToSet(s.ws[w].layout) \cup {p}
          /\ IsInjective(s.ws[w].layout) /\ p \notin ToSet(s.ws[w].layout)
                 => IsInjective(new.layout)
      BY <2>1, AppendElements
    <2>3. /\ ToSet(s.ws[w].layout) = PanesOf(s, w)
          /\ IsInjective(s.ws[w].layout)
      BY DEF WellFormed, LayoutsMatchPanes
    <2>4. p \notin ToSet(s.ws[w].layout)
      BY <2>3 DEF PanesOf
    <2>5. Len(s.ws[w].layout) \in Nat
      BY <2>1
    <2>6. Len(new.layout) <= MaxTerminals /\ Len(new.layout) > 0
      BY <2>2, <2>5, SnapshotAssumption
    <2> QED  BY <2>2, <2>3, <2>4, <2>6, <1>6
  <1>9. WorkspacesListed(n)
    BY <1>2, <1>4 DEF WellFormed, WorkspacesListed
  <1>10. LayoutsMatchPanes(n)
    <2>1. ASSUME NEW v \in DOMAIN s.ws
          PROVE  /\ IsInjective(ws[v].layout)
                 /\ Len(ws[v].layout) <= MaxTerminals
                 /\ ToSet(ws[v].layout) = PanesOf(n, v)
      <3>1. CASE v = w   BY <3>1, <1>2, <1>8
      <3>2. CASE v # w   BY <3>2, <1>2, <1>7 DEF WellFormed, LayoutsMatchPanes
      <3> QED  BY <3>1, <3>2
    <2>2. \A q \in DOMAIN n.panes : n.panes[q].ws \in DOMAIN n.ws
      BY <1>2, <1>3, <1>4 DEF WellFormed, LayoutsMatchPanes
    <2> QED  BY <2>1, <2>2, <1>2, <1>4 DEF LayoutsMatchPanes
  <1>11. FocusInside(n)
    <2>1. ASSUME NEW v \in DOMAIN s.ws
          PROVE  IF ws[v].layout = <<>> THEN ws[v].active = None
                 ELSE ws[v].active \in ToSet(ws[v].layout)
      <3>1. CASE v = w   BY <3>1, <1>2, <1>8
      <3>2. CASE v # w   BY <3>2, <1>2 DEF WellFormed, FocusInside
      <3> QED  BY <3>1, <3>2
    <2> QED  BY <2>1, <1>2, <1>4 DEF WellFormed, FocusInside
  <1> QED  BY <1>5, <1>9, <1>10, <1>11 DEF WellFormed, n, ws, panes

\* A pane taken out of the layout of its workspace and out of the panes; the
\* workspace keeps a focus inside what is left.
LEMMA ClosePaneWF ==
    ASSUME NEW s, WellFormed(s), NEW p, CanClosePane(s, p)
    PROVE  WellFormed(ClosePane(s, p))
  <1> DEFINE w    == s.panes[p].ws
             old  == s.ws[w]
             rest == Without(old.layout, p)
             new  == IF Len(old.layout) = 1
                     THEN [old EXCEPT !.layout = <<>>, !.active = None]
                     ELSE [old EXCEPT !.layout = rest,
                                      !.active = IF @ = p THEN rest[1] ELSE @]
             ws    == [s.ws EXCEPT ![w] = new]
             panes == [q \in DOMAIN s.panes \ {p} |-> s.panes[q]]
             n     == Update(s, ws, s.activeWs, panes)
  <1>1. /\ s.ws \in [DOMAIN s.ws -> Workspace]
        /\ DOMAIN s.ws \subseteq WorkspaceIds
        /\ s.order \in Seq(WorkspaceIds)
        /\ s.activeWs \in WorkspaceIds \cup {None}
        /\ DOMAIN s.panes \subseteq PaneIds
        /\ s.panes \in [DOMAIN s.panes -> Pane]
        /\ p \in DOMAIN s.panes
        /\ w \in DOMAIN s.ws
    BY DEF WellFormed, IsSnapshot, CanClosePane
  <1>2. ClosePane(s, p) = n
    BY DEF ClosePane
  <1>3. /\ old \in Workspace
        /\ old.layout \in Seq(PaneIds)
        /\ old.active \in PaneIds \cup {None}
        /\ IsInjective(old.layout)
        /\ Len(old.layout) <= MaxTerminals
        /\ ToSet(old.layout) = PanesOf(s, w)
        /\ p \in ToSet(old.layout)
        /\ old.layout # <<>>
        /\ old.active \in ToSet(old.layout)
    <2>1. old \in Workspace  BY <1>1
    <2>2. old.layout \in Seq(PaneIds) /\ old.active \in PaneIds \cup {None}
      BY <2>1 DEF Workspace
    <2>3. /\ IsInjective(old.layout)
          /\ Len(old.layout) <= MaxTerminals
          /\ ToSet(old.layout) = PanesOf(s, w)
      BY <1>1 DEF WellFormed, LayoutsMatchPanes
    <2>4. p \in ToSet(old.layout)
      BY <1>1, <2>3 DEF PanesOf
    <2>5. old.layout # <<>>
      BY <2>4 DEF ToSet
    <2>6. old.active \in ToSet(old.layout)
      BY <1>1, <2>5 DEF WellFormed, FocusInside
    <2> QED  BY <2>1, <2>2, <2>3, <2>4, <2>5, <2>6
  <1>4. /\ rest \in Seq(PaneIds)
        /\ Len(rest) = Len(old.layout) - 1
        /\ ToSet(rest) = ToSet(old.layout) \ {p}
        /\ IsInjective(rest)
    BY <1>3, WithoutElements
  <1> HIDE DEF rest, old
  <1>5. /\ new \in Workspace
        /\ IsInjective(new.layout)
        /\ Len(new.layout) <= MaxTerminals
        /\ ToSet(new.layout) = PanesOf(s, w) \ {p}
        /\ IF new.layout = <<>> THEN new.active = None
           ELSE new.active \in ToSet(new.layout)
    <2>1. Len(old.layout) \in Nat /\ Len(rest) \in Nat
      BY <1>3, <1>4
    <2>2. CASE Len(old.layout) = 1
      <3>1. /\ new \in Workspace /\ new.layout = <<>> /\ new.active = None
        <4>1. new = [name |-> old.name, root |-> old.root,
                     layout |-> <<>>, active |-> None]
          BY <2>2, <1>3 DEF Workspace
        <4>2. old.name \in Names /\ old.root \in Dirs /\ <<>> \in Seq(PaneIds)
          BY <1>3 DEF Workspace
        <4> HIDE DEF new
        <4> QED  BY <4>1, <4>2 DEF Workspace
      <3>2. IsInjective(<<>>) /\ Len(<<>>) = 0 /\ ToSet(<<>>) = {}
        BY DEF IsInjective, ToSet
      <3>3. PanesOf(s, w) \ {p} = {}
        <4>1. \A e \in ToSet(old.layout) : e = old.layout[1]
          BY <2>2, <1>3, ToSetRange
        <4> QED  BY <4>1, <1>3
      <3> HIDE DEF new
      <3> QED  BY <3>1, <3>2, <3>3, SnapshotAssumption
    <2>3. CASE Len(old.layout) # 1
      <3>1. Len(rest) >= 1 /\ rest # <<>> /\ rest[1] \in ToSet(rest)
        <4>1. Len(old.layout) # 0
          BY <1>3, ToSetRange
        <4> DEFINE m == Len(old.layout)
        <4>a. Len(rest) = m - 1 /\ m \in Nat /\ m # 0 /\ m # 1
          BY <4>1, <1>4, <2>1, <2>3
        <4> HIDE DEF m
        <4>2. Len(rest) >= 1
          BY <4>a
        <4>3. 1 \in 1..Len(rest)
          BY <4>2, <2>1
        <4> QED  BY <4>2, <4>3, <1>4, ToSetRange
      <3>2. ToSet(rest) \subseteq PaneIds
        BY <1>4, ToSetRange
      <3>3. /\ new.layout = rest
            /\ new.active = IF old.active = p THEN rest[1] ELSE old.active
            /\ new \in Workspace
        BY <2>3, <1>3, <1>4, <3>1, <3>2 DEF Workspace
      <3>4. new.active \in ToSet(rest)
        BY <3>1, <3>3, <1>3, <1>4
      <3>5. Len(rest) <= MaxTerminals
        BY <1>3, <1>4, <2>1, SnapshotAssumption
      <3> HIDE DEF new
      <3> QED  BY <3>1, <3>3, <3>4, <3>5, <1>3, <1>4
    <2> QED  BY <2>2, <2>3
  <1> HIDE DEF new
  <1>6. /\ ws \in [DOMAIN s.ws -> Workspace]
        /\ DOMAIN ws = DOMAIN s.ws
        /\ ws[w] = new
        /\ \A v \in DOMAIN s.ws \ {w} : ws[v] = s.ws[v]
    BY <1>1, <1>5
  <1>7. /\ panes \in [DOMAIN s.panes \ {p} -> Pane]
        /\ DOMAIN panes = DOMAIN s.panes \ {p}
        /\ \A q \in DOMAIN s.panes \ {p} : panes[q] = s.panes[q]
    BY <1>1
  <1> HIDE DEF ws, panes
  <1>8. /\ n.order = s.order /\ n.ws = ws
        /\ n.activeWs = s.activeWs /\ n.panes = panes
    BY DEF Update
  <1>9. IsSnapshot(n)
    BY <1>1, <1>6, <1>7 DEF IsSnapshot, Update
  <1> HIDE DEF n
  <1>10. \A v : PanesOf(n, v) = PanesOf(s, v) \ {p}
    BY <1>7, <1>8 DEF PanesOf
  <1>11. \A v \in DOMAIN s.ws \ {w} : PanesOf(n, v) = PanesOf(s, v)
    BY <1>10 DEF PanesOf
  <1>12. WorkspacesListed(n)
    BY <1>6, <1>8 DEF WellFormed, WorkspacesListed
  <1>13. LayoutsMatchPanes(n)
    <2>1. ASSUME NEW v \in DOMAIN s.ws
          PROVE  /\ IsInjective(ws[v].layout)
                 /\ Len(ws[v].layout) <= MaxTerminals
                 /\ ToSet(ws[v].layout) = PanesOf(n, v)
      <3>1. CASE v = w   BY <3>1, <1>5, <1>6, <1>10
      <3>2. CASE v # w   BY <3>2, <1>6, <1>11 DEF WellFormed, LayoutsMatchPanes
      <3> QED  BY <3>1, <3>2
    <2>2. \A q \in DOMAIN n.panes : n.panes[q].ws \in DOMAIN n.ws
      BY <1>6, <1>7, <1>8 DEF WellFormed, LayoutsMatchPanes
    <2> QED  BY <2>1, <2>2, <1>6, <1>8 DEF LayoutsMatchPanes
  <1>14. FocusInside(n)
    <2>1. ASSUME NEW v \in DOMAIN s.ws
          PROVE  IF ws[v].layout = <<>> THEN ws[v].active = None
                 ELSE ws[v].active \in ToSet(ws[v].layout)
      <3>1. CASE v = w   BY <3>1, <1>5, <1>6
      <3>2. CASE v # w   BY <3>2, <1>6 DEF WellFormed, FocusInside
      <3> QED  BY <3>1, <3>2
    <2> QED  BY <2>1, <1>6, <1>8 DEF WellFormed, FocusInside
  <1> QED  BY <1>2, <1>9, <1>12, <1>13, <1>14 DEF WellFormed

\* A new workspace at the end of the list, with one new pane, focused.
LEMMA CreateWorkspaceWF ==
    ASSUME NEW s, WellFormed(s),
           NEW w \in WorkspaceIds \ DOMAIN s.ws, NEW p \in PaneIds \ DOMAIN s.panes,
           NEW name \in Names, NEW root \in Dirs
    PROVE  WellFormed(CreateWorkspace(s, w, p, name, root))
  <1> DEFINE new   == [name |-> name, root |-> root, layout |-> <<p>>, active |-> p]
             ws    == [v \in DOMAIN s.ws \cup {w} |-> IF v = w THEN new ELSE s.ws[v]]
             pane  == NewPane(w, root, DefaultSize)
             panes == WithPane(s.panes, p, pane)
             order == Append(s.order, w)
             n     == [order |-> order, ws |-> ws, activeWs |-> w, panes |-> panes]
  <1>1. /\ s.ws \in [DOMAIN s.ws -> Workspace]
        /\ DOMAIN s.ws \subseteq WorkspaceIds
        /\ s.order \in Seq(WorkspaceIds)
        /\ DOMAIN s.panes \subseteq PaneIds
        /\ s.panes \in [DOMAIN s.panes -> Pane]
        /\ IsInjective(s.order)
        /\ ToSet(s.order) = DOMAIN s.ws
    BY DEF WellFormed, IsSnapshot, WorkspacesListed
  <1>2. CreateWorkspace(s, w, p, name, root) = n
    BY DEF CreateWorkspace
  <1>3. /\ order \in Seq(WorkspaceIds)
        /\ ToSet(order) = DOMAIN s.ws \cup {w}
        /\ IsInjective(order)
        /\ order # <<>>
    <2>1. /\ order \in Seq(WorkspaceIds)
          /\ Len(order) = Len(s.order) + 1
          /\ ToSet(order) = ToSet(s.order) \cup {w}
          /\ IsInjective(s.order) /\ w \notin ToSet(s.order) => IsInjective(order)
      BY <1>1, AppendElements
    <2> HIDE DEF order
    <2>2. order # <<>>
      <3>1. w \in ToSet(order)  BY <2>1
      <3> QED  BY <3>1 DEF ToSet
    <2> QED  BY <2>1, <2>2, <1>1
  <1>4. pane \in Pane /\ pane.ws = w
    BY SnapshotAssumption DEF NewPane, Pane, Statuses
  <1>5. new \in Workspace /\ new.layout = <<p>> /\ new.active = p
    BY DEF Workspace
  <1>6. IsInjective(<<p>>) /\ ToSet(<<p>>) = {p} /\ Len(<<p>>) = 1 /\ <<p>> # <<>>
    BY DEF IsInjective, ToSet
  <1> HIDE DEF new, pane, order
  <1>7. /\ ws \in [DOMAIN s.ws \cup {w} -> Workspace]
        /\ DOMAIN ws = DOMAIN s.ws \cup {w}
        /\ ws[w] = new
        /\ \A v \in DOMAIN s.ws : ws[v] = s.ws[v]
    BY <1>1, <1>5
  <1>8. /\ panes \in [DOMAIN s.panes \cup {p} -> Pane]
        /\ DOMAIN panes = DOMAIN s.panes \cup {p}
        /\ panes[p] = pane
        /\ \A q \in DOMAIN s.panes : panes[q] = s.panes[q]
    BY <1>1, <1>4 DEF WithPane
  <1> HIDE DEF ws, panes
  <1>9. /\ n.order = order /\ n.ws = ws /\ n.activeWs = w /\ n.panes = panes
    OBVIOUS
  <1>10. IsSnapshot(n)
    BY <1>1, <1>3, <1>7, <1>8 DEF IsSnapshot
  <1> HIDE DEF n
  <1>11. \A q \in DOMAIN s.panes : s.panes[q].ws \in DOMAIN s.ws
    BY DEF WellFormed, LayoutsMatchPanes
  <1>12. PanesOf(n, w) = {p}
    BY <1>4, <1>8, <1>9, <1>11 DEF PanesOf
  <1>13. \A v \in DOMAIN s.ws : PanesOf(n, v) = PanesOf(s, v)
    BY <1>4, <1>8, <1>9, <1>11 DEF PanesOf
  <1>14. WorkspacesListed(n)
    BY <1>3, <1>7, <1>9 DEF WorkspacesListed
  <1>15. LayoutsMatchPanes(n)
    <2>1. ASSUME NEW v \in DOMAIN s.ws \cup {w}
          PROVE  /\ IsInjective(ws[v].layout)
                 /\ Len(ws[v].layout) <= MaxTerminals
                 /\ ToSet(ws[v].layout) = PanesOf(n, v)
      <3>1. CASE v = w
        <4>1. ws[v].layout = <<p>> /\ PanesOf(n, v) = {p}
          BY <3>1, <1>5, <1>7, <1>12
        <4>2. 1 <= MaxTerminals
          BY SnapshotAssumption
        <4> QED  BY <4>1, <4>2, <1>6
      <3>2. CASE v # w
        BY <3>2, <1>7, <1>13 DEF WellFormed, LayoutsMatchPanes
      <3> QED  BY <3>1, <3>2
    <2>2. \A q \in DOMAIN n.panes : n.panes[q].ws \in DOMAIN n.ws
      BY <1>4, <1>7, <1>8, <1>9, <1>11
    <2> QED  BY <2>1, <2>2, <1>7, <1>9 DEF LayoutsMatchPanes
  <1>16. FocusInside(n)
    <2>1. ASSUME NEW v \in DOMAIN s.ws \cup {w}
          PROVE  IF ws[v].layout = <<>> THEN ws[v].active = None
                 ELSE ws[v].active \in ToSet(ws[v].layout)
      <3>1. CASE v = w   BY <3>1, <1>5, <1>6, <1>7
      <3>2. CASE v # w   BY <3>2, <1>7 DEF WellFormed, FocusInside
      <3> QED  BY <3>1, <3>2
    <2> QED  BY <2>1, <1>3, <1>7, <1>9 DEF FocusInside
  <1> QED  BY <1>2, <1>10, <1>14, <1>15, <1>16 DEF WellFormed

\* The focus of the heir is inside what is left: index.min(len - 1) is an
\* index of the shortened list whenever that list is not empty.
LEMMA CloseWorkspaceWF ==
    ASSUME NEW s, WellFormed(s), NEW w, CanCloseWorkspace(s, w)
    PROVE  WellFormed(CloseWorkspace(s, w))
  <1> DEFINE index == IndexOf(s.order, w)
             rest  == Without(s.order, w)
             heir  == IF rest = <<>> THEN None
                      ELSE rest[IF index <= Len(rest) THEN index ELSE Len(rest)]
             focus == IF s.activeWs = w THEN heir ELSE s.activeWs
             ws    == [v \in DOMAIN s.ws \ {w} |-> s.ws[v]]
             panes == [p \in DOMAIN s.panes \ PanesOf(s, w) |-> s.panes[p]]
             n     == [order |-> rest, ws |-> ws, activeWs |-> focus, panes |-> panes]
  <1>1. /\ s.ws \in [DOMAIN s.ws -> Workspace]
        /\ DOMAIN s.ws \subseteq WorkspaceIds
        /\ s.order \in Seq(WorkspaceIds)
        /\ s.activeWs \in WorkspaceIds \cup {None}
        /\ DOMAIN s.panes \subseteq PaneIds
        /\ s.panes \in [DOMAIN s.panes -> Pane]
        /\ IsInjective(s.order)
        /\ ToSet(s.order) = DOMAIN s.ws
        /\ w \in DOMAIN s.ws
    BY DEF WellFormed, IsSnapshot, WorkspacesListed, CanCloseWorkspace
  <1>2. CloseWorkspace(s, w) = n
    BY DEF CloseWorkspace
  <1>3. /\ rest \in Seq(WorkspaceIds)
        /\ ToSet(rest) = DOMAIN s.ws \ {w}
        /\ IsInjective(rest)
        /\ Len(rest) = Len(s.order) - 1
    BY <1>1, WithoutElements
  <1>4. index \in 1..Len(s.order)
    BY <1>1, ToSetRange DEF IndexOf
  <1> HIDE DEF index, rest
  <1>5. rest # <<>> => heir \in ToSet(rest)
    <2>1. SUFFICES ASSUME rest # <<>>  PROVE heir \in ToSet(rest)
      OBVIOUS
    <2>2. Len(rest) \in Nat /\ Len(rest) # 0
      BY <1>3, <2>1, EmptySeq
    <2>3. (IF index <= Len(rest) THEN index ELSE Len(rest)) \in 1..Len(rest)
      BY <1>4, <2>2
    <2> QED  BY <2>1, <2>3, <1>3, ToSetRange
  <1>6. IF rest = <<>> THEN focus = None ELSE focus \in DOMAIN s.ws \ {w}
    <2>1. CASE s.activeWs = w
      BY <2>1, <1>3, <1>5
    <2>2. CASE s.activeWs # w
      <3>1. s.order # <<>>
        BY <1>1 DEF ToSet
      <3>2. s.activeWs \in DOMAIN s.ws
        BY <3>1 DEF WellFormed, FocusInside
      <3>3. rest # <<>>
        BY <3>2, <2>2, <1>3 DEF ToSet
      <3> QED  BY <3>2, <3>3, <2>2
    <2> QED  BY <2>1, <2>2
  <1> HIDE DEF focus
  <1>7. /\ ws \in [DOMAIN s.ws \ {w} -> Workspace]
        /\ DOMAIN ws = DOMAIN s.ws \ {w}
        /\ \A v \in DOMAIN s.ws \ {w} : ws[v] = s.ws[v]
    BY <1>1
  <1>8. /\ panes \in [DOMAIN s.panes \ PanesOf(s, w) -> Pane]
        /\ DOMAIN panes = DOMAIN s.panes \ PanesOf(s, w)
        /\ \A q \in DOMAIN panes : panes[q] = s.panes[q]
    BY <1>1
  <1> HIDE DEF ws, panes
  <1>9. /\ n.order = rest /\ n.ws = ws /\ n.activeWs = focus /\ n.panes = panes
    OBVIOUS
  <1>10. IsSnapshot(n)
    <2>1. focus \in WorkspaceIds \cup {None}
      BY <1>1, <1>6
    <2>2. DOMAIN ws \subseteq WorkspaceIds /\ DOMAIN panes \subseteq PaneIds
      BY <1>1, <1>7, <1>8
    <2> QED  BY <2>1, <2>2, <1>3, <1>7, <1>8, <1>9 DEF IsSnapshot
  <1> HIDE DEF n
  <1>11. \A v \in DOMAIN s.ws \ {w} : PanesOf(n, v) = PanesOf(s, v)
    BY <1>8, <1>9 DEF PanesOf
  <1>12. WorkspacesListed(n)
    BY <1>3, <1>7, <1>9 DEF WorkspacesListed
  <1>13. LayoutsMatchPanes(n)
    <2>1. ASSUME NEW v \in DOMAIN s.ws \ {w}
          PROVE  /\ IsInjective(ws[v].layout)
                 /\ Len(ws[v].layout) <= MaxTerminals
                 /\ ToSet(ws[v].layout) = PanesOf(n, v)
      BY <1>7, <1>11 DEF WellFormed, LayoutsMatchPanes
    <2>2. \A q \in DOMAIN n.panes : n.panes[q].ws \in DOMAIN n.ws
      BY <1>7, <1>8, <1>9 DEF WellFormed, LayoutsMatchPanes, PanesOf
    <2> QED  BY <2>1, <2>2, <1>7, <1>9 DEF LayoutsMatchPanes
  <1>14. FocusInside(n)
    <2>1. ASSUME NEW v \in DOMAIN s.ws \ {w}
          PROVE  IF ws[v].layout = <<>> THEN ws[v].active = None
                 ELSE ws[v].active \in ToSet(ws[v].layout)
      BY <1>7 DEF WellFormed, FocusInside
    <2> QED  BY <2>1, <1>6, <1>7, <1>9 DEF FocusInside
  <1> QED  BY <1>2, <1>10, <1>12, <1>13, <1>14 DEF WellFormed

\* Whoever closes the workspace he is in gets a neighbour of it.
LEMMA CloseWorkspaceHeir ==
    ASSUME NEW s, WellFormed(s), NEW w, CanCloseWorkspace(s, w), s.activeWs = w,
           CloseWorkspace(s, w).order # <<>>
    PROVE  IndexOf(s.order, CloseWorkspace(s, w).activeWs) - IndexOf(s.order, w) \in {-1, 1}
  <1>1. s.order \in Seq(WorkspaceIds) /\ IsInjective(s.order) /\ w \in ToSet(s.order)
    BY DEF WellFormed, IsSnapshot, WorkspacesListed, CanCloseWorkspace
  <1>2. PICK k \in 1..Len(s.order) : k = IndexOf(s.order, w)
    BY <1>1, ToSetRange DEF IndexOf
  <1>3. PICK rest \in Seq(WorkspaceIds) :
           /\ rest = Without(s.order, w) /\ Len(rest) = Len(s.order) - 1
           /\ \A i \in 1..(Len(s.order) - 1) :
                 rest[i] = IF i < k THEN s.order[i] ELSE s.order[i + 1]
    <2>1. /\ Without(s.order, w) \in Seq(WorkspaceIds) /\ Len(Without(s.order, w)) = Len(s.order) - 1
          /\ \A i \in 1..(Len(s.order) - 1) : Without(s.order, w)[i] =
                IF i < IndexOf(s.order, w) THEN s.order[i] ELSE s.order[i + 1]
      BY <1>1, WithoutPositions
    <2> QED  BY <1>2, <2>1
  <1>4. PICK n \in Nat : n = Len(s.order) /\ n >= 2
    <2>1. rest # <<>>
      BY <1>3 DEF CloseWorkspace
    <2> QED  BY <1>1, <1>3, <2>1, EmptySeq, LenProperties
  <1>5. CloseWorkspace(s, w).activeWs = rest[IF k <= n - 1 THEN k ELSE n - 1]
    BY <1>2, <1>3, <1>4 DEF CloseWorkspace
  <1>6. CASE k <= n - 1
    <2>1. k + 1 \in 1..Len(s.order) /\ CloseWorkspace(s, w).activeWs = s.order[k + 1]
      BY <1>2, <1>3, <1>4, <1>5, <1>6
    <2>2. IndexOf(s.order, s.order[k + 1]) = k + 1
      BY <1>1, <2>1, IndexOfElement
    <2> QED  BY <1>2, <2>1, <2>2
  <1>7. CASE ~(k <= n - 1)
    <2>1. k = n /\ n - 1 \in 1..Len(s.order) /\ CloseWorkspace(s, w).activeWs = s.order[n - 1]
      BY <1>2, <1>3, <1>4, <1>5, <1>7
    <2>2. IndexOf(s.order, s.order[n - 1]) = n - 1
      BY <1>1, <2>1, IndexOfElement
    <2> QED  BY <1>2, <2>1, <2>2
  <1> QED  BY <1>6, <1>7

\* Closing a pane removes that pane and no workspace.
LEMMA ClosePaneRemoves ==
    ASSUME NEW s, NEW p
    PROVE  /\ ClosePane(s, p).panes = [q \in DOMAIN s.panes \ {p} |-> s.panes[q]]
           /\ DOMAIN ClosePane(s, p).panes = DOMAIN s.panes \ {p}
           /\ DOMAIN ClosePane(s, p).ws = DOMAIN s.ws
           /\ ClosePane(s, p).activeWs = s.activeWs
  <1> DEFINE left == [q \in DOMAIN s.panes \ {p} |-> s.panes[q]]
  <1>1. \E new : ClosePane(s, p) = Update(s, [s.ws EXCEPT ![s.panes[p].ws] = new], s.activeWs, left)
    BY Zenon DEF ClosePane
  <1>2. PICK new : ClosePane(s, p) = Update(s, [s.ws EXCEPT ![s.panes[p].ws] = new], s.activeWs, left)
    BY <1>1
  <1>3. DOMAIN left = DOMAIN s.panes \ {p} /\ DOMAIN [s.ws EXCEPT ![s.panes[p].ws] = new] = DOMAIN s.ws
    OBVIOUS
  <1> QED  BY <1>2, <1>3 DEF Update

\* A pane that closes is the focus of no workspace it was not the focus of.
LEMMA ClosePaneFocus ==
    ASSUME NEW s, WellFormed(s), NEW p, CanClosePane(s, p), NEW w \in DOMAIN s.ws, s.ws[w].active # p
    PROVE  ClosePane(s, p).ws[w].active = s.ws[w].active
  <1> DEFINE h == s.panes[p].ws
  <1>1. p \in DOMAIN s.panes /\ h \in DOMAIN s.ws /\ s.ws \in [DOMAIN s.ws -> Workspace]
    BY DEF CanClosePane, WellFormed, IsSnapshot
  <1>2. CASE w # h
    BY <1>1, <1>2 DEF ClosePane, Update
  <1>3. CASE w = h
    <2>1. PICK q \in Seq(PaneIds) : q = s.ws[w].layout /\ p \in ToSet(q)
      BY <1>1, <1>3 DEF WellFormed, LayoutsMatchPanes, PanesOf, Workspace
    <2>2. Len(q) # 1
      <3>1. s.ws[w].active \in ToSet(q)
        <4>1. q # <<>>
          BY <2>1 DEF ToSet
        <4> QED  BY <2>1, <4>1 DEF WellFormed, FocusInside
      <3> QED  BY <2>1, <3>1, ToSetRange
    <2> QED  BY <1>1, <1>3, <2>1, <2>2 DEF ClosePane, Update, Workspace
  <1> QED  BY <1>2, <1>3

----
(* The handlers that are instances of the lemmas above *)

LEMMA RenameWorkspaceWF ==
    ASSUME NEW s, WellFormed(s), NEW w, NEW name \in Names,
           CanRenameWorkspace(s, w, name)
    PROVE  WellFormed(RenameWorkspace(s, w, name))
  <1> DEFINE new == [s.ws[w] EXCEPT !.name = name]
  <1>1. w \in DOMAIN s.ws /\ s.ws \in [DOMAIN s.ws -> Workspace]
    BY DEF CanRenameWorkspace, WellFormed, IsSnapshot
  <1>2. s.ws[w] \in Workspace
    BY <1>1
  <1>3. /\ new \in Workspace
        /\ new.layout = s.ws[w].layout /\ new.active = s.ws[w].active
    BY <1>2 DEF Workspace
  <1>4. RenameWorkspace(s, w, name)
          = Update(s, [s.ws EXCEPT ![w] = new], s.activeWs, s.panes)
    BY DEF RenameWorkspace
  <1> HIDE DEF new
  <1>5. /\ IsInjective(new.layout) /\ Len(new.layout) <= MaxTerminals
        /\ IF new.layout = <<>> THEN new.active = None
           ELSE new.active \in ToSet(new.layout)
    BY <1>1, <1>3 DEF WellFormed, LayoutsMatchPanes, FocusInside
  <1> QED  BY <1>1, <1>3, <1>4, <1>5, ReplaceWorkspaceWF

LEMMA FocusPaneWF ==
    ASSUME NEW s, WellFormed(s), NEW p, CanFocusPane(s, p)
    PROVE  WellFormed(FocusPane(s, p))
  <1> DEFINE w   == s.panes[p].ws
             new == [s.ws[w] EXCEPT !.active = p]
  <1>1. /\ w \in DOMAIN s.ws /\ s.ws \in [DOMAIN s.ws -> Workspace]
        /\ p \in DOMAIN s.panes /\ p \in PaneIds
    BY DEF CanFocusPane, WellFormed, IsSnapshot
  <1>2. FocusPane(s, p) = Update(s, [s.ws EXCEPT ![w] = new], w, s.panes)
    BY DEF FocusPane
  <1>3. p \in PanesOf(s, w)
    BY <1>1 DEF PanesOf
  <1> HIDE DEF w
  <1>4. s.ws[w] \in Workspace
    BY <1>1
  <1>5. /\ new \in Workspace
        /\ new.layout = s.ws[w].layout /\ new.active = p
    BY <1>1, <1>4 DEF Workspace
  <1> HIDE DEF new
  <1>6. /\ IsInjective(new.layout) /\ Len(new.layout) <= MaxTerminals
        /\ p \in ToSet(new.layout)
    BY <1>1, <1>3, <1>5 DEF WellFormed, LayoutsMatchPanes
  <1>7. new.layout # <<>>
    BY <1>6 DEF ToSet
  <1> QED  BY <1>1, <1>2, <1>5, <1>6, <1>7, ReplaceWorkspaceWF

LEMMA UpdateLayoutWF ==
    ASSUME NEW s, WellFormed(s), NEW w, NEW leaves \in Seq(PaneIds),
           CanUpdateLayout(s, w, leaves)
    PROVE  WellFormed(UpdateLayout(s, w, leaves))
  <1> DEFINE new == [s.ws[w] EXCEPT !.layout = leaves]
             old == s.ws[w].layout
  <1>1. /\ w \in DOMAIN s.ws /\ s.ws \in [DOMAIN s.ws -> Workspace]
        /\ IsInjective(leaves) /\ ToSet(leaves) = ToSet(old)
    BY DEF CanUpdateLayout, WellFormed, IsSnapshot
  <1>2. UpdateLayout(s, w, leaves)
          = Update(s, [s.ws EXCEPT ![w] = new], s.activeWs, s.panes)
    BY DEF UpdateLayout
  <1>3. s.ws[w] \in Workspace
    BY <1>1
  <1>4. /\ new \in Workspace /\ old \in Seq(PaneIds)
        /\ new.layout = leaves /\ new.active = s.ws[w].active
    BY <1>3 DEF Workspace
  <1> HIDE DEF new
  <1>5. /\ IsInjective(old) /\ Len(old) <= MaxTerminals
    BY <1>1 DEF WellFormed, LayoutsMatchPanes
  <1>6. Len(leaves) = Len(old)
    BY <1>1, <1>4, <1>5, SameElementsSameLength
  <1>7. leaves = <<>> <=> old = <<>>
    BY <1>4, <1>6, EmptySeq
  <1>8. IF new.layout = <<>> THEN new.active = None
        ELSE new.active \in ToSet(new.layout)
    BY <1>1, <1>4, <1>7 DEF WellFormed, FocusInside
  <1> QED  BY <1>1, <1>2, <1>4, <1>5, <1>6, <1>8, ReplaceWorkspaceWF

LEMMA FocusWorkspaceWF ==
    ASSUME NEW s, WellFormed(s), NEW w, CanFocusWorkspace(s, w)
    PROVE  WellFormed(FocusWorkspace(s, w))
  <1> DEFINE n == FocusWorkspace(s, w)
  <1>1. /\ n.order = s.order /\ n.ws = s.ws /\ n.activeWs = w /\ n.panes = s.panes
        /\ w \in DOMAIN s.ws
    BY DEF FocusWorkspace, Update, CanFocusWorkspace
  <1>2. IsSnapshot(n)
    BY <1>1 DEF WellFormed, IsSnapshot, FocusWorkspace, Update
  <1> HIDE DEF n
  <1>3. s.order # <<>>
    BY <1>1 DEF WellFormed, WorkspacesListed, ToSet
  <1>4. WorkspacesListed(n) /\ FocusInside(n)
    BY <1>1, <1>3 DEF WellFormed, WorkspacesListed, FocusInside
  <1>5. LayoutsMatchPanes(n)
    BY <1>1 DEF WellFormed, LayoutsMatchPanes, PanesOf
  <1> QED  BY <1>2, <1>4, <1>5 DEF WellFormed, n

LEMMA CreatePaneWF ==
    ASSUME NEW s, WellFormed(s), NEW w, NEW p \in PaneIds \ DOMAIN s.panes,
           CanCreatePane(s, w)
    PROVE  WellFormed(CreatePane(s, w, p))
  <1> DEFINE new  == [s.ws[w] EXCEPT !.layout = <<p>>, !.active = p]
             pane == NewPane(w, new.root, DefaultSize)
  <1>1. /\ w \in DOMAIN s.ws /\ s.ws \in [DOMAIN s.ws -> Workspace]
        /\ w \in WorkspaceIds /\ s.ws[w].active = None
    BY DEF CanCreatePane, WellFormed, IsSnapshot
  <1>2. CreatePane(s, w, p)
          = Update(s, [s.ws EXCEPT ![w] = new], s.activeWs, WithPane(s.panes, p, pane))
    BY DEF CreatePane
  <1>3. s.ws[w] \in Workspace
    BY <1>1
  <1>4. s.ws[w].layout = <<>>
    <2>1. ToSet(s.ws[w].layout) \subseteq PaneIds
      BY <1>3, ToSetRange DEF Workspace
    <2> QED  BY <2>1, <1>1, SnapshotAssumption DEF WellFormed, FocusInside
  <1>5. /\ new \in Workspace /\ new.layout = <<p>> /\ new.active = p
        /\ new.root \in Dirs
    <2>1. <<p>> \in Seq(PaneIds)
      OBVIOUS
    <2> DEFINE one == <<p>>
    <2> HIDE DEF one
    <2>2. one \in Seq(PaneIds)
      BY <2>1 DEF one
    <2>3. new = [s.ws[w] EXCEPT !.layout = one, !.active = p]
      BY DEF one
    <2>4. new \in Workspace /\ new.layout = one /\ new.active = p
          /\ new.root \in Dirs
      BY <2>2, <2>3, <1>3 DEF Workspace
    <2> QED  BY <2>4 DEF one
  <1> HIDE DEF new
  <1>6. pane \in Pane /\ pane.ws = w
    BY <1>1, <1>5, SnapshotAssumption DEF NewPane, Pane, Statuses
  <1> HIDE DEF pane
  <1>7. new.layout = Append(s.ws[w].layout, p)
    BY <1>4, <1>5
  <1>8. Len(s.ws[w].layout) < MaxTerminals
    BY <1>4, SnapshotAssumption
  <1> QED  BY <1>1, <1>2, <1>5, <1>6, <1>7, <1>8, AddPaneWF

LEMMA SplitPaneWF ==
    ASSUME NEW s, WellFormed(s), NEW w, NEW target,
           NEW p \in PaneIds \ DOMAIN s.panes, CanSplitPane(s, w, target)
    PROVE  WellFormed(SplitPane(s, w, target, p))
  <1> DEFINE new  == [s.ws[w] EXCEPT !.layout = Append(@, p), !.active = p]
             from == s.panes[target]
             pane == NewPane(w, from.cwd, from.size)
  <1>1. /\ w \in DOMAIN s.ws /\ s.ws \in [DOMAIN s.ws -> Workspace]
        /\ w \in WorkspaceIds
        /\ target \in DOMAIN s.panes /\ s.panes \in [DOMAIN s.panes -> Pane]
        /\ Len(s.ws[w].layout) < MaxTerminals
    BY DEF CanSplitPane, WellFormed, IsSnapshot
  <1>2. SplitPane(s, w, target, p)
          = Update(s, [s.ws EXCEPT ![w] = new], s.activeWs, WithPane(s.panes, p, pane))
    BY DEF SplitPane
  <1>3. s.ws[w] \in Workspace /\ from \in Pane
    BY <1>1
  <1>4. /\ new \in Workspace /\ new.active = p
        /\ new.layout = Append(s.ws[w].layout, p)
    <2>1. Append(s.ws[w].layout, p) \in Seq(PaneIds)
      BY <1>3, AppendElements DEF Workspace
    <2> QED  BY <2>1, <1>3 DEF Workspace
  <1> HIDE DEF new
  <1>5. pane \in Pane /\ pane.ws = w
    BY <1>1, <1>3, SnapshotAssumption DEF NewPane, Pane, Statuses
  <1> HIDE DEF pane
  <1> QED  BY <1>1, <1>2, <1>4, <1>5, AddPaneWF

\* Setting one field of one pane, workspace apart.
LEMMA SetPaneFieldsWF ==
    ASSUME NEW s, WellFormed(s), NEW p \in DOMAIN s.panes
    PROVE  /\ \A size \in Sizes : WellFormed(Resize(s, p, size))
           /\ \A status \in Statuses : WellFormed(SetPaneStatus(s, p, status))
           /\ \A cwd \in Dirs : WellFormed(SetPaneCwd(s, p, cwd))
           /\ \A label \in Labels : WellFormed(SetPaneProcessLabel(s, p, label))
  <1>1. s.panes \in [DOMAIN s.panes -> Pane] /\ s.panes[p] \in Pane
    BY DEF WellFormed, IsSnapshot
  <1>2. ASSUME NEW pane \in Pane, pane.ws = s.panes[p].ws
        PROVE  WellFormed(Update(s, s.ws, s.activeWs, [s.panes EXCEPT ![p] = pane]))
    <2> DEFINE panes == [s.panes EXCEPT ![p] = pane]
    <2>1. /\ panes \in [DOMAIN s.panes -> Pane]
          /\ \A q \in DOMAIN s.panes : panes[q].ws = s.panes[q].ws
      BY <1>1, <1>2
    <2> HIDE DEF panes
    <2>2. WellFormed(Update(s, s.ws, s.activeWs, panes))
      BY <2>1, UpdatePanesWF
    <2> QED  BY <2>2 DEF panes
  <1>3. ASSUME NEW size \in Sizes  PROVE WellFormed(Resize(s, p, size))
    <2>1. /\ [s.panes[p] EXCEPT !.size = size] \in Pane
          /\ [s.panes[p] EXCEPT !.size = size].ws = s.panes[p].ws
      BY <1>1 DEF Pane
    <2> QED  BY <2>1, <1>2 DEF Resize
  <1>4. ASSUME NEW status \in Statuses  PROVE WellFormed(SetPaneStatus(s, p, status))
    <2>1. /\ [s.panes[p] EXCEPT !.status = status] \in Pane
          /\ [s.panes[p] EXCEPT !.status = status].ws = s.panes[p].ws
      BY <1>1 DEF Pane
    <2> QED  BY <2>1, <1>2 DEF SetPaneStatus
  <1>5. ASSUME NEW cwd \in Dirs  PROVE WellFormed(SetPaneCwd(s, p, cwd))
    <2>1. /\ [s.panes[p] EXCEPT !.cwd = cwd] \in Pane
          /\ [s.panes[p] EXCEPT !.cwd = cwd].ws = s.panes[p].ws
      BY <1>1 DEF Pane
    <2> QED  BY <2>1, <1>2 DEF SetPaneCwd
  <1>6. ASSUME NEW label \in Labels
        PROVE  WellFormed(SetPaneProcessLabel(s, p, label))
    <2>1. /\ [s.panes[p] EXCEPT !.label = label] \in Pane
          /\ [s.panes[p] EXCEPT !.label = label].ws = s.panes[p].ws
      BY <1>1 DEF Pane
    <2> QED  BY <2>1, <1>2 DEF SetPaneProcessLabel
  <1> QED  BY <1>3, <1>4, <1>5, <1>6

LEMMA RestartedWF ==
    ASSUME NEW s, WellFormed(s)
    PROVE  WellFormed(Restarted(s))
  <1> DEFINE panes == [p \in DOMAIN s.panes |->
                          [s.panes[p] EXCEPT !.status = "Starting"]]
  <1>1. s.panes \in [DOMAIN s.panes -> Pane]
    BY DEF WellFormed, IsSnapshot
  <1>2. ASSUME NEW q \in Pane
        PROVE  /\ [q EXCEPT !.status = "Starting"] \in Pane
               /\ [q EXCEPT !.status = "Starting"].ws = q.ws
    BY DEF Pane, Statuses
  <1>3. /\ panes \in [DOMAIN s.panes -> Pane]
        /\ \A p \in DOMAIN s.panes : panes[p].ws = s.panes[p].ws
    BY <1>1, <1>2
  <1> HIDE DEF panes
  <1>4. WellFormed(Update(s, s.ws, s.activeWs, panes))
    BY <1>3, UpdatePanesWF
  <1> QED  BY <1>4 DEF Restarted, panes

\* What Lasting forgets: a change of statuses and labels leaves it alone.
LEMMA ObservationsNotLasting ==
    ASSUME NEW s, IsSnapshot(s), NEW p \in DOMAIN s.panes
    PROVE  /\ \A status : Lasting(SetPaneStatus(s, p, status)) = Lasting(s)
           /\ \A label : Lasting(SetPaneProcessLabel(s, p, label)) = Lasting(s)
  <1> DEFINE kept(panes) == [q \in DOMAIN panes |->
                               [ws |-> panes[q].ws, cwd |-> panes[q].cwd,
                                size |-> panes[q].size]]
  <1>1. s.panes \in [DOMAIN s.panes -> Pane]
    BY DEF IsSnapshot
  <1>2. ASSUME NEW status
        PROVE  kept([s.panes EXCEPT ![p].status = status]) = kept(s.panes)
    <2> DEFINE new == [s.panes EXCEPT ![p].status = status]
    <2>1. DOMAIN new = DOMAIN s.panes
      OBVIOUS
    <2>2. ASSUME NEW q \in DOMAIN s.panes
          PROVE  /\ new[q].ws = s.panes[q].ws /\ new[q].cwd = s.panes[q].cwd
                 /\ new[q].size = s.panes[q].size
      BY <1>1 DEF Pane
    <2> HIDE DEF new
    <2>3. kept(new) = kept(s.panes)
      BY <2>1, <2>2
    <2> QED  BY <2>3 DEF new
  <1>3. ASSUME NEW label
        PROVE  kept([s.panes EXCEPT ![p].label = label]) = kept(s.panes)
    <2> DEFINE new == [s.panes EXCEPT ![p].label = label]
    <2>1. DOMAIN new = DOMAIN s.panes
      OBVIOUS
    <2>2. ASSUME NEW q \in DOMAIN s.panes
          PROVE  /\ new[q].ws = s.panes[q].ws /\ new[q].cwd = s.panes[q].cwd
                 /\ new[q].size = s.panes[q].size
      BY <1>1 DEF Pane
    <2> HIDE DEF new
    <2>3. kept(new) = kept(s.panes)
      BY <2>1, <2>2
    <2> QED  BY <2>3 DEF new
  <1> QED  BY <1>2, <1>3 DEF Lasting, Update, SetPaneStatus, SetPaneProcessLabel
====
