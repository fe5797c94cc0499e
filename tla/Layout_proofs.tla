---------------------------- MODULE Layout_proofs ----------------------------
(***************************************************************************)
(* What putting a tree into a directory keeps and changes, for all trees;  *)
(* and, for every monorepo, whatever its upstreams have and people write:  *)
(* the branch stays a tree, destinations hold what was made for them,      *)
(* declarations are people's own, agents resolve, targets commute.         *)
(***************************************************************************)
EXTENDS Layout, SequenceTheorems, FiniteSetTheorems, TLAPS

Apart(c, d) == ~IsPrefix(c, d) /\ ~IsPrefix(d, c)

-----------------------------------------------------------------------------
(* Paths. *)

LEMMA Prefix ==
  ASSUME NEW s \in Path, NEW t \in Path
  PROVE  IsPrefix(s, t) <=> Len(s) <= Len(t) /\ \A i \in 1..Len(s) : s[i] = t[i]
  BY DEF IsPrefix, Path

LEMMA PrefixTransitive ==
  ASSUME NEW a \in Path, NEW b \in Path, NEW c \in Path, IsPrefix(a, b), IsPrefix(b, c)
  PROVE  IsPrefix(a, c)
  BY Prefix DEF Path

LEMMA PrefixesMeet ==
  ASSUME NEW a \in Path, NEW b \in Path, NEW p \in Path, IsPrefix(a, p), IsPrefix(b, p)
  PROVE  ~Apart(a, b)
  BY Prefix DEF Apart, Path

LEMMA Joined ==
  ASSUME NEW d \in Path, NEW q \in Path
  PROVE  d \o q \in Path /\ IsPrefix(d, d \o q) /\ Below(d, d \o q) = q
  <1>1. d \o q \in Path /\ Len(d \o q) = Len(d) + Len(q)
    BY DEF Path
  <1>2. IsPrefix(d, d \o q)
    <2>1. \A i \in 1..Len(d) : (d \o q)[i] = d[i]
      BY DEF Path
    <2>2. Len(d) <= Len(d \o q)
      BY <1>1 DEF Path
    <2>3. QED
      BY <1>1, <2>1, <2>2, Prefix
  <1>3. Below(d, d \o q) \in Path /\ Len(Below(d, d \o q)) = Len(q)
    BY <1>1 DEF Below, Path
  <1>4. \A i \in 1..Len(q) : Below(d, d \o q)[i] = q[i]
    BY <1>1 DEF Below, Path
  <1>5. QED
    BY <1>1, <1>2, <1>3, <1>4, SeqEqual DEF Path

LEMMA Split ==
  ASSUME NEW d \in Path, NEW p \in Path, IsPrefix(d, p)
  PROVE  Below(d, p) \in Path /\ d \o Below(d, p) = p
  <1>1. Len(d) <= Len(p) /\ \A i \in 1..Len(d) : d[i] = p[i]
    BY Prefix
  <1>2. Below(d, p) \in Path /\ Len(Below(d, p)) = Len(p) - Len(d)
    BY <1>1 DEF Below, Path
  <1>3. d \o Below(d, p) \in Path /\ Len(d \o Below(d, p)) = Len(p)
    BY <1>1, <1>2 DEF Path
  <1>4. \A i \in 1..Len(p) : (d \o Below(d, p))[i] = p[i]
    BY <1>1, <1>2 DEF Below, Path
  <1>5. QED
    BY <1>2, <1>3, <1>4, SeqEqual DEF Path
-----------------------------------------------------------------------------
(* Putting a tree into a directory. *)

LEMMA PlaceValues ==
  ASSUME NEW d \in Path, NEW e, DOMAIN e \subseteq Path
  PROVE  /\ DOMAIN Place(d, e) = {d \o q : q \in DOMAIN e}
         /\ \A q \in DOMAIN e : d \o q \in DOMAIN Place(d, e) /\ Place(d, e)[d \o q] = e[q]
  BY Joined DEF Place

LEMMA PlaceBelow ==
  ASSUME NEW d \in Path, NEW e, DOMAIN e \subseteq Path, NEW p \in DOMAIN Place(d, e)
  PROVE  p \in Path /\ IsPrefix(d, p) /\ Below(d, p) \in DOMAIN e /\ Place(d, e)[p] = e[Below(d, p)]
  BY Joined DEF Place

LEMMA SplicedDomain ==
  ASSUME NEW b, NEW d, NEW s, NEW p
  PROVE  p \in DOMAIN SpliceTree(b, d, s) <=> p \in DOMAIN Place(d, s) \/ (p \in DOMAIN b /\ Apart(d, p))
  BY DEF SpliceTree, Cleared, Restrict, Apart, Overlay

LEMMA Spliced ==
  ASSUME NEW b, NEW d, NEW s, NEW p \in DOMAIN SpliceTree(b, d, s)
  PROVE  SpliceTree(b, d, s)[p] = IF p \in DOMAIN Place(d, s) THEN Place(d, s)[p] ELSE b[p]
  BY DEF SpliceTree, Cleared, Restrict, Apart, Overlay

LEMMA SplicedFunction ==
  ASSUME NEW b, NEW d, NEW s
  PROVE  SpliceTree(b, d, s) = [p \in DOMAIN SpliceTree(b, d, s) |-> SpliceTree(b, d, s)[p]]
  BY DEF SpliceTree, Overlay

LEMMA SplicedPaths ==
  ASSUME NEW b, DOMAIN b \subseteq Path, NEW d \in Path, NEW s, DOMAIN s \subseteq Path,
         NEW p \in DOMAIN SpliceTree(b, d, s)
  PROVE  /\ p \in Path
         /\ \/ p \in DOMAIN Place(d, s) /\ IsPrefix(d, p) /\ SpliceTree(b, d, s)[p] = Place(d, s)[p]
            \/ /\ p \notin DOMAIN Place(d, s) /\ Apart(d, p) /\ p \in DOMAIN b
               /\ SpliceTree(b, d, s)[p] = b[p]
  <1>1. CASE p \in DOMAIN Place(d, s)
    BY <1>1, Spliced, SplicedDomain, PlaceBelow
  <1>2. CASE p \notin DOMAIN Place(d, s)
    BY <1>2, Spliced, SplicedDomain
  <1>3. QED
    BY <1>1, <1>2

LEMMA SpliceOnPaths ==
  ASSUME NEW b, OnPaths(b), NEW d \in Path, NEW s, OnPaths(s)
  PROVE  OnPaths(SpliceTree(b, d, s))
  <1>1. DOMAIN b \subseteq Path /\ DOMAIN s \subseteq Path
    BY DEF OnPaths
  <1>2. DOMAIN SpliceTree(b, d, s) \subseteq Path
    BY <1>1, SplicedPaths
  <1>3. QED
    BY <1>2, SplicedFunction DEF OnPaths

(***************************************************************************)
(* A directory that a tree is put into holds just that tree                *)
(* (engine.rs splice_tree).                                                *)
(***************************************************************************)
THEOREM SpliceThere ==
  ASSUME NEW b, OnPaths(b), NEW d \in Path, NEW s, OnPaths(s)
  PROVE  EntryAt(SpliceTree(b, d, s), d) = s
  <1> DEFINE t == SpliceTree(b, d, s)
             e == EntryAt(t, d)
             paths == {p \in DOMAIN t : IsPrefix(d, p)}
  <1>0. DOMAIN b \subseteq Path /\ DOMAIN s \subseteq Path
    BY DEF OnPaths
  <1>1. paths = DOMAIN Place(d, s)
    <2>1. ASSUME NEW p \in paths PROVE p \in DOMAIN Place(d, s)
      BY <1>0, SplicedPaths DEF Apart
    <2>2. ASSUME NEW p \in DOMAIN Place(d, s) PROVE p \in paths
      <3>1. IsPrefix(d, p)
        BY <1>0, PlaceBelow
      <3>2. p \in DOMAIN t
        BY SplicedDomain
      <3>3. QED
        BY <3>1, <3>2
    <2>3. QED
      BY <2>1, <2>2
  <1>2. e = [q \in {Below(d, p) : p \in paths} |-> t[d \o q]]
    BY DEF EntryAt
  <1>3. {Below(d, p) : p \in paths} = DOMAIN s
    <2>1. ASSUME NEW p \in paths PROVE Below(d, p) \in DOMAIN s
      BY <1>0, <1>1, PlaceBelow
    <2>2. ASSUME NEW q \in DOMAIN s PROVE d \o q \in paths /\ Below(d, d \o q) = q
      BY <1>0, <1>1, PlaceValues, Joined
    <2>3. QED
      BY <2>1, <2>2
  <1>4. \A q \in DOMAIN s : t[d \o q] = s[q]
    <2> SUFFICES ASSUME NEW q \in DOMAIN s PROVE t[d \o q] = s[q]
      OBVIOUS
    <2>1. d \o q \in DOMAIN Place(d, s) /\ Place(d, s)[d \o q] = s[q]
      BY <1>0, PlaceValues
    <2>2. d \o q \in DOMAIN t
      BY <2>1, SplicedDomain
    <2>3. QED
      BY <2>1, <2>2, Spliced
  <1> HIDE DEF t, e, paths
  <1>5. e = [q \in DOMAIN s |-> s[q]]
    BY <1>2, <1>3, <1>4
  <1>6. QED
    BY <1>5 DEF OnPaths, e, t

(***************************************************************************)
(* What stands neither below that directory nor in its way is as it was    *)
(* (engine.rs splice_into).                                                *)
(***************************************************************************)
THEOREM SpliceElsewhere ==
  ASSUME NEW b, OnPaths(b), NEW d \in Path, NEW s, OnPaths(s), NEW p \in Path, Apart(d, p)
  PROVE  /\ p \in DOMAIN SpliceTree(b, d, s) <=> p \in DOMAIN b
         /\ p \in DOMAIN b => SpliceTree(b, d, s)[p] = b[p]
  <1>1. DOMAIN b \subseteq Path /\ DOMAIN s \subseteq Path
    BY DEF OnPaths
  <1>2. p \notin DOMAIN Place(d, s)
    BY <1>1, PlaceBelow DEF Apart
  <1>3. QED
    BY <1>2, Spliced, SplicedDomain

(***************************************************************************)
(* Putting a tree into a tree leaves a tree: no file is below another one  *)
(* (engine.rs splice_into, set_path_rec).                                  *)
(***************************************************************************)
LEMMA BelowBoth ==
  ASSUME NEW d \in Path, NEW p \in Path, NEW q \in Path, IsPrefix(d, p), IsPrefix(p, q)
  PROVE  IsPrefix(Below(d, p), Below(d, q))
  <1>1. IsPrefix(d, q) /\ Len(d) <= Len(p) /\ Len(p) <= Len(q)
    BY Prefix, PrefixTransitive
  <1>2. /\ Below(d, p) \in Path /\ Len(Below(d, p)) = Len(p) - Len(d)
        /\ Below(d, q) \in Path /\ Len(Below(d, q)) = Len(q) - Len(d)
    BY <1>1, Split DEF Below, Path
  <1>3. \A i \in 1..(Len(p) - Len(d)) : Below(d, p)[i] = p[Len(d) + i] /\ Below(d, q)[i] = q[Len(d) + i]
    BY <1>1 DEF Below, Path
  <1>4. \A i \in 1..(Len(p) - Len(d)) : p[Len(d) + i] = q[Len(d) + i]
    <2>1. \A j \in 1..Len(p) : p[j] = q[j]
      BY Prefix
    <2>2. QED
      BY <1>1, <2>1 DEF Path
  <1>5. Len(Below(d, p)) <= Len(Below(d, q))
    BY <1>1, <1>2 DEF Path
  <1>6. \A i \in 1..Len(Below(d, p)) : Below(d, p)[i] = Below(d, q)[i]
    BY <1>2, <1>3, <1>4
  <1>7. QED
    BY <1>2, <1>5, <1>6, Prefix

THEOREM SpliceIsTree ==
  ASSUME NEW b, OnPaths(b), IsTree(b), NEW d \in Path, NEW s, OnPaths(s), IsTree(s)
  PROVE  IsTree(SpliceTree(b, d, s))
  <1> SUFFICES ASSUME NEW p \in DOMAIN SpliceTree(b, d, s), NEW q \in DOMAIN SpliceTree(b, d, s),
                      IsPrefix(p, q)
               PROVE  p = q
    BY DEF IsTree
  <1>0. DOMAIN b \subseteq Path /\ DOMAIN s \subseteq Path
    BY DEF OnPaths
  <1>1. p \in Path /\ q \in Path
    BY <1>0, SplicedPaths
  <1>2. CASE p \in DOMAIN Place(d, s) /\ q \in DOMAIN Place(d, s)
    <2>1. Below(d, p) \in DOMAIN s /\ Below(d, q) \in DOMAIN s
          /\ IsPrefix(d, p) /\ IsPrefix(d, q)
      BY <1>0, <1>2, PlaceBelow
    <2>2. IsPrefix(Below(d, p), Below(d, q))
      BY <1>1, <2>1, BelowBoth
    <2>3. Below(d, p) = Below(d, q)
      BY <2>1, <2>2 DEF IsTree
    <2>4. QED
      BY <1>1, <2>1, <2>3, Split
  <1>3. CASE p \in DOMAIN Place(d, s) /\ q \notin DOMAIN Place(d, s)
    <2>1. IsPrefix(d, p) /\ ~IsPrefix(d, q)
      BY <1>0, <1>3, SplicedPaths DEF Apart
    <2>2. QED
      BY <1>1, <2>1, PrefixTransitive
  <1>4. CASE p \notin DOMAIN Place(d, s) /\ q \in DOMAIN Place(d, s)
    <2>1. Apart(d, p) /\ IsPrefix(d, q)
      BY <1>0, <1>4, SplicedPaths DEF Apart
    <2>2. QED
      BY <1>1, <2>1, PrefixesMeet
  <1>5. CASE p \notin DOMAIN Place(d, s) /\ q \notin DOMAIN Place(d, s)
    <2>1. p \in DOMAIN b /\ q \in DOMAIN b
      BY <1>5, SplicedDomain
    <2>2. QED
      BY <2>1 DEF IsTree
  <1>6. QED
    BY <1>2, <1>3, <1>4, <1>5

-----------------------------------------------------------------------------
(* Two directories apart. *)

LEMMA ApartBelow ==
  ASSUME NEW c \in Path, NEW d \in Path, Apart(c, d), NEW p \in Path, IsPrefix(c, p)
  PROVE  Apart(d, p)
  <1>1. ~IsPrefix(d, p)
    BY PrefixesMeet
  <1>2. ~IsPrefix(p, d)
    BY PrefixTransitive DEF Apart
  <1>3. QED
    BY <1>1, <1>2 DEF Apart

LEMMA EntryOnPaths ==
  ASSUME NEW b, DOMAIN b \subseteq Path, NEW d \in Path
  PROVE  OnPaths(EntryAt(b, d))
  <1>1. \A p \in DOMAIN b : IsPrefix(d, p) => Below(d, p) \in Path
    BY Split
  <1>2. QED
    BY <1>1 DEF EntryAt, OnPaths

LEMMA EntryElsewhere ==
  ASSUME NEW b, OnPaths(b), NEW c \in Path, NEW d \in Path, Apart(c, d), NEW s, OnPaths(s)
  PROVE  EntryAt(SpliceTree(b, d, s), c) = EntryAt(b, c)
  <1> DEFINE t == SpliceTree(b, d, s)
             there == {p \in DOMAIN t : IsPrefix(c, p)}
             here == {p \in DOMAIN b : IsPrefix(c, p)}
  <1>0. DOMAIN b \subseteq Path /\ DOMAIN t \subseteq Path
    BY SpliceOnPaths DEF OnPaths
  <1>1. ASSUME NEW p \in Path, IsPrefix(c, p)
        PROVE  /\ p \in DOMAIN t <=> p \in DOMAIN b
               /\ p \in DOMAIN b => t[p] = b[p]
    <2>1. Apart(d, p)
      BY <1>1, ApartBelow
    <2>2. QED
      BY <2>1, SpliceElsewhere
  <1>2. there = here
    BY <1>0, <1>1
  <1>3. EntryAt(t, c) = [q \in {Below(c, p) : p \in there} |-> t[c \o q]]
    BY DEF EntryAt
  <1>4. EntryAt(b, c) = [q \in {Below(c, p) : p \in here} |-> b[c \o q]]
    BY DEF EntryAt
  <1>5. ASSUME NEW q \in {Below(c, p) : p \in here} PROVE t[c \o q] = b[c \o q]
    <2>1. PICK p \in here : q = Below(c, p)
      OBVIOUS
    <2>2. c \o q = p
      BY <1>0, <2>1, Split
    <2>3. QED
      BY <1>0, <1>1, <2>2
  <1> HIDE DEF t, there, here
  <1>6. QED
    BY <1>2, <1>3, <1>4, <1>5 DEF t

LEMMA SplicesCommute ==
  ASSUME NEW b, OnPaths(b), NEW c \in Path, NEW d \in Path, Apart(c, d),
         NEW x, OnPaths(x), NEW y, OnPaths(y)
  PROVE  SpliceTree(SpliceTree(b, d, y), c, x) = SpliceTree(SpliceTree(b, c, x), d, y)
  <1> DEFINE by == SpliceTree(b, d, y)
             bx == SpliceTree(b, c, x)
             one == SpliceTree(by, c, x)
             other == SpliceTree(bx, d, y)
  <1>1. DOMAIN x \subseteq Path /\ DOMAIN y \subseteq Path /\ DOMAIN b \subseteq Path
    BY DEF OnPaths
  <1>2. Apart(d, c)
    BY DEF Apart
  <1>3. ASSUME NEW p \in DOMAIN Place(c, x) PROVE Apart(d, p) /\ p \notin DOMAIN Place(d, y)
    <2>1. p \in Path /\ IsPrefix(c, p)
      BY <1>1, PlaceBelow
    <2>2. Apart(d, p)
      BY <2>1, ApartBelow
    <2>3. QED
      BY <1>1, <2>2, PlaceBelow DEF Apart
  <1>4. ASSUME NEW p \in DOMAIN Place(d, y) PROVE Apart(c, p) /\ p \notin DOMAIN Place(c, x)
    <2>1. p \in Path /\ IsPrefix(d, p)
      BY <1>1, PlaceBelow
    <2>2. Apart(c, p)
      BY <1>2, <2>1, ApartBelow
    <2>3. QED
      BY <1>1, <2>2, PlaceBelow DEF Apart
  <1>5. ASSUME NEW p
        PROVE  /\ (p \in DOMAIN one <=> (\/ p \in DOMAIN Place(c, x)
                                        \/ (p \in DOMAIN Place(d, y) /\ Apart(c, p))
                                        \/ (p \in DOMAIN b /\ Apart(d, p) /\ Apart(c, p))))
               /\ (p \in DOMAIN other <=> (\/ p \in DOMAIN Place(d, y)
                                          \/ (p \in DOMAIN Place(c, x) /\ Apart(d, p))
                                          \/ (p \in DOMAIN b /\ Apart(c, p) /\ Apart(d, p))))
    BY SplicedDomain
  <1>6. ASSUME NEW p PROVE p \in DOMAIN one <=> p \in DOMAIN other
    BY <1>3, <1>4, <1>5
  <1>7. ASSUME NEW p \in DOMAIN one PROVE one[p] = other[p]
    <2>0. p \in DOMAIN other
      BY <1>6
    <2>1. CASE p \in DOMAIN Place(c, x)
      <3>1. p \in DOMAIN bx /\ p \notin DOMAIN Place(d, y)
        BY <1>3, <2>1, SplicedDomain
      <3>2. one[p] = Place(c, x)[p] /\ other[p] = bx[p] /\ bx[p] = Place(c, x)[p]
        BY <2>0, <2>1, <3>1, Spliced
      <3>3. QED
        BY <3>2
    <2>2. CASE p \in DOMAIN Place(d, y)
      <3>1. p \in DOMAIN by /\ p \notin DOMAIN Place(c, x)
        BY <1>4, <2>2, SplicedDomain
      <3>2. other[p] = Place(d, y)[p] /\ one[p] = by[p] /\ by[p] = Place(d, y)[p]
        BY <2>0, <2>2, <3>1, Spliced
      <3>3. QED
        BY <3>2
    <2>3. CASE p \notin DOMAIN Place(c, x) /\ p \notin DOMAIN Place(d, y)
      <3>1. p \in DOMAIN bx /\ p \in DOMAIN by
        BY <1>5, <2>0, <2>3, SplicedDomain
      <3>2. one[p] = by[p] /\ by[p] = b[p] /\ other[p] = bx[p] /\ bx[p] = b[p]
        BY <2>0, <2>3, <3>1, Spliced
      <3>3. QED
        BY <3>2
    <2>4. QED
      BY <2>1, <2>2, <2>3
  <1>8. one = [p \in DOMAIN one |-> one[p]] /\ other = [p \in DOMAIN other |-> other[p]]
    BY SplicedFunction
  <1>9. DOMAIN one = DOMAIN other
    BY <1>6
  <1> HIDE DEF one, other
  <1>10. QED
    BY <1>7, <1>8, <1>9 DEF one, other

LEMMA PreservedOnPaths ==
  ASSUME NEW b, DOMAIN b \subseteq Path, NEW d \in Path, NEW o, OnPaths(o)
  PROVE  OnPaths(PreserveMetadata(b, d, o))
  <1>1. DOMAIN EntryAt(b, d) \subseteq Path /\ DOMAIN o \subseteq Path
    BY EntryOnPaths DEF OnPaths
  <1>2. DOMAIN PreserveMetadata(b, d, o) \subseteq DOMAIN EntryAt(b, d) \cup DOMAIN o
    BY DEF PreserveMetadata, Overlay, Restrict, Metadata
  <1>3. PreserveMetadata(b, d, o)
          = [p \in DOMAIN PreserveMetadata(b, d, o) |-> PreserveMetadata(b, d, o)[p]]
    BY DEF PreserveMetadata, Overlay
  <1>4. QED
    BY <1>1, <1>2, <1>3 DEF OnPaths

(***************************************************************************)
(* Replaying upstream trees into two directories apart, each with the      *)
(* metadata that it finds there, gives one result in either order          *)
(* (engine.rs replay_commit and vendor_snapshot).                          *)
(***************************************************************************)
THEOREM ReplaysCommute ==
  ASSUME NEW b, OnPaths(b), NEW c \in Path, NEW d \in Path, Apart(c, d),
         NEW x, OnPaths(x), NEW y, OnPaths(y)
  PROVE  LET Put(t, e, o) == SpliceTree(t, e, PreserveMetadata(t, e, o))
         IN Put(Put(b, d, y), c, x) = Put(Put(b, c, x), d, y)
  <1> DEFINE py == PreserveMetadata(b, d, y)
             px == PreserveMetadata(b, c, x)
  <1>1. DOMAIN b \subseteq Path
    BY DEF OnPaths
  <1>2. OnPaths(px) /\ OnPaths(py)
    BY <1>1, PreservedOnPaths
  <1>3. PreserveMetadata(SpliceTree(b, d, py), c, x) = px
    <2>1. EntryAt(SpliceTree(b, d, py), c) = EntryAt(b, c)
      BY <1>2, EntryElsewhere
    <2>2. QED
      BY <2>1 DEF PreserveMetadata
  <1>4. PreserveMetadata(SpliceTree(b, c, px), d, y) = py
    <2>1. Apart(d, c)
      BY DEF Apart
    <2>2. EntryAt(SpliceTree(b, c, px), d) = EntryAt(b, d)
      BY <1>2, <2>1, EntryElsewhere
    <2>3. QED
      BY <2>2 DEF PreserveMetadata
  <1>5. SpliceTree(SpliceTree(b, d, py), c, px) = SpliceTree(SpliceTree(b, c, px), d, py)
    BY <1>2, SplicesCommute
  <1>6. QED
    BY <1>3, <1>4, <1>5

-----------------------------------------------------------------------------
(* Package markers there and back. *)

LEMMA Siblings ==
  ASSUME NEW p \in Path, p # <<>>, NEW n \in Name
  PROVE  /\ Sibling(p, n) \in Path /\ Len(Sibling(p, n)) = Len(p)
         /\ Last(Sibling(p, n)) = n /\ Sibling(p, n) # <<>>
         /\ \A i \in 1..(Len(p) - 1) : Sibling(p, n)[i] = p[i]
  <1>0. Len(p) \in Nat /\ Len(p) >= 1
    BY EmptySeq DEF Path
  <1>1. /\ Front(p) \in Path /\ Len(Front(p)) = Len(p) - 1
        /\ \A i \in 1..(Len(p) - 1) : Front(p)[i] = p[i]
    <2>1. \A i \in 1..(Len(p) - 1) : p[i] \in Name
      BY <1>0, ElementOfSeq DEF Path
    <2>2. /\ SubSeq(p, 1, Len(p) - 1) \in Seq(Name)
          /\ Len(SubSeq(p, 1, Len(p) - 1)) = Len(p) - 1
          /\ \A i \in 1..(Len(p) - 1) : SubSeq(p, 1, Len(p) - 1)[i] = p[i]
      <3>1. Len(p) - 1 \in Int /\ Len(p) - 1 - 1 + 1 = Len(p) - 1
        BY <1>0
      <3>2. /\ SubSeq(p, 1, Len(p) - 1) \in Seq(Name)
            /\ Len(SubSeq(p, 1, Len(p) - 1))
                 = IF 1 <= Len(p) - 1 THEN Len(p) - 1 - 1 + 1 ELSE 0
            /\ \A i \in 1..(Len(p) - 1 - 1 + 1) : SubSeq(p, 1, Len(p) - 1)[i] = p[1 + i - 1]
        BY <2>1, <3>1, SubSeqProperties
      <3>3. \A i \in 1..(Len(p) - 1) : 1 + i - 1 = i
        OBVIOUS
      <3>4. QED
        BY <1>0, <3>1, <3>2, <3>3
    <2>3. QED
      BY <2>2 DEF Front, Path
  <1>2. /\ Sibling(p, n) \in Path /\ Len(Sibling(p, n)) = Len(p)
        /\ Sibling(p, n)[Len(p)] = n
        /\ \A i \in 1..(Len(p) - 1) : Sibling(p, n)[i] = p[i]
    <2>1. /\ Sibling(p, n) \in Path /\ Len(Sibling(p, n)) = Len(p) /\ Sibling(p, n)[Len(p)] = n
          /\ \A i \in 1..Len(Front(p)) : Sibling(p, n)[i] = Front(p)[i]
      <3>1. Front(p) \in Seq(Name) /\ Len(Front(p)) + 1 = Len(p)
        BY <1>0, <1>1 DEF Path
      <3>2. /\ Append(Front(p), n) \in Seq(Name)
            /\ Len(Append(Front(p), n)) = Len(Front(p)) + 1
            /\ \A i \in 1..Len(Front(p)) : Append(Front(p), n)[i] = Front(p)[i]
            /\ Append(Front(p), n)[Len(Front(p)) + 1] = n
        BY <3>1, AppendProperties
      <3>3. QED
        BY <3>1, <3>2 DEF Sibling, Path
    <2>2. QED
      BY <1>0, <1>1, <2>1
  <1>3. Sibling(p, n) # <<>>
    BY <1>0, <1>2, EmptySeq DEF Path
  <1>4. Last(Sibling(p, n)) = n
    BY <1>2 DEF Last
  <1>5. QED
    BY <1>2, <1>3, <1>4

LEMMA SiblingsBack ==
  ASSUME NEW p \in Path, p # <<>>, NEW n \in Name, NEW m \in Name, Last(p) = m
  PROVE  Sibling(Sibling(p, n), m) = p
  <1> DEFINE q == Sibling(p, n)
             r == Sibling(q, m)
  <1>1. q \in Path /\ q # <<>> /\ Len(q) = Len(p) /\ \A i \in 1..(Len(p) - 1) : q[i] = p[i]
    BY Siblings
  <1> HIDE DEF q
  <1>2. r \in Path /\ Len(r) = Len(p) /\ Last(r) = m /\ \A i \in 1..(Len(p) - 1) : r[i] = q[i]
    BY <1>1, Siblings
  <1> HIDE DEF r
  <1>3. \A i \in 1..Len(p) : r[i] = p[i]
    <2>1. r[Len(p)] = p[Len(p)]
      BY <1>2 DEF Last
    <2>2. Len(p) \in Nat /\ \A i \in 1..Len(p) : i = Len(p) \/ i \in 1..(Len(p) - 1)
      BY DEF Path
    <2>3. QED
      BY <1>1, <1>2, <2>1, <2>2
  <1>4. r = p
    BY <1>2, <1>3, SeqEqual DEF Path
  <1>5. QED
    BY <1>4 DEF r, q

LEMMA Markers ==
  ASSUME NEW t, OnPaths(t), <<>> \notin DOMAIN t, NEW m \in Marked(t, "SRC")
  PROVE  /\ m \in DOMAIN t /\ m \in Path /\ m # <<>> /\ Last(m) = "SRC"
         /\ Sibling(m, "ORIG_SRC") \in Path /\ Len(Sibling(m, "ORIG_SRC")) = Len(m)
         /\ Last(Sibling(m, "ORIG_SRC")) = "ORIG_SRC"
         /\ \A i \in 1..(Len(m) - 1) : Sibling(m, "ORIG_SRC")[i] = m[i]
         /\ Sibling(Sibling(m, "ORIG_SRC"), "SRC") = m
  <1>1. m \in DOMAIN t /\ m \in Path /\ m # <<>> /\ Last(m) = "SRC"
    BY DEF Marked, OnPaths
  <1>2. "SRC" \in Name /\ "ORIG_SRC" \in Name
    BY TreesAssumption
  <1>3. QED
    BY <1>1, <1>2, Siblings, SiblingsBack

\* Files that are in the way of a renamed marker, or below it.
Lost(t) == {p \in DOMAIN t : \E m \in Marked(t, "SRC") : IsPrefix(Sibling(m, "ORIG_SRC"), p)}

LEMMA Renaming ==
  ASSUME NEW t, OnPaths(t), <<>> \notin DOMAIN t
  PROVE  /\ DOMAIN RenameSrcMarkers(t)
              = {Sibling(m, "ORIG_SRC") : m \in Marked(t, "SRC") \ Lost(t)}
                  \cup (DOMAIN t \ (Marked(t, "SRC") \cup Lost(t)))
         /\ \A m \in Marked(t, "SRC") \ Lost(t) :
              RenameSrcMarkers(t)[Sibling(m, "ORIG_SRC")] = t[m]
         /\ \A p \in DOMAIN t \ (Marked(t, "SRC") \cup Lost(t)) : RenameSrcMarkers(t)[p] = t[p]
  <1> DEFINE renamed == {Sibling(m, "ORIG_SRC") : m \in Marked(t, "SRC") \ Lost(t)}
             kept == DOMAIN t \ (Marked(t, "SRC") \cup Lost(t))
  <1>1. RenameSrcMarkers(t)
          = [p \in renamed \cup kept |-> IF p \in renamed THEN t[Sibling(p, "SRC")] ELSE t[p]]
    BY DEF RenameSrcMarkers, Lost
  <1>2. ASSUME NEW m \in Marked(t, "SRC") \ Lost(t)
        PROVE  RenameSrcMarkers(t)[Sibling(m, "ORIG_SRC")] = t[m]
    <2>1. Sibling(Sibling(m, "ORIG_SRC"), "SRC") = m
      BY <1>2, Markers
    <2>2. Sibling(m, "ORIG_SRC") \in renamed
      BY <1>2
    <2> HIDE DEF renamed, kept
    <2>3. QED
      BY <1>1, <2>1, <2>2
  <1>3. ASSUME NEW p \in kept PROVE RenameSrcMarkers(t)[p] = t[p]
    <2>1. p \notin renamed
      <3>1. SUFFICES ASSUME NEW m \in Marked(t, "SRC"), p = Sibling(m, "ORIG_SRC")
                     PROVE  FALSE
        OBVIOUS
      <3>2. p \in Path
        BY <3>1, Markers
      <3>3. IsPrefix(p, p)
        BY <3>2, Prefix DEF Path
      <3>4. p \in Lost(t)
        BY <1>3, <3>1, <3>3 DEF Lost
      <3>5. QED
        BY <1>3, <3>4
    <2>2. p \in renamed \cup kept
      BY <1>3
    <2> HIDE DEF renamed, kept
    <2>3. QED
      BY <1>1, <2>1, <2>2
  <1>4. DOMAIN RenameSrcMarkers(t) = renamed \cup kept
    <2> HIDE DEF renamed, kept
    <2>1. QED
      BY <1>1
  <1>5. QED
    BY <1>2, <1>3, <1>4

\* A tree as upstream has it, without the name that packages' markers get.
Plain(t) ==
  /\ OnPaths(t) /\ IsTree(t) /\ <<>> \notin DOMAIN t
  /\ \A p \in DOMAIN t : \A i \in 1..Len(p) : p[i] # "ORIG_SRC"

LEMMA NoMarker ==
  ASSUME NEW t, Plain(t), NEW p \in DOMAIN t
  PROVE  p \in Path /\ p # <<>> /\ Last(p) # "ORIG_SRC"
  <1>1. p \in Path /\ p # <<>>
    BY DEF Plain, OnPaths
  <1>2. Len(p) \in 1..Len(p)
    BY <1>1, EmptySeq DEF Path
  <1>3. QED
    BY <1>1, <1>2 DEF Plain, Last

LEMMA NothingLost ==
  ASSUME NEW t, Plain(t)
  PROVE  Lost(t) = {}
  <1> SUFFICES ASSUME NEW m \in Marked(t, "SRC"), NEW p \in DOMAIN t,
                      IsPrefix(Sibling(m, "ORIG_SRC"), p)
               PROVE  FALSE
    BY DEF Lost
  <1>1. m \in Path /\ m # <<>> /\ p \in Path
    BY Markers, NoMarker DEF Plain
  <1>2. Sibling(m, "ORIG_SRC") \in Path /\ Len(Sibling(m, "ORIG_SRC")) = Len(m)
        /\ Last(Sibling(m, "ORIG_SRC")) = "ORIG_SRC"
    BY Markers DEF Plain
  <1>3. Len(m) \in 1..Len(m)
    BY <1>1, EmptySeq DEF Path
  <1>4. Len(m) <= Len(p) /\ p[Len(m)] = Sibling(m, "ORIG_SRC")[Len(m)]
    BY <1>1, <1>2, <1>3, Prefix
  <1>5. Len(m) \in 1..Len(p)
    BY <1>1, <1>3, <1>4 DEF Path
  <1>6. p[Len(m)] = "ORIG_SRC"
    BY <1>2, <1>4 DEF Last
  <1>7. QED
    BY <1>5, <1>6 DEF Plain

LEMMA RenamedDomain ==
  ASSUME NEW t, Plain(t)
  PROVE  DOMAIN RenameSrcMarkers(t)
           = {Sibling(p, "ORIG_SRC") : p \in Marked(t, "SRC")} \cup (DOMAIN t \ Marked(t, "SRC"))
  BY NothingLost, Renaming DEF Plain

LEMMA RenamedValues ==
  ASSUME NEW t, Plain(t)
  PROVE  /\ \A m \in Marked(t, "SRC") : RenameSrcMarkers(t)[Sibling(m, "ORIG_SRC")] = t[m]
         /\ \A p \in DOMAIN t \ Marked(t, "SRC") : RenameSrcMarkers(t)[p] = t[p]
  BY NothingLost, Renaming DEF Plain

\* Of a renamed tree, the markers are the renamed ones, and each has room to go back to.
LEMMA RenamedMarked ==
  ASSUME NEW t, Plain(t)
  PROVE  /\ Marked(RenameSrcMarkers(t), "ORIG_SRC")
              = {Sibling(m, "ORIG_SRC") : m \in Marked(t, "SRC")}
         /\ \A m \in Marked(t, "SRC") : DOMAIN EntryAt(RenameSrcMarkers(t), m) = {}
  <1> DEFINE renamed == {Sibling(m, "ORIG_SRC") : m \in Marked(t, "SRC")}
             r == RenameSrcMarkers(t)
  <1>1. \A p \in renamed : Last(p) = "ORIG_SRC"
    BY Markers DEF Plain
  <1>2. \A p \in DOMAIN t : Last(p) # "ORIG_SRC"
    BY NoMarker
  <1>3. DOMAIN r = renamed \cup (DOMAIN t \ Marked(t, "SRC"))
    BY RenamedDomain
  <1>4. ASSUME NEW m \in Marked(t, "SRC"), NEW p \in DOMAIN r PROVE ~IsPrefix(m, p)
    <2>0. SUFFICES ASSUME IsPrefix(m, p) PROVE FALSE
      OBVIOUS
    <2>1. m \in Path /\ m # <<>> /\ Last(m) = "SRC" /\ m \in DOMAIN t
      BY <1>4, Markers DEF Plain
    <2>2. CASE p \in DOMAIN t \ Marked(t, "SRC")
      BY <1>4, <2>0, <2>1, <2>2 DEF Plain, IsTree
    <2>3. CASE p \in renamed
      <3>1. PICK n \in Marked(t, "SRC") : p = Sibling(n, "ORIG_SRC")
        BY <2>3
      <3>2. n \in Path /\ n # <<>> /\ n \in DOMAIN t
        BY <3>1, Markers DEF Plain
      <3>3. p \in Path /\ Len(p) = Len(n) /\ Last(p) = "ORIG_SRC"
            /\ \A i \in 1..(Len(n) - 1) : p[i] = n[i]
        BY <3>1, Markers DEF Plain
      <3>4. Len(m) <= Len(p) /\ \A i \in 1..Len(m) : m[i] = p[i]
        BY <2>0, <2>1, <3>3, Prefix
      <3>5. CASE Len(m) = Len(p)
        BY <2>1, <3>3, <3>4, <3>5 DEF Last, Path
      <3>6. CASE Len(m) # Len(p)
        <4>1. Len(m) <= Len(n) - 1
          BY <2>1, <3>2, <3>3, <3>4, <3>6 DEF Path
        <4>2. IsPrefix(m, n)
          BY <2>1, <3>2, <3>3, <3>4, <4>1, Prefix DEF Path
        <4>3. m = n
          BY <2>1, <3>2, <4>2 DEF Plain, IsTree
        <4>4. QED
          BY <2>1, <4>1, <4>3 DEF Path
      <3>7. QED
        BY <3>5, <3>6
    <2>4. QED
      BY <1>3, <2>2, <2>3
  <1>5. Marked(r, "ORIG_SRC") = renamed
    BY <1>1, <1>2, <1>3 DEF Marked
  <1>6. \A m \in Marked(t, "SRC") : DOMAIN EntryAt(r, m) = {}
    BY <1>4 DEF EntryAt
  <1>7. QED
    BY <1>5, <1>6

(***************************************************************************)
(* An export gives SRC files back the name an import took from them        *)
(* (engine.rs rename_src_markers and strip_capyfun_metadata_for_export).   *)
(***************************************************************************)
THEOREM MarkersRoundTrip ==
  ASSUME NEW t, Plain(t)
  PROVE  RestoreSrcMarkers(RenameSrcMarkers(t)) = t
  <1> DEFINE r == RenameSrcMarkers(t)
             marked == Marked(t, "SRC")
             renamed == {Sibling(m, "ORIG_SRC") : m \in marked}
             s == RestoreSrcMarkers(r)
  <1>1. \A m \in marked : m \in Path /\ m # <<>> /\ Last(m) = "SRC" /\ m \in DOMAIN t
    BY Markers DEF Plain
  <1>2. \A m \in marked : Sibling(Sibling(m, "ORIG_SRC"), "SRC") = m
    BY Markers DEF Plain
  <1>3. Marked(r, "ORIG_SRC") = renamed /\ DOMAIN r = renamed \cup (DOMAIN t \ marked)
    BY RenamedMarked, RenamedDomain
  <1>4. \A p \in renamed : DOMAIN EntryAt(r, Sibling(p, "SRC")) = {}
    BY <1>2, RenamedMarked
  <1>5. {p \in Marked(r, "ORIG_SRC") : DOMAIN EntryAt(r, Sibling(p, "SRC")) = {}} = renamed
    BY <1>3, <1>4
  <1>6. {Sibling(p, "SRC") : p \in renamed} = marked
    BY <1>2
  <1>7. ASSUME NEW p \in DOMAIN t \ marked PROVE p \notin renamed
    <2>1. Last(p) # "ORIG_SRC"
      BY <1>7, NoMarker
    <2>2. QED
      BY <2>1, Markers DEF Plain
  <1>8. DOMAIN r \ Marked(r, "ORIG_SRC") = DOMAIN t \ marked
    BY <1>3, <1>7
  <1>9. marked \subseteq DOMAIN t
    BY <1>1
  <1>10. s = [p \in marked \cup (DOMAIN t \ marked) |->
                IF p \in DOMAIN t \ marked THEN r[p] ELSE r[Sibling(p, "ORIG_SRC")]]
    <2> HIDE DEF r, renamed, marked
    <2>1. QED
      BY <1>3, <1>5, <1>6, <1>8 DEF RestoreSrcMarkers
  <1>11. DOMAIN s = DOMAIN t
    BY <1>9, <1>10
  <1>12. ASSUME NEW p \in DOMAIN t PROVE s[p] = t[p]
    <2>1. CASE p \in marked
      <3>1. s[p] = r[Sibling(p, "ORIG_SRC")]
        BY <1>10, <2>1
      <3>2. QED
        BY <2>1, <3>1, RenamedValues
    <2>2. CASE p \notin marked
      <3>1. s[p] = r[p]
        BY <1>10, <2>2
      <3>2. QED
        BY <2>2, <3>1, RenamedValues
    <2>3. QED
      BY <2>1, <2>2
  <1>13. s = [p \in DOMAIN s |-> s[p]] /\ t = [p \in DOMAIN t |-> t[p]]
    BY <1>10 DEF Plain, OnPaths
  <1> HIDE DEF s
  <1>14. s = t
    BY <1>11, <1>12, <1>13
  <1>15. QED
    BY <1>14 DEF s

\* An upstream whose root has nothing that CapyFun keeps for itself but a package marker.
Foreign(t) == Plain(t) /\ \A p \in DOMAIN t : p[1] \in Reserved => p = <<"SRC">>

LEMMA RenamedUnreserved ==
  ASSUME NEW t, Foreign(t), NEW p \in DOMAIN RenameSrcMarkers(t)
  PROVE  p[1] \notin Reserved
  <1>1. CASE p \in DOMAIN t \ Marked(t, "SRC")
    <2>1. Last(<<"SRC">>) = "SRC"
      BY DEF Last
    <2>2. p # <<"SRC">>
      BY <1>1, <2>1 DEF Marked
    <2>3. QED
      BY <1>1, <2>2 DEF Foreign
  <1>2. ASSUME NEW m \in Marked(t, "SRC"), p = Sibling(m, "ORIG_SRC")
        PROVE  p[1] \notin Reserved
    <2>1. /\ m \in DOMAIN t /\ m \in Path /\ m # <<>>
          /\ p \in Path /\ Len(p) = Len(m) /\ Last(p) = "ORIG_SRC"
          /\ \A i \in 1..(Len(m) - 1) : p[i] = m[i]
      BY <1>2, Markers DEF Foreign, Plain
    <2>2. Len(m) \in Nat /\ Len(m) >= 1
      BY <2>1, EmptySeq DEF Path
    <2>3. CASE Len(m) = 1
      BY <2>1, <2>3 DEF Last, Reserved
    <2>4. CASE Len(m) # 1
      <3>1. 1 \in 1..(Len(m) - 1) /\ m # <<"SRC">>
        <4>1. Len(<<"SRC">>) = 1
          OBVIOUS
        <4>2. m # <<"SRC">>
          BY <2>4, <4>1
        <4>3. \A n \in Nat : n >= 1 /\ n # 1 => 1 \in 1..(n - 1)
          OBVIOUS
        <4>4. QED
          BY <2>2, <2>4, <4>2, <4>3
      <3>2. p[1] = m[1] /\ m[1] \notin Reserved
        BY <2>1, <3>1 DEF Foreign
      <3>3. QED
        BY <3>2
    <2>5. QED
      BY <2>3, <2>4
  <1>3. DOMAIN RenameSrcMarkers(t)
          = {Sibling(m, "ORIG_SRC") : m \in Marked(t, "SRC")} \cup (DOMAIN t \ Marked(t, "SRC"))
    BY RenamedDomain DEF Foreign
  <1>4. QED
    BY <1>1, <1>2, <1>3

(***************************************************************************)
(* A directory that an upstream was imported into ships as that upstream,  *)
(* whatever package files people keep in it (engine.rs replay_commit and   *)
(* strip_capyfun_metadata_for_export; no transforms).                      *)
(***************************************************************************)
THEOREM ImportShipsBack ==
  ASSUME NEW t, Foreign(t), NEW b, NEW d
  PROVE  LET u == PreserveMetadata(b, d, RenameSrcMarkers(t))
         IN RestoreSrcMarkers(Restrict(u, DOMAIN u \ Metadata(u))) = t
  <1> DEFINE r == RenameSrcMarkers(t)
             existing == EntryAt(b, d)
             names == {p[1] : p \in Metadata(existing)}
             u == PreserveMetadata(b, d, r)
             shipped == Restrict(u, DOMAIN u \ Metadata(u))
  <1>1. \A p \in DOMAIN r : p[1] \notin Reserved
    BY RenamedUnreserved
  <1>2. \A p \in Metadata(existing) : p \in DOMAIN existing /\ p # <<>> /\ p[1] \in Reserved
    BY DEF Metadata
  <1>3. names \subseteq Reserved
    BY <1>2
  <1>4. {p \in DOMAIN r : p[1] \notin names} = DOMAIN r
    BY <1>1, <1>3
  <1>5. /\ DOMAIN u = Metadata(existing) \cup DOMAIN r
        /\ \A p \in DOMAIN r \ Metadata(existing) : u[p] = r[p]
    <2>1. DOMAIN Restrict(existing, Metadata(existing)) = Metadata(existing)
      BY DEF Restrict
    <2>2. /\ DOMAIN Restrict(r, DOMAIN r) = DOMAIN r
          /\ \A p \in DOMAIN r : Restrict(r, DOMAIN r)[p] = r[p]
      BY DEF Restrict
    <2>3. u = Overlay(Restrict(existing, Metadata(existing)), Restrict(r, DOMAIN r))
      BY <1>4 DEF PreserveMetadata
    <2> HIDE DEF r, existing, u
    <2>4. QED
      BY <2>1, <2>2, <2>3 DEF Overlay
  <1>6. DOMAIN u \ Metadata(u) = DOMAIN r
    <2> HIDE DEF r, existing, u
    <2>1. QED
      BY <1>1, <1>2, <1>5 DEF Metadata
  <1>7. \A p \in DOMAIN r : u[p] = r[p]
    BY <1>1, <1>2, <1>5
  <1>8. shipped = [p \in DOMAIN r |-> u[p]]
    BY <1>6 DEF Restrict
  <1>9. r = [p \in DOMAIN r |-> r[p]]
    BY DEF RenameSrcMarkers
  <1>10. shipped = r
    <2> HIDE DEF r, u, shipped
    <2>1. QED
      BY <1>7, <1>8, <1>9
  <1>11. RestoreSrcMarkers(shipped) = t
    BY <1>10, MarkersRoundTrip DEF Foreign
  <1>12. QED
    BY <1>11

-----------------------------------------------------------------------------
(* Finite sets of numbers, and induction up to a number. *)

\* A nonempty set of indices has a largest one.
LEMMA MaxExists ==
  ASSUME NEW n \in Nat, NEW I, I \subseteq 1..n, I # {}
  PROVE  \E m \in I : \A i \in I : i <= m
<1> DEFINE Above(i) == (i + 1)..n
           T == {Above(i) : i \in I}
<1>1. IsWellFoundedOn(StrictSubsetOrdering(1..n), SUBSET (1..n))
  <2>1. IsFiniteSet(1..n)
    BY FS_Interval
  <2> QED  BY <2>1, FS_FiniteSubsetsOfFinite, FS_StrictSubsetOrderingWellFounded
<1>2. \A i \in I : Above(i) \in SUBSET (1..n)
  BY SMT
<1>3. PICK X \in T : \A Y \in T : <<Y, X>> \notin StrictSubsetOrdering(1..n)
  <2>1. T \subseteq SUBSET (1..n) /\ T # {}
    BY <1>2
  <2> HIDE DEF T
  <2> QED  BY <1>1, <2>1, WFMin
<1>4. PICK m \in I : X = Above(m)
  BY <1>3
<1>5. ASSUME NEW j \in I, m < j PROVE FALSE
  <2>1. Above(j) \subseteq Above(m) /\ j \in Above(m) /\ j \notin Above(j)
    BY <1>5, SMT
  <2>2. <<Above(j), X>> \in StrictSubsetOrdering(1..n)
    BY <2>1, <1>2, <1>4 DEF StrictSubsetOrdering
  <2> QED  BY <2>2, <1>3
<1>6. I \subseteq Int
  BY SMT
<1> QED  BY <1>5, <1>6, SMT

\* Induction up to n, for what can be put as membership of a set.
LEMMA StepByStep ==
  ASSUME NEW n \in Nat, NEW G, 0 \in G, \A k \in 0..(n - 1) : k \in G => k + 1 \in G
  PROVE  \A k \in 0..n : k \in G
<1> DEFINE H == {j \in 1..(n + 1) : \A i \in 0..(j - 1) : i \in G}
<1>1. 1 \in H
  OBVIOUS
<1>2. PICK m \in H : \A j \in H : j <= m
  <2>1. H \subseteq 1..(n + 1) /\ n + 1 \in Nat
    OBVIOUS
  <2>2. H # {}
    BY <1>1
  <2> HIDE DEF H
  <2> QED  BY <2>1, <2>2, MaxExists
<1>3. m = n + 1
  <2>1. ASSUME m # n + 1 PROVE FALSE
    <3>1. m \in 1..n /\ m - 1 \in 0..(n - 1) /\ m - 1 \in G
      BY <1>2, <2>1
    <3>2. m \in G
      BY <3>1
    <3>3. m + 1 \in H
      BY <1>2, <3>1, <3>2
    <3> QED  BY <1>2, <3>1, <3>3
  <2> QED  BY <2>1
<1> QED  BY <1>2, <1>3

LEMMA MaxProps ==
  ASSUME NEW n \in Nat, NEW I, I \subseteq 1..n, I # {}
  PROVE  Max(I) \in I /\ \A i \in I : i <= Max(I)
<1>1. PICK m \in I : \A i \in I : i <= m
  BY MaxExists
<1>2. I \subseteq Int
  OBVIOUS
<1>3. \A i \in I : m >= i
  BY <1>1, <1>2
<1>4. Max(I) \in I /\ \A i \in I : Max(I) >= i
  BY <1>3 DEF Max
<1> QED  BY <1>2, <1>4

-----------------------------------------------------------------------------
(* Pipelines and imports go step by step. *)

ApplyAll(T, x) == UNION {Apply(u, x) : u \in T}
Stages(F, base, delta, n) ==
  F[0] = base /\ \A k \in 1..n : F[k] = ApplyAll(F[k - 1], delta[k])

\* A fold over transforms applies them from the first one to the last.
LEMMA FoldTransforms ==
  ASSUME NEW base, NEW delta,  NEW n \in Nat, DOMAIN delta = 1..n
  PROVE  \E F : Stages(F, base, delta, n) /\ FoldLeft(LAMBDA T, x : UNION {Apply(u, x) : u \in T}, base, delta) = F[n]
<1> DEFINE Step(g, s) == IF s = {} THEN base ELSE ApplyAll(g[s \ {Max(s)}], delta[Max(s)])
           Fold(g, k) == g = [s \in SUBSET (1..k) |-> Step(g, s)]
           G == {k \in 0..n : \E g : Fold(g, k)}
<1>1. 0 \in G
  <2> DEFINE g == [s \in SUBSET (1..0) |-> base]
  <2>1. SUBSET (1..0) = {{}}
    OBVIOUS
  <2>2. Fold(g, 0)
    <3>1. \A s \in SUBSET (1..0) : Step(g, s) = base
      BY <2>1
    <3> QED  BY <3>1
  <2> HIDE DEF g, Fold
  <2> QED  BY <2>2
<1>2. ASSUME NEW k \in 0..(n - 1), k \in G PROVE k + 1 \in G
  <2>1. PICK g : Fold(g, k)
    BY <1>2
  <2> DEFINE h == [s \in SUBSET (1..(k + 1)) |->
                    IF s \in SUBSET (1..k) THEN g[s]
                    ELSE ApplyAll(g[s \ {k + 1}], delta[k + 1])]
  <2>2. ASSUME NEW s \in SUBSET (1..(k + 1)) PROVE h[s] = Step(h, s)
    <3>1. CASE s \in SUBSET (1..k)
      <4>1. h[s] = g[s] /\ g[s] = Step(g, s)
        BY <2>1, <3>1
      <4>2. CASE s = {}
        BY <4>1, <4>2
      <4>3. CASE s # {}
        <5> DEFINE x == s \ {Max(s)}
        <5>1. x \in SUBSET (1..k) /\ x \in SUBSET (1..(k + 1))
          BY <3>1
        <5> HIDE DEF x
        <5>2. h[x] = g[x]
          BY <5>1
        <5> HIDE DEF h
        <5> QED  BY <4>1, <4>3, <5>2 DEF x
      <4> QED  BY <4>2, <4>3
    <3>2. CASE s \notin SUBSET (1..k)
      <4>1. k + 1 \in s /\ s # {} /\ k + 1 \in Nat
        BY <3>2
      <4>2. Max(s) = k + 1
        <5>1. Max(s) \in s /\ \A i \in s : i <= Max(s)
          BY <4>1, MaxProps
        <5>2. Max(s) \in 1..(k + 1) /\ k + 1 <= Max(s)
          BY <4>1, <5>1
        <5> QED  BY <5>2
      <4> DEFINE x == s \ {k + 1}
      <4>3. x \in SUBSET (1..k) /\ x \in SUBSET (1..(k + 1))
        OBVIOUS
      <4>4. h[s] = ApplyAll(g[x], delta[k + 1])
        BY <3>2
      <4> HIDE DEF x
      <4>5. h[x] = g[x]
        BY <4>3
      <4> HIDE DEF h
      <4> QED  BY <4>1, <4>2, <4>4, <4>5 DEF x
    <3> QED  BY <3>1, <3>2
  <2>3. Fold(h, k + 1)
    <3>1. h = [s \in SUBSET (1..(k + 1)) |-> h[s]]
      OBVIOUS
    <3> HIDE DEF h
    <3> QED  BY <2>2, <3>1
  <2> HIDE DEF h, Fold
  <2>4. k + 1 \in 0..n
    OBVIOUS
  <2> QED  BY <2>3, <2>4
<1>3. \E g : Fold(g, n)
  <2> HIDE DEF Fold
  <2>1. \A k \in 0..n : k \in G
    <3> HIDE DEF G
    <3> QED  BY <1>1, <1>2, StepByStep
  <2> QED  BY <2>1
<1> DEFINE iter == CHOOSE g : Fold(g, n)
<1>4. Fold(iter, n)
  <2> HIDE DEF Fold
  <2> QED  BY <1>3
<1>5. FoldLeft(LAMBDA T, x : UNION {Apply(u, x) : u \in T}, base, delta) = iter[1..n]
  BY DEF FoldLeft, MapThenFoldSet, ApplyAll
<1> DEFINE F == [k \in 0..n |-> iter[1..k]]
<1> HIDE DEF iter
<1>6. F[0] = base
  <2>1. 1..0 = {} /\ 1..0 \in SUBSET (1..n)
    OBVIOUS
  <2>2. iter[1..0] = Step(iter, 1..0)
    BY <1>4, <2>1
  <2> QED  BY <2>1, <2>2
<1>7. ASSUME NEW k \in 1..n PROVE F[k] = ApplyAll(F[k - 1], delta[k])
  <2>0. k \in Nat /\ k \in 1..k /\ k - 1 \in 0..n /\ k \in 0..n /\ \A i \in 1..k : i \in 1..n
    OBVIOUS
  <2>1. 1..k \in SUBSET (1..n) /\ 1..k # {} /\ k \in 1..k /\ k \in Nat /\ k - 1 \in 0..n
        /\ k \in 0..n
    BY <2>0
  <2>2. Max(1..k) = k
    <3>1. Max(1..k) \in 1..k /\ \A i \in 1..k : i <= Max(1..k)
      BY <2>1, MaxProps
    <3> QED  BY <2>1, <3>1
  <2>3. (1..k) \ {k} = 1..(k - 1)
    OBVIOUS
  <2>4. iter[1..k] = Step(iter, 1..k)
    BY <1>4, <2>1
  <2>5. Step(iter, 1..k) = ApplyAll(iter[1..(k - 1)], delta[k])
    BY <2>1, <2>2, <2>3
  <2>6. F[k] = iter[1..k] /\ F[k - 1] = iter[1..(k - 1)]
    BY <2>1
  <2> QED  BY <2>4, <2>5, <2>6
<1>8. F[n] = iter[1..n]
  OBVIOUS
<1> HIDE DEF F
<1> QED  BY <1>5, <1>6, <1>7, <1>8 DEF Stages

PutAll(d, T, c) == UNION {ReplayTree(b, Dest(d), c, Lowered(d.rule)) : b \in T}
Growth(F, d, base, delta, n) ==
  F[0] = base /\ \A k \in 1..n : F[k] = PutAll(d, F[k - 1], delta[k])

\* A fold over commits replays them from the first one to the last.
LEMMA FoldCommits ==
  ASSUME NEW root, NEW delta, NEW d, NEW n \in Nat, DOMAIN delta = 1..n
  PROVE  \E F : Growth(F, d, {root}, delta, n) /\ Replayed(root, d, delta) = F[n]
<1> DEFINE base == {root}
<1> DEFINE Step(g, s) == IF s = {} THEN base ELSE PutAll(d, g[s \ {Max(s)}], delta[Max(s)])
           Fold(g, k) == g = [s \in SUBSET (1..k) |-> Step(g, s)]
           G == {k \in 0..n : \E g : Fold(g, k)}
<1>1. 0 \in G
  <2> DEFINE g == [s \in SUBSET (1..0) |-> base]
  <2>1. SUBSET (1..0) = {{}}
    OBVIOUS
  <2>2. Fold(g, 0)
    <3>1. \A s \in SUBSET (1..0) : Step(g, s) = base
      BY <2>1
    <3> QED  BY <3>1
  <2> HIDE DEF g, Fold
  <2> QED  BY <2>2
<1>2. ASSUME NEW k \in 0..(n - 1), k \in G PROVE k + 1 \in G
  <2>1. PICK g : Fold(g, k)
    BY <1>2
  <2> DEFINE h == [s \in SUBSET (1..(k + 1)) |->
                    IF s \in SUBSET (1..k) THEN g[s]
                    ELSE PutAll(d, g[s \ {k + 1}], delta[k + 1])]
  <2>2. ASSUME NEW s \in SUBSET (1..(k + 1)) PROVE h[s] = Step(h, s)
    <3>1. CASE s \in SUBSET (1..k)
      <4>1. h[s] = g[s] /\ g[s] = Step(g, s)
        BY <2>1, <3>1
      <4>2. CASE s = {}
        BY <4>1, <4>2
      <4>3. CASE s # {}
        <5> DEFINE x == s \ {Max(s)}
        <5>1. x \in SUBSET (1..k) /\ x \in SUBSET (1..(k + 1))
          BY <3>1
        <5> HIDE DEF x
        <5>2. h[x] = g[x]
          BY <5>1
        <5> HIDE DEF h
        <5> QED  BY <4>1, <4>3, <5>2 DEF x
      <4> QED  BY <4>2, <4>3
    <3>2. CASE s \notin SUBSET (1..k)
      <4>1. k + 1 \in s /\ s # {} /\ k + 1 \in Nat
        BY <3>2
      <4>2. Max(s) = k + 1
        <5>1. Max(s) \in s /\ \A i \in s : i <= Max(s)
          BY <4>1, MaxProps
        <5>2. Max(s) \in 1..(k + 1) /\ k + 1 <= Max(s)
          BY <4>1, <5>1
        <5> QED  BY <5>2
      <4> DEFINE x == s \ {k + 1}
      <4>3. x \in SUBSET (1..k) /\ x \in SUBSET (1..(k + 1))
        OBVIOUS
      <4>4. h[s] = PutAll(d, g[x], delta[k + 1])
        BY <3>2
      <4> HIDE DEF x
      <4>5. h[x] = g[x]
        BY <4>3
      <4> HIDE DEF h
      <4> QED  BY <4>1, <4>2, <4>4, <4>5 DEF x
    <3> QED  BY <3>1, <3>2
  <2>3. Fold(h, k + 1)
    <3>1. h = [s \in SUBSET (1..(k + 1)) |-> h[s]]
      OBVIOUS
    <3> HIDE DEF h
    <3> QED  BY <2>2, <3>1
  <2> HIDE DEF h, Fold
  <2>4. k + 1 \in 0..n
    OBVIOUS
  <2> QED  BY <2>3, <2>4
<1>3. \E g : Fold(g, n)
  <2> HIDE DEF Fold
  <2>1. \A k \in 0..n : k \in G
    <3> HIDE DEF G
    <3> QED  BY <1>1, <1>2, StepByStep
  <2> QED  BY <2>1
<1> DEFINE iter == CHOOSE g : Fold(g, n)
<1>4. Fold(iter, n)
  <2> HIDE DEF Fold
  <2> QED  BY <1>3
<1>5. Replayed(root, d, delta) = iter[1..n]
  BY DEF Replayed, FoldLeft, MapThenFoldSet, PutAll
<1> DEFINE F == [k \in 0..n |-> iter[1..k]]
<1> HIDE DEF iter
<1>6. F[0] = base
  <2>1. 1..0 = {} /\ 1..0 \in SUBSET (1..n)
    OBVIOUS
  <2>2. iter[1..0] = Step(iter, 1..0)
    BY <1>4, <2>1
  <2> QED  BY <2>1, <2>2
<1>7. ASSUME NEW k \in 1..n PROVE F[k] = PutAll(d, F[k - 1], delta[k])
  <2>0. k \in Nat /\ k \in 1..k /\ k - 1 \in 0..n /\ k \in 0..n /\ \A i \in 1..k : i \in 1..n
    OBVIOUS
  <2>1. 1..k \in SUBSET (1..n) /\ 1..k # {} /\ k \in 1..k /\ k \in Nat /\ k - 1 \in 0..n
        /\ k \in 0..n
    BY <2>0
  <2>2. Max(1..k) = k
    <3>1. Max(1..k) \in 1..k /\ \A i \in 1..k : i <= Max(1..k)
      BY <2>1, MaxProps
    <3> QED  BY <2>1, <3>1
  <2>3. (1..k) \ {k} = 1..(k - 1)
    OBVIOUS
  <2>4. iter[1..k] = Step(iter, 1..k)
    BY <1>4, <2>1
  <2>5. Step(iter, 1..k) = PutAll(d, iter[1..(k - 1)], delta[k])
    BY <2>1, <2>2, <2>3
  <2>6. F[k] = iter[1..k] /\ F[k - 1] = iter[1..(k - 1)]
    BY <2>1
  <2> QED  BY <2>4, <2>5, <2>6
<1>8. F[n] = iter[1..n]
  OBVIOUS
<1> HIDE DEF F
<1> QED  BY <1>5, <1>6, <1>7, <1>8 DEF Growth

-----------------------------------------------------------------------------
(* Trees that the program reads and writes stay such. *)

Contents(t) == \A p \in DOMAIN t : IsContent(t[p])

LEMMA EntryValues ==
  ASSUME NEW t, DOMAIN t \subseteq Path, NEW d \in Path, NEW q \in DOMAIN EntryAt(t, d)
  PROVE  q \in Path /\ d \o q \in DOMAIN t /\ EntryAt(t, d)[q] = t[d \o q]
  <1>1. PICK p \in DOMAIN t : IsPrefix(d, p) /\ q = Below(d, p)
    BY DEF EntryAt
  <1>2. q \in Path /\ d \o q = p
    BY <1>1, Split
  <1>3. QED
    BY <1>1, <1>2 DEF EntryAt

LEMMA EntryDomain ==
  ASSUME NEW t, DOMAIN t \subseteq Path, NEW d \in Path, NEW q \in Path
  PROVE  q \in DOMAIN EntryAt(t, d) <=> d \o q \in DOMAIN t
  <1>1. q \in DOMAIN EntryAt(t, d) => d \o q \in DOMAIN t
    BY EntryValues
  <1>2. ASSUME d \o q \in DOMAIN t PROVE q \in DOMAIN EntryAt(t, d)
    <2>1. IsPrefix(d, d \o q) /\ Below(d, d \o q) = q
      BY Joined
    <2>2. QED
      BY <1>2, <2>1 DEF EntryAt
  <1>3. QED
    BY <1>1, <1>2

LEMMA JoinedPrefix ==
  ASSUME NEW d \in Path, NEW p \in Path, NEW q \in Path, IsPrefix(p, q)
  PROVE  IsPrefix(d \o p, d \o q)
  <1>1. /\ d \o p \in Path /\ Len(d \o p) = Len(d) + Len(p)
        /\ d \o q \in Path /\ Len(d \o q) = Len(d) + Len(q)
    BY DEF Path
  <1>2. Len(p) <= Len(q) /\ \A i \in 1..Len(p) : p[i] = q[i]
    BY Prefix
  <1>3. \A i \in 1..Len(d \o p) : (d \o p)[i] = (d \o q)[i]
    BY <1>1, <1>2 DEF Path
  <1>4. Len(d \o p) <= Len(d \o q)
    BY <1>1, <1>2 DEF Path
  <1>5. QED
    BY <1>1, <1>3, <1>4, Prefix

LEMMA EntrySound ==
  ASSUME NEW t, OnPaths(t), IsTree(t), Contents(t), NEW d \in Path
  PROVE  OnPaths(EntryAt(t, d)) /\ IsTree(EntryAt(t, d)) /\ Contents(EntryAt(t, d))
  <1>0. DOMAIN t \subseteq Path
    BY DEF OnPaths
  <1>1. OnPaths(EntryAt(t, d))
    BY <1>0, EntryOnPaths
  <1>2. ASSUME NEW p \in DOMAIN EntryAt(t, d), NEW q \in DOMAIN EntryAt(t, d), IsPrefix(p, q)
        PROVE  p = q
    <2>1. p \in Path /\ q \in Path /\ d \o p \in DOMAIN t /\ d \o q \in DOMAIN t
      BY <1>0, EntryValues
    <2>2. d \o p = d \o q
      BY <1>2, <2>1, JoinedPrefix DEF IsTree
    <2>3. Below(d, d \o p) = p /\ Below(d, d \o q) = q
      BY <2>1, Joined
    <2>4. QED
      BY <2>2, <2>3
  <1>3. Contents(EntryAt(t, d))
    BY <1>0, EntryValues DEF Contents
  <1>4. QED
    BY <1>1, <1>2, <1>3 DEF IsTree

LEMMA NothingSound ==
  OnPaths(Nothing) /\ IsTree(Nothing) /\ Contents(Nothing) /\ DOMAIN Nothing = {}
  BY DEF Nothing, OnPaths, IsTree, Contents

LEMMA SpliceContents ==
  ASSUME NEW b, OnPaths(b), Contents(b), NEW d \in Path, NEW s, OnPaths(s), Contents(s)
  PROVE  Contents(SpliceTree(b, d, s))
  <1> SUFFICES ASSUME NEW p \in DOMAIN SpliceTree(b, d, s)
               PROVE  IsContent(SpliceTree(b, d, s)[p])
    BY DEF Contents
  <1>0. DOMAIN b \subseteq Path /\ DOMAIN s \subseteq Path
    BY DEF OnPaths
  <1>1. CASE p \in DOMAIN Place(d, s)
    <2>1. SpliceTree(b, d, s)[p] = s[Below(d, p)] /\ Below(d, p) \in DOMAIN s
      BY <1>0, <1>1, Spliced, PlaceBelow
    <2>2. QED
      BY <2>1 DEF Contents
  <1>2. CASE p \notin DOMAIN Place(d, s)
    <2>1. p \in DOMAIN b /\ SpliceTree(b, d, s)[p] = b[p]
      BY <1>2, SplicedDomain, Spliced
    <2>2. QED
      BY <2>1 DEF Contents
  <1>3. QED
    BY <1>1, <1>2

LEMMA EmptyPrefix ==
  ASSUME NEW d \in Path, IsPrefix(d, <<>>)
  PROVE  d = <<>>
  <1>1. <<>> \in Path /\ Len(<<>>) = 0
    BY DEF Path
  <1>2. ASSUME NEW e \in Path, IsPrefix(d, e) PROVE Len(d) <= Len(e)
    BY <1>2, Prefix
  <1>3. Len(d) <= Len(<<>>)
    BY <1>1, <1>2
  <1>4. Len(d) = 0
    BY <1>1, <1>3 DEF Path
  <1>5. QED
    BY <1>4, EmptySeq DEF Path

LEMMA SpliceSound ==
  ASSUME NEW b, Sound(b), NEW d \in Path, d # <<>>,
         NEW s, OnPaths(s), IsTree(s), Contents(s)
  PROVE  Sound(SpliceTree(b, d, s))
  <1>1. OnPaths(b) /\ IsTree(b) /\ Contents(b) /\ <<>> \notin DOMAIN b
    BY DEF Sound, Contents
  <1>2. OnPaths(SpliceTree(b, d, s)) /\ IsTree(SpliceTree(b, d, s)) /\ Contents(SpliceTree(b, d, s))
    BY <1>1, SpliceOnPaths, SpliceIsTree, SpliceContents
  <1>3. <<>> \notin DOMAIN SpliceTree(b, d, s)
    <2>1. DOMAIN s \subseteq Path
      BY DEF OnPaths
    <2>2. <<>> \notin DOMAIN Place(d, s)
      BY <2>1, PlaceBelow, EmptyPrefix
    <2>3. QED
      BY <1>1, <2>2, SplicedDomain
  <1>4. QED
    BY <1>2, <1>3 DEF Sound, Contents

LEMMA MoveOrCopySound ==
  ASSUME NEW t, Sound(t), NEW x, {x.src, x.dst} \subseteq Path \ {<<>>},
         NEW u \in MoveOrCopy(t, x)
  PROVE  Sound(u)
  <1> DEFINE there == SpliceTree(t, x.dst, EntryAt(t, x.src))
  <1>1. OnPaths(t) /\ IsTree(t) /\ Contents(t)
    BY DEF Sound, Contents
  <1>2. Sound(there)
    <2>1. /\ OnPaths(EntryAt(t, x.src)) /\ IsTree(EntryAt(t, x.src))
          /\ Contents(EntryAt(t, x.src))
      BY <1>1, EntrySound
    <2>2. QED
      BY <2>1, SpliceSound
  <1> HIDE DEF there
  <1>3. Sound(SpliceTree(there, x.src, Nothing))
    BY <1>2, NothingSound, SpliceSound
  <1>4. u = there \/ u = SpliceTree(there, x.src, Nothing)
    BY DEF MoveOrCopy, SetPath, there
  <1>5. QED
    BY <1>2, <1>3, <1>4

LEMMA ReplaceSound ==
  ASSUME NEW t, Sound(t), NEW x, NEW u \in Replace(t, x)
  PROVE  Sound(u) /\ DOMAIN u = DOMAIN t
  <1>1. u = [p \in DOMAIN t |-> IF \E g \in x.paths : <<g, p>> \in Glob
                                THEN [t[p] EXCEPT !.text = Replaced(@, x)] ELSE t[p]]
    BY DEF Replace
  <1>2. DOMAIN u = DOMAIN t
    BY <1>1
  <1>3. ASSUME NEW p \in DOMAIN u PROVE IsContent(u[p])
    <2>1. IsContent(t[p])
      BY <1>2, <1>3 DEF Sound
    <2>2. CASE u[p] = t[p]
      BY <2>1, <2>2
    <2>3. CASE u[p] # t[p]
      <3>1. u[p] = [t[p] EXCEPT !.text = Replaced(@, x)]
        BY <1>1, <1>2, <1>3, <2>3
      <3>2. t[p] = [text |-> t[p].text, rules |-> t[p].rules]
        BY <2>1 DEF IsContent
      <3>3. u[p] = [text |-> Replaced(t[p].text, x), rules |-> t[p].rules]
        BY <3>1, <3>2
      <3>4. u[p].text = Replaced(t[p].text, x) /\ u[p].rules = t[p].rules
        BY <3>3
      <3>5. QED
        BY <2>1, <3>3, <3>4 DEF IsContent
    <2>4. QED
      BY <2>2, <2>3
  <1>4. OnPaths(u)
    <2>1. u = [p \in DOMAIN u |-> u[p]]
      BY <1>1
    <2>2. QED
      BY <1>2, <2>1 DEF Sound, OnPaths
  <1>5. QED
    BY <1>2, <1>3, <1>4 DEF Sound, IsTree

\* A pipeline whose transforms have paths, and one that moves nothing to the name SRC.
Piped(x) == x.kind \in {"move", "copy"} => {x.src, x.dst} \subseteq Path \ {<<>>}
Hiding(x) == x.kind \in {"move", "copy"} => Last(x.dst) # "SRC"
Pipe(xs) == Len(xs) \in Nat /\ DOMAIN xs = 1..Len(xs) /\ \A i \in 1..Len(xs) : Piped(xs[i])
Unmarked(t) == \A p \in DOMAIN t : Last(p) # "SRC"

LEMMA LastJoined ==
  ASSUME NEW d \in Path, NEW q \in Path, q # <<>>
  PROVE  Last(d \o q) = Last(q)
  <1>1. Len(q) \in Nat /\ Len(q) >= 1
    BY EmptySeq DEF Path
  <1>2. Len(d \o q) = Len(d) + Len(q) /\ (d \o q)[Len(d) + Len(q)] = q[Len(q)]
    BY <1>1 DEF Path
  <1>3. QED
    BY <1>2 DEF Last

LEMMA JoinedEmpty ==
  ASSUME NEW d \in Path
  PROVE  d \o <<>> = d
  <1>1. d \o <<>> \in Path /\ Len(d \o <<>>) = Len(d)
    BY DEF Path
  <1>2. \A i \in 1..Len(d) : (d \o <<>>)[i] = d[i]
    BY DEF Path
  <1>3. QED
    BY <1>1, <1>2, SeqEqual DEF Path

LEMMA SpliceUnmarked ==
  ASSUME NEW t, OnPaths(t), Unmarked(t), NEW src \in Path, NEW dst \in Path, Last(dst) # "SRC"
  PROVE  Unmarked(SpliceTree(t, dst, EntryAt(t, src)))
  <1> DEFINE e == EntryAt(t, src)
  <1> SUFFICES ASSUME NEW p \in DOMAIN SpliceTree(t, dst, e)
               PROVE  Last(p) # "SRC"
    BY DEF Unmarked
  <1>0. DOMAIN t \subseteq Path /\ DOMAIN e \subseteq Path
    BY EntryOnPaths DEF OnPaths
  <1>1. CASE p \in DOMAIN Place(dst, e)
    <2> DEFINE q == Below(dst, p)
    <2>1. p \in Path /\ IsPrefix(dst, p) /\ q \in DOMAIN e
      BY <1>0, <1>1, PlaceBelow
    <2>2. q \in Path /\ dst \o q = p
      BY <2>1, Split
    <2> HIDE DEF q
    <2>3. src \o q \in DOMAIN t
      BY <1>0, <2>1, EntryValues
    <2>4. CASE q = <<>>
      BY <2>2, <2>4, JoinedEmpty
    <2>5. CASE q # <<>>
      <3>1. Last(p) = Last(q) /\ Last(src \o q) = Last(q)
        BY <2>2, <2>5, LastJoined
      <3>2. QED
        BY <2>3, <3>1 DEF Unmarked
    <2>6. QED
      BY <2>4, <2>5
  <1>2. CASE p \notin DOMAIN Place(dst, e)
    <2>1. p \in DOMAIN t
      BY <1>2, SplicedDomain
    <2>2. QED
      BY <2>1 DEF Unmarked
  <1>3. QED
    BY <1>1, <1>2

LEMMA RemoveUnmarked ==
  ASSUME NEW t, Unmarked(t), NEW d \in Path
  PROVE  Unmarked(SpliceTree(t, d, Nothing))
  <1>1. \A p \in DOMAIN SpliceTree(t, d, Nothing) : p \in DOMAIN t
    <2>1. DOMAIN Nothing \subseteq Path /\ DOMAIN Nothing = {}
      BY NothingSound
    <2>2. \A p : p \notin DOMAIN Place(d, Nothing)
      BY <2>1, PlaceBelow
    <2>3. QED
      BY <2>2, SplicedDomain
  <1>2. QED
    BY <1>1 DEF Unmarked

(***************************************************************************)
(* A transform has one result at most, which is a tree again; only a move  *)
(* or copy to that name makes a file SRC (engine.rs                        *)
(* apply_structural_tree_transforms).                                      *)
(***************************************************************************)
LEMMA ApplySound ==
  ASSUME NEW t, Sound(t), NEW x, Piped(x), NEW u \in Apply(t, x)
  PROVE  /\ Sound(u)
         /\ \A v \in Apply(t, x) : v = u
         /\ Hiding(x) /\ Unmarked(t) => Unmarked(u)
  <1>1. CASE x.kind \in {"move", "copy"}
    <2> DEFINE e == EntryAt(t, x.src)
               there == SpliceTree(t, x.dst, e)
    <2>1. Apply(t, x) = MoveOrCopy(t, x)
      BY <1>1 DEF Apply
    <2>2. x.src \in Path /\ x.dst \in Path /\ Sound(u)
      BY <1>1, <2>1, MoveOrCopySound DEF Piped
    <2>3. /\ u = there \/ u = SpliceTree(there, x.src, Nothing)
          /\ \A v \in Apply(t, x) : v = u
      BY <2>1 DEF MoveOrCopy, SetPath
    <2>4. Hiding(x) /\ Unmarked(t) => Unmarked(there)
      BY <1>1, <2>2, SpliceUnmarked DEF Hiding, Sound
    <2> HIDE DEF there
    <2>5. Unmarked(there) => Unmarked(u)
      BY <2>2, <2>3, RemoveUnmarked
    <2>6. QED
      BY <2>2, <2>3, <2>4, <2>5
  <1>2. CASE x.kind = "replace"
    <2>1. Apply(t, x) = Replace(t, x)
      BY <1>2 DEF Apply
    <2>2. Sound(u) /\ DOMAIN u = DOMAIN t
      BY <2>1, ReplaceSound
    <2>3. \A v \in Apply(t, x) : v = u
      BY <2>1 DEF Replace
    <2>4. QED
      BY <2>2, <2>3 DEF Unmarked
  <1>3. CASE x.kind \notin {"move", "copy", "replace"}
    BY <1>3 DEF Apply
  <1>4. QED
    BY <1>1, <1>2, <1>3

(***************************************************************************)
(* So it is with a pipeline.                                               *)
(***************************************************************************)
LEMMA PipelineSound ==
  ASSUME NEW t, Sound(t), NEW xs, Pipe(xs), NEW u \in ApplyStructural(t, xs)
  PROVE  /\ Sound(u)
         /\ \A v \in ApplyStructural(t, xs) : v = u
         /\ (\A i \in 1..Len(xs) : Hiding(xs[i])) /\ Unmarked(t) => Unmarked(u)
  <1> DEFINE n == Len(xs)
  <1>1. n \in Nat /\ DOMAIN xs = 1..n
    BY DEF Pipe
  <1>2. PICK F : Stages(F, {t}, xs, n) /\ ApplyStructural(t, xs) = F[n]
    <2>1. \E F : /\ Stages(F, {t}, xs, n)
                 /\ FoldLeft(LAMBDA T, x : UNION {Apply(v, x) : v \in T}, {t}, xs) = F[n]
      BY <1>1, FoldTransforms
    <2>2. QED
      BY <2>1 DEF ApplyStructural
  <1> DEFINE Hid == (\A i \in 1..n : Hiding(xs[i])) /\ Unmarked(t)
             One(T) == \A v \in T : Sound(v) /\ (Hid => Unmarked(v)) /\ \A w \in T : w = v
             G == {k \in 0..n : One(F[k])}
  <1>3. 0 \in G
    BY <1>1, <1>2 DEF Stages
  <1>4. ASSUME NEW k \in 0..(n - 1), k \in G PROVE k + 1 \in G
    <2>1. k + 1 \in 1..n /\ k + 1 \in 0..n /\ (k + 1) - 1 = k
      BY <1>1
    <2>2. F[k + 1] = UNION {Apply(v, xs[k + 1]) : v \in F[k]}
      BY <1>2, <2>1 DEF Stages, ApplyAll
    <2>3. One(F[k])
      BY <1>4
    <2>4. Piped(xs[k + 1]) /\ (Hid => Hiding(xs[k + 1]))
      BY <2>1 DEF Pipe
    <2>5. ASSUME NEW v \in F[k + 1]
          PROVE  Sound(v) /\ (Hid => Unmarked(v)) /\ \A w \in F[k + 1] : w = v
      <3>1. PICK y \in F[k] : v \in Apply(y, xs[k + 1])
        BY <2>2, <2>5
      <3>2. F[k + 1] = Apply(y, xs[k + 1])
        BY <2>2, <2>3, <3>1
      <3>3. Sound(y) /\ (Hid => Unmarked(y))
        BY <2>3, <3>1
      <3> HIDE DEF Hid
      <3>4. QED
        BY <2>4, <3>1, <3>2, <3>3, ApplySound
    <2> HIDE DEF Hid
    <2>6. QED
      BY <2>1, <2>5
  <1>5. \A k \in 0..n : k \in G
    <2> HIDE DEF G, n
    <2>1. QED
      BY <1>1, <1>3, <1>4, StepByStep
  <1>6. One(F[n])
    BY <1>1, <1>5
  <1>7. QED
    BY <1>2, <1>6

\* What stands below or in the way of a renamed marker is lost with its own markers.
LEMMA RenamedSound ==
  ASSUME NEW t, Sound(t)
  PROVE  Sound(RenameSrcMarkers(t)) /\ Unmarked(RenameSrcMarkers(t))
  <1> DEFINE r == RenameSrcMarkers(t)
             marks == Marked(t, "SRC")
             renamed == {Sibling(m, "ORIG_SRC") : m \in marks \ Lost(t)}
             kept == DOMAIN t \ (marks \cup Lost(t))
  <1>0. OnPaths(t) /\ IsTree(t) /\ <<>> \notin DOMAIN t /\ DOMAIN t \subseteq Path
    BY DEF Sound, OnPaths
  <1>1. /\ DOMAIN r = renamed \cup kept
        /\ \A m \in marks \ Lost(t) : r[Sibling(m, "ORIG_SRC")] = t[m]
        /\ \A p \in kept : r[p] = t[p]
    BY <1>0, Renaming
  <1>2. \A m \in marks :
          /\ m \in DOMAIN t /\ m \in Path /\ m # <<>> /\ Last(m) = "SRC"
          /\ Sibling(m, "ORIG_SRC") \in Path /\ Len(Sibling(m, "ORIG_SRC")) = Len(m)
          /\ Last(Sibling(m, "ORIG_SRC")) = "ORIG_SRC"
          /\ \A i \in 1..(Len(m) - 1) : Sibling(m, "ORIG_SRC")[i] = m[i]
    BY <1>0, Markers
  <1>3. \A p \in DOMAIN r : p \in Path /\ p # <<>> /\ Last(p) # "SRC"
    <2>1. ASSUME NEW p \in renamed PROVE p \in Path /\ p # <<>> /\ Last(p) # "SRC"
      <3>1. PICK m \in marks : p = Sibling(m, "ORIG_SRC")
        BY <2>1
      <3>2. p \in Path /\ Len(p) = Len(m) /\ Last(p) = "ORIG_SRC" /\ m \in Path /\ m # <<>>
        BY <1>2, <3>1
      <3>3. QED
        BY <3>2, EmptySeq DEF Path
    <2>2. ASSUME NEW p \in kept PROVE p \in Path /\ p # <<>> /\ Last(p) # "SRC"
      BY <1>0, <2>2 DEF Marked
    <2>3. QED
      BY <1>1, <2>1, <2>2
  <1>4. \A p \in DOMAIN r : IsContent(r[p])
    <2>1. ASSUME NEW p \in renamed PROVE IsContent(r[p])
      <3>1. PICK m \in marks \ Lost(t) : p = Sibling(m, "ORIG_SRC")
        BY <2>1
      <3>2. r[p] = t[m] /\ m \in DOMAIN t
        BY <1>1, <1>2, <3>1
      <3>3. QED
        BY <3>2 DEF Sound
    <2>2. ASSUME NEW p \in kept PROVE IsContent(r[p])
      BY <1>1, <2>2 DEF Sound
    <2>3. QED
      BY <1>1, <2>1, <2>2
  \* A path in the way of a renamed marker is in the way of the marker.
  <1>5. ASSUME NEW p \in Path, NEW m \in marks, IsPrefix(p, Sibling(m, "ORIG_SRC")),
               p # Sibling(m, "ORIG_SRC")
        PROVE  IsPrefix(p, m)
    <2> DEFINE s == Sibling(m, "ORIG_SRC")
    <2>1. /\ s \in Path /\ m \in Path /\ Len(s) = Len(m) /\ Len(m) \in Nat
          /\ \A i \in 1..(Len(m) - 1) : s[i] = m[i]
      BY <1>2 DEF Path
    <2> HIDE DEF s
    <2>2. Len(p) <= Len(s) /\ (\A i \in 1..Len(p) : p[i] = s[i]) /\ Len(p) \in Nat
      BY <1>5, <2>1, Prefix DEF s, Path
    <2>3. Len(p) # Len(s)
      BY <1>5, <2>1, <2>2, SeqEqual DEF s, Path
    <2>4. Len(p) <= Len(m) /\ \A i \in 1..Len(p) : p[i] = m[i]
      BY <2>1, <2>2, <2>3
    <2>5. QED
      BY <2>1, <2>4, Prefix
  <1>6. ASSUME NEW p \in DOMAIN r, NEW q \in DOMAIN r, IsPrefix(p, q) PROVE p = q
    <2>0. p \in Path
      BY <1>3
    <2>1. CASE p \in kept /\ q \in kept
      BY <1>0, <1>6, <2>1 DEF IsTree
    <2>2. CASE p \in renamed /\ q \in kept
      <3>1. PICK m \in marks : p = Sibling(m, "ORIG_SRC")
        BY <2>2
      <3>2. QED
        BY <1>6, <2>2, <3>1 DEF Lost
    <2>3. CASE p \in kept /\ q \in renamed
      <3>1. PICK m \in marks : q = Sibling(m, "ORIG_SRC")
        BY <2>3
      <3>2. SUFFICES ASSUME p # q PROVE FALSE
        OBVIOUS
      <3>3. IsPrefix(p, m)
        BY <1>5, <1>6, <2>0, <3>1, <3>2
      <3>4. p = m
        BY <1>0, <1>2, <2>3, <3>3 DEF IsTree
      <3>5. QED
        BY <2>3, <3>4
    <2>4. CASE p \in renamed /\ q \in renamed
      <3>1. PICK m \in marks : p = Sibling(m, "ORIG_SRC")
        BY <2>4
      <3>2. PICK n \in marks \ Lost(t) : q = Sibling(n, "ORIG_SRC")
        BY <2>4
      <3>3. SUFFICES ASSUME p # q PROVE FALSE
        OBVIOUS
      <3>4. IsPrefix(p, n)
        BY <1>5, <1>6, <2>0, <3>2, <3>3
      <3>5. n \in Lost(t)
        BY <1>2, <3>1, <3>2, <3>4 DEF Lost
      <3>6. QED
        BY <3>2, <3>5
    <2>5. QED
      BY <1>1, <2>1, <2>2, <2>3, <2>4
  <1>7. r = [p \in DOMAIN r |-> r[p]]
    BY DEF RenameSrcMarkers
  <1> HIDE DEF r, renamed, kept
  <1>8. Sound(r) /\ Unmarked(r)
    BY <1>3, <1>4, <1>6, <1>7 DEF Sound, OnPaths, IsTree, Unmarked
  <1>9. QED
    BY <1>8 DEF r

(***************************************************************************)
(* An upstream tree arrives as one tree or not at all, and without a file  *)
(* SRC unless a transform makes one (engine.rs replay_commit).             *)
(***************************************************************************)
LEMMA ImportedSound ==
  ASSUME NEW c, Sound(c), NEW xs, Pipe(xs), NEW o \in Imported(c, xs)
  PROVE  /\ Sound(o)
         /\ \A v \in Imported(c, xs) : v = o
         /\ (\A i \in 1..Len(xs) : Hiding(xs[i])) => Unmarked(o)
  <1>1. Sound(RenameSrcMarkers(c)) /\ Unmarked(RenameSrcMarkers(c))
    BY RenamedSound
  <1>2. o \in ApplyStructural(RenameSrcMarkers(c), xs)
    BY DEF Imported
  <1> DEFINE r == RenameSrcMarkers(c)
  <1> HIDE DEF r
  <1>3. /\ Sound(o)
        /\ \A v \in ApplyStructural(r, xs) : v = o
        /\ (\A i \in 1..Len(xs) : Hiding(xs[i])) => Unmarked(o)
    BY <1>1, <1>2, PipelineSound DEF r
  <1>4. QED
    BY <1>3 DEF Imported, r

LEMMA NoPipe == Pipe(<<>>)
  BY DEF Pipe

-----------------------------------------------------------------------------
(* One commit put into a directory. *)

Put(t, e, o) == SpliceTree(t, e, PreserveMetadata(t, e, o))

\* People's reserved entries, and beside them what arrives under other names.
Beside(o, e) == {p \in DOMAIN o : \A q \in Metadata(e) : p[1] # q[1]}

LEMMA PreservedDomain ==
  ASSUME NEW b, NEW d, NEW o
  PROVE  DOMAIN PreserveMetadata(b, d, o)
           = Metadata(EntryAt(b, d)) \cup Beside(o, EntryAt(b, d))
  <1> DEFINE e == EntryAt(b, d)
             names == {p[1] : p \in Metadata(e)}
             others == {p \in DOMAIN o : p[1] \notin names}
  <1>1. PreserveMetadata(b, d, o) = Overlay(Restrict(e, Metadata(e)), Restrict(o, others))
    BY DEF PreserveMetadata
  <1>2. DOMAIN Restrict(e, Metadata(e)) = Metadata(e) /\ DOMAIN Restrict(o, others) = others
    BY DEF Restrict
  <1>3. others = Beside(o, e)
    BY DEF Beside
  <1> HIDE DEF e, others
  <1>4. QED
    BY <1>1, <1>2, <1>3 DEF Overlay, e

LEMMA PreservedValues ==
  ASSUME NEW b, NEW d, NEW o, NEW p \in DOMAIN PreserveMetadata(b, d, o)
  PROVE  /\ p \in Metadata(EntryAt(b, d)) => PreserveMetadata(b, d, o)[p] = EntryAt(b, d)[p]
         /\ p \notin Metadata(EntryAt(b, d)) => PreserveMetadata(b, d, o)[p] = o[p]
  <1> DEFINE e == EntryAt(b, d)
             names == {q[1] : q \in Metadata(e)}
             others == {q \in DOMAIN o : q[1] \notin names}
             m == PreserveMetadata(b, d, o)
  <1>1. m = Overlay(Restrict(e, Metadata(e)), Restrict(o, others))
    BY DEF PreserveMetadata
  <1>2. /\ DOMAIN Restrict(e, Metadata(e)) = Metadata(e)
        /\ \A q \in Metadata(e) : Restrict(e, Metadata(e))[q] = e[q]
        /\ DOMAIN Restrict(o, others) = others
        /\ \A q \in others : Restrict(o, others)[q] = o[q]
    BY DEF Restrict
  <1> HIDE DEF e, others, m
  <1>3. /\ p \in Metadata(e) => m[p] = e[p]
        /\ p \notin Metadata(e) => m[p] = o[p]
    BY <1>1, <1>2 DEF Overlay, m
  <1>4. QED
    BY <1>3 DEF e, m

LEMMA PreservedSound ==
  ASSUME NEW b, Sound(b), NEW d \in Path, NEW o, Sound(o)
  PROVE  Sound(PreserveMetadata(b, d, o))
  <1> DEFINE e == EntryAt(b, d)
             m == PreserveMetadata(b, d, o)
  <1>0. DOMAIN b \subseteq Path /\ OnPaths(b) /\ IsTree(b) /\ Contents(b)
        /\ OnPaths(o) /\ DOMAIN o \subseteq Path /\ IsTree(o) /\ Contents(o)
        /\ <<>> \notin DOMAIN o
    BY DEF Sound, OnPaths, Contents
  <1>1. /\ DOMAIN m = Metadata(e) \cup Beside(o, e)
        /\ \A p \in Metadata(e) : m[p] = e[p]
        /\ \A p \in DOMAIN m \ Metadata(e) : m[p] = o[p]
    <2>1. DOMAIN m = Metadata(e) \cup Beside(o, e)
      BY PreservedDomain
    <2>2. \A p \in DOMAIN m : (p \in Metadata(e) => m[p] = e[p]) /\ (p \notin Metadata(e) => m[p] = o[p])
      BY PreservedValues
    <2> HIDE DEF e, m
    <2>3. QED
      BY <2>1, <2>2
  <1>2. OnPaths(e) /\ IsTree(e) /\ Contents(e)
    BY <1>0, EntrySound
  <1>3. OnPaths(m)
    BY <1>0, PreservedOnPaths
  <1>4. \A p \in Metadata(e) : p \in DOMAIN e /\ p \in Path /\ p # <<>>
    BY <1>2 DEF Metadata, OnPaths
  <1> HIDE DEF e, m
  <1>5. ASSUME NEW p \in DOMAIN m, NEW q \in DOMAIN m, IsPrefix(p, q) PROVE p = q
    <2>1. p \in Path /\ q \in Path /\ p # <<>> /\ q # <<>>
      BY <1>0, <1>1, <1>4 DEF Beside
    <2>2. p[1] = q[1]
      <3>1. 1 \in 1..Len(p)
        BY <2>1, EmptySeq DEF Path
      <3>2. QED
        BY <1>5, <2>1, <3>1, Prefix
    <2>3. CASE p \in Metadata(e) /\ q \in Metadata(e)
      BY <1>2, <1>4, <1>5, <2>3 DEF IsTree
    <2>4. CASE p \notin Metadata(e) /\ q \notin Metadata(e)
      BY <1>0, <1>1, <1>5, <2>4 DEF IsTree, Beside
    <2>5. CASE p \in Metadata(e) /\ q \notin Metadata(e)
      BY <1>1, <2>2, <2>5 DEF Beside
    <2>6. CASE p \notin Metadata(e) /\ q \in Metadata(e)
      BY <1>1, <2>2, <2>6 DEF Beside
    <2>7. QED
      BY <2>3, <2>4, <2>5, <2>6
  <1>6. \A p \in DOMAIN m : IsContent(m[p]) /\ p # <<>>
    BY <1>0, <1>1, <1>2, <1>4 DEF Contents, Beside
  <1>7. Sound(m)
    BY <1>3, <1>5, <1>6 DEF Sound, IsTree
  <1>8. QED
    BY <1>7 DEF m

LEMMA PutSound ==
  ASSUME NEW b, Sound(b), NEW d \in Path, d # <<>>, NEW o, Sound(o)
  PROVE  Sound(Put(b, d, o))
  <1>1. Sound(PreserveMetadata(b, d, o))
    BY PreservedSound
  <1>2. QED
    BY <1>1, SpliceSound DEF Put, Sound, Contents

LEMMA PutThere ==
  ASSUME NEW b, Sound(b), NEW d \in Path, NEW o, Sound(o)
  PROVE  EntryAt(Put(b, d, o), d) = PreserveMetadata(b, d, o)
  <1>1. Sound(PreserveMetadata(b, d, o))
    BY PreservedSound
  <1>2. QED
    BY <1>1, SpliceThere DEF Put, Sound

LEMMA Reserving ==
  ASSUME NEW t, NEW p \in Metadata(t)
  PROVE  p \in DOMAIN t /\ p # <<>> /\ p[1] \in Reserved
  BY DEF Metadata

\* What is not reserved is what arrived.
LEMMA PreservedOwn ==
  ASSUME NEW b, Sound(b), NEW d \in Path, NEW o, Sound(o)
  PROVE  /\ DOMAIN PreserveMetadata(b, d, o) \ Metadata(PreserveMetadata(b, d, o))
              = DOMAIN o \ Metadata(o)
         /\ \A q \in DOMAIN o \ Metadata(o) : PreserveMetadata(b, d, o)[q] = o[q]
  <1> DEFINE e == EntryAt(b, d)
             m == PreserveMetadata(b, d, o)
  <1>1. DOMAIN m = Metadata(e) \cup Beside(o, e)
    BY PreservedDomain
  <1>2. \A q \in DOMAIN m : q \notin Metadata(e) => m[q] = o[q]
    BY PreservedValues
  <1>3. Sound(m)
    BY PreservedSound
  <1> HIDE DEF e, m
  <1>4. ASSUME NEW q \in DOMAIN m \ Metadata(m) PROVE q \in DOMAIN o \ Metadata(o)
    <2>1. q # <<>> /\ q[1] \notin Reserved
      BY <1>3, <1>4 DEF Sound, Metadata
    <2>2. q \in DOMAIN o
      BY <1>1, <1>4, <2>1, Reserving DEF Beside
    <2>3. QED
      BY <2>1, <2>2 DEF Metadata
  <1>5. ASSUME NEW q \in DOMAIN o \ Metadata(o)
        PROVE  q \in DOMAIN m \ Metadata(m) /\ m[q] = o[q]
    <2>1. q # <<>> /\ q[1] \notin Reserved
      BY <1>5 DEF Sound, Metadata
    <2>2. q \notin Metadata(e) /\ q \notin Metadata(m)
      BY <2>1, Reserving
    <2>3. q \in Beside(o, e)
      BY <1>5, <2>1, Reserving DEF Beside
    <2>4. QED
      BY <1>1, <1>2, <2>2, <2>3
  <1>6. QED
    BY <1>4, <1>5 DEF m

\* What a replay into d leaves of a tree b: the rest of it, and people's reserved entries.
Leaves(b, d, u) ==
  /\ \A p \in Path : Apart(d, p) => (p \in DOMAIN u <=> p \in DOMAIN b)
  /\ \A p \in DOMAIN b : Apart(d, p) \/ IsMetadata(d, p) => p \in DOMAIN u /\ u[p] = b[p]
\* No file SRC that was not there before.
NoNewMarker(b, u) == \A p \in Marked(u, "SRC") : p \in DOMAIN b /\ u[p] = b[p]

LEMMA MetadataBelow ==
  ASSUME NEW d \in Path, NEW p \in Path, IsMetadata(d, p)
  PROVE  Below(d, p) # <<>> /\ Below(d, p)[1] \in Reserved /\ IsPrefix(d, p)
  <1>1. /\ IsPrefix(d, p) /\ Len(p) > Len(d) /\ p[Len(d) + 1] \in Reserved
        /\ Len(p) \in Nat /\ Len(d) \in Nat
    BY DEF IsMetadata, Path
  <1>2. Below(d, p) \in Path /\ Len(Below(d, p)) = Len(p) - Len(d) /\ Below(d, p)[1] = p[Len(d) + 1]
    BY <1>1 DEF Below, Path
  <1>3. Below(d, p) # <<>>
    BY <1>1, <1>2, EmptySeq DEF Path
  <1>4. QED
    BY <1>1, <1>2, <1>3

LEMMA PutLeaves ==
  ASSUME NEW b, Sound(b), NEW d \in Path, NEW o, Sound(o)
  PROVE  Leaves(b, d, Put(b, d, o))
  <1> DEFINE e == EntryAt(b, d)
             m == PreserveMetadata(b, d, o)
             u == SpliceTree(b, d, m)
  <1>0. OnPaths(b) /\ DOMAIN b \subseteq Path
    BY DEF Sound, OnPaths
  <1>1. OnPaths(m) /\ DOMAIN m \subseteq Path
    BY PreservedSound DEF Sound, OnPaths
  <1>2. ASSUME NEW p \in Path, Apart(d, p)
        PROVE  /\ p \in DOMAIN u <=> p \in DOMAIN b
               /\ p \in DOMAIN b => u[p] = b[p]
    BY <1>0, <1>1, <1>2, SpliceElsewhere
  <1>3. ASSUME NEW p \in DOMAIN b, IsMetadata(d, p) PROVE p \in DOMAIN u /\ u[p] = b[p]
    <2> DEFINE q == Below(d, p)
    <2>1. p \in Path /\ IsPrefix(d, p) /\ q # <<>> /\ q[1] \in Reserved
      BY <1>0, <1>3, MetadataBelow
    <2>2. q \in Path /\ d \o q = p
      BY <2>1, Split
    <2> HIDE DEF q
    <2>3. q \in DOMAIN e /\ e[q] = b[p]
      BY <1>0, <2>2, EntryDomain, EntryValues
    <2> HIDE DEF e
    <2>4. q \in Metadata(e)
      BY <2>1, <2>3 DEF Metadata
    <2>5. DOMAIN m = Metadata(e) \cup Beside(o, e)
      BY PreservedDomain DEF e
    <2>6. q \in DOMAIN m
      BY <2>4, <2>5
    <2>7. q \in DOMAIN m /\ m[q] = e[q]
      BY <2>4, <2>6, PreservedValues DEF e
    <2> HIDE DEF m
    <2>8. p \in DOMAIN Place(d, m) /\ Place(d, m)[p] = m[q]
      BY <1>1, <2>2, <2>7, PlaceValues
    <2>9. QED
      BY <2>3, <2>7, <2>8, SplicedDomain, Spliced
  <1> HIDE DEF u
  <1>4. Leaves(b, d, u)
    BY <1>0, <1>2, <1>3 DEF Leaves
  <1>5. QED
    BY <1>4 DEF Put, u

LEMMA PutMarkers ==
  ASSUME NEW b, Sound(b), NEW d \in Path, NEW o, Sound(o), Unmarked(o)
  PROVE  NoNewMarker(b, Put(b, d, o))
  <1> DEFINE e == EntryAt(b, d)
             m == PreserveMetadata(b, d, o)
             u == SpliceTree(b, d, m)
  <1>0. DOMAIN b \subseteq Path
    BY DEF Sound, OnPaths
  <1>1. DOMAIN m \subseteq Path
    BY PreservedSound DEF Sound, OnPaths
  <1> HIDE DEF e
  <1>2. DOMAIN m = Metadata(e) \cup Beside(o, e)
    BY PreservedDomain DEF e
  <1>3. ASSUME NEW q \in Metadata(e) PROVE m[q] = e[q]
    <2>1. q \in DOMAIN m
      BY <1>2, <1>3
    <2>2. QED
      BY <1>3, <2>1, PreservedValues DEF e
  <1>4. ASSUME NEW q \in DOMAIN m, q \notin Metadata(e) PROVE q \in DOMAIN o /\ m[q] = o[q]
    BY <1>2, <1>4, PreservedValues DEF Beside, e
  <1>5. ASSUME NEW p \in DOMAIN u, Last(p) = "SRC" PROVE p \in DOMAIN b /\ u[p] = b[p]
    <2>1. CASE p \in DOMAIN Place(d, m)
      <3> DEFINE q == Below(d, p)
      <3>1. p \in Path /\ IsPrefix(d, p) /\ q \in DOMAIN m /\ u[p] = m[q]
        BY <1>1, <2>1, PlaceBelow, Spliced
      <3>2. q \in Path /\ d \o q = p
        BY <3>1, Split
      <3> HIDE DEF q, u
      <3>3. CASE q \in Metadata(e)
        <4>1. m[q] = e[q]
          BY <3>3, <1>3
        <4>2. q \in DOMAIN e
          BY <3>3, Reserving
        <4>3. p \in DOMAIN b /\ e[q] = b[p]
          BY <1>0, <3>2, <4>2, EntryValues DEF e
        <4>4. QED
          BY <3>1, <4>1, <4>3
      <3>4. CASE q \notin Metadata(e)
        <4>1. q \in DOMAIN o
          BY <3>1, <3>4, <1>4
        <4>2. q # <<>>
          BY <4>1 DEF Sound
        <4>3. Last(q) = "SRC"
          BY <1>5, <3>2, <4>2, LastJoined
        <4>4. QED
          BY <4>1, <4>3 DEF Unmarked
      <3>5. QED
        BY <3>3, <3>4
    <2>2. CASE p \notin DOMAIN Place(d, m)
      BY <1>5, <2>2, SplicedDomain, Spliced
    <2>3. QED
      BY <2>1, <2>2
  <1> HIDE DEF u
  <1>6. NoNewMarker(b, u)
    BY <1>5 DEF NoNewMarker, Marked
  <1>7. QED
    BY <1>6 DEF Put, u

-----------------------------------------------------------------------------
(* A replay and replays in a row. *)

AllHiding(xs) == \A i \in 1..Len(xs) : Hiding(xs[i])

LEMMA LeavesTransitive ==
  ASSUME NEW a, NEW b, NEW c, NEW d, Leaves(a, d, b), Leaves(b, d, c)
  PROVE  Leaves(a, d, c)
  <1>1. ASSUME NEW p \in DOMAIN a, Apart(d, p) \/ IsMetadata(d, p)
        PROVE  p \in DOMAIN c /\ c[p] = a[p]
    <2>1. p \in DOMAIN b /\ b[p] = a[p]
      BY <1>1 DEF Leaves
    <2>2. p \in DOMAIN c /\ c[p] = b[p]
      BY <1>1, <2>1 DEF Leaves
    <2>3. QED
      BY <2>1, <2>2
  <1>2. ASSUME NEW p \in Path, Apart(d, p) PROVE p \in DOMAIN c <=> p \in DOMAIN a
    BY <1>2 DEF Leaves
  <1>3. QED
    BY <1>1, <1>2 DEF Leaves

LEMMA MarkersTransitive ==
  ASSUME NEW a, NEW b, NEW c, NoNewMarker(a, b), NoNewMarker(b, c)
  PROVE  NoNewMarker(a, c)
  BY DEF NoNewMarker, Marked

LEMMA ReplayPuts ==
  ASSUME NEW b, Sound(b), NEW d \in Path, d # <<>>, NEW c, Sound(c), NEW xs, Pipe(xs),
         NEW u \in ReplayTree(b, d, c, xs)
  PROVE  /\ \E o \in Imported(c, xs) : Sound(o) /\ u = Put(b, d, o)
         /\ Sound(u) /\ Leaves(b, d, u)
         /\ AllHiding(xs) => NoNewMarker(b, u)
  <1>1. PICK o \in Imported(c, xs) : u = Put(b, d, o)
    BY DEF ReplayTree, Put
  <1>2. Sound(o) /\ (AllHiding(xs) => Unmarked(o))
    BY <1>1, ImportedSound DEF AllHiding
  <1>3. Sound(u)
    BY <1>1, <1>2, PutSound
  <1>4. Leaves(b, d, u)
    BY <1>1, <1>2, PutLeaves
  <1>5. AllHiding(xs) => NoNewMarker(b, u)
    BY <1>1, <1>2, PutMarkers
  <1>6. QED
    BY <1>1, <1>2, <1>3, <1>4, <1>5

LEMMA ReplayedPuts ==
  ASSUME NEW base, Sound(base), NEW d, Dest(d) \in Path, Dest(d) # <<>>, Pipe(Lowered(d.rule)),
         NEW n \in Nat, n # 0, NEW commits, DOMAIN commits = 1..n,
         \A i \in 1..n : Sound(commits[i]), NEW u \in Replayed(base, d, commits)
  PROVE  /\ \E b : \E o \in Imported(commits[n], Lowered(d.rule)) :
              Sound(b) /\ Sound(o) /\ u = Put(b, Dest(d), o)
         /\ Sound(u) /\ Leaves(base, Dest(d), u)
         /\ AllHiding(Lowered(d.rule)) => NoNewMarker(base, u)
  <1> DEFINE D == Dest(d)
             xs == Lowered(d.rule)
  <1>1. PICK F : Growth(F, d, {base}, commits, n) /\ Replayed(base, d, commits) = F[n]
    BY FoldCommits
  <1> DEFINE Good(v) == Sound(v) /\ Leaves(base, D, v) /\ (AllHiding(xs) => NoNewMarker(base, v))
             G == {k \in 0..n : \A v \in F[k] : Good(v)}
  <1>2. 0 \in G
    <2>1. Good(base)
      BY DEF Leaves, NoNewMarker, Marked
    <2>2. F[0] = {base}
      BY <1>1 DEF Growth
    <2> HIDE DEF Good
    <2>3. \A v \in F[0] : Good(v)
      BY <2>1, <2>2
    <2>4. 0 \in 0..n
      OBVIOUS
    <2>5. QED
      BY <2>3, <2>4
  <1>3. ASSUME NEW k \in 1..n
        PROVE  F[k] = UNION {ReplayTree(b, D, commits[k], xs) : b \in F[k - 1]}
    BY <1>1, <1>3 DEF Growth, PutAll
  <1>4. ASSUME NEW k \in 0..(n - 1), k \in G PROVE k + 1 \in G
    <2>1. k + 1 \in 1..n /\ k + 1 \in 0..n /\ (k + 1) - 1 = k
      OBVIOUS
    <2>2. ASSUME NEW v \in F[k + 1] PROVE Good(v)
      <3>1. PICK b \in F[k] : v \in ReplayTree(b, D, commits[k + 1], xs)
        BY <1>3, <2>1, <2>2
      <3>2. Good(b)
        BY <1>4, <3>1
      <3>3. Sound(v) /\ Leaves(b, D, v) /\ (AllHiding(xs) => NoNewMarker(b, v))
        BY <2>1, <3>1, <3>2, ReplayPuts
      <3> HIDE DEF D, xs
      <3>4. QED
        BY <3>2, <3>3, LeavesTransitive, MarkersTransitive
    <2> HIDE DEF Good
    <2>3. QED
      BY <2>1, <2>2
  <1>5. \A k \in 0..n : k \in G
    <2> HIDE DEF G
    <2>1. QED
      BY <1>2, <1>4, StepByStep
  <1>6. n \in 1..n /\ n - 1 \in 0..n /\ n \in 0..n
    OBVIOUS
  <1>7. Good(u)
    BY <1>1, <1>5, <1>6
  <1>8. PICK b \in F[n - 1] : u \in ReplayTree(b, D, commits[n], xs)
    BY <1>1, <1>3, <1>6
  <1>9. Sound(b)
    BY <1>5, <1>6, <1>8
  <1>10. \E o \in Imported(commits[n], xs) : Sound(o) /\ u = Put(b, D, o)
    BY <1>6, <1>8, <1>9, ReplayPuts
  <1>11. QED
    BY <1>7, <1>9, <1>10

-----------------------------------------------------------------------------
(* What declarations that compiled are good for. *)

Lawful(d) == d.package \in Path /\ WellFormed(d.rule)

LEMMA WellFormedPipe ==
  ASSUME NEW r, WellFormed(r), r.kind = "github_import"
  PROVE  Pipe(Lowered(r))
  <1> DEFINE xs == Lowered(r)
  <1>1. xs \in Seq(Range(r.transforms))
    BY DEF WellFormed
  <1>2. \A x \in Range(r.transforms) : Piped(x)
    BY DEF WellFormed, Piped
  <1> HIDE DEF xs
  <1>3. Len(xs) \in Nat /\ DOMAIN xs = 1..Len(xs) /\ \A i \in 1..Len(xs) : xs[i] \in Range(r.transforms)
    BY <1>1
  <1>4. Pipe(xs)
    BY <1>2, <1>3 DEF Pipe
  <1>5. QED
    BY <1>4 DEF xs

LEMMA ParentPath ==
  ASSUME NEW p \in Path, p # <<>>
  PROVE  Front(p) \in Path
  BY DEF Path, Front

LEMMA EvaluatedLawful ==
  ASSUME NEW t, Sound(t), NEW d \in Evaluate(t)
  PROVE  Lawful(d)
  <1>1. PICK p \in Marked(t, "SRC") : d \in EvalSrc(t, p)
    BY DEF Evaluate, DiscoverSrcFiles
  <1>2. p \in Path /\ p # <<>> /\ p \in DOMAIN t
    BY <1>1 DEF Marked, Sound, OnPaths
  <1>3. PICK r \in t[p].rules : d = [package |-> Front(p), rule |-> r]
    BY <1>1 DEF EvalSrc, PackageLabel
  <1>4. WellFormed(r)
    BY <1>2, <1>3 DEF Sound, IsContent
  <1>5. QED
    BY <1>2, <1>3, <1>4, ParentPath DEF Lawful

Aimed(d) ==
  /\ d.rule.repo \in Repo /\ Dest(d) \in Path /\ Dest(d) # <<>>
  /\ d.rule.kind = "github_import" => Pipe(Lowered(d.rule))
  /\ d.rule.kind = "git_repository" => d.rule.commit \in Nat /\ d.rule.commit # 0

LEMMA TargetsAimed ==
  ASSUME NEW decls, Compile(decls), NEW d \in Targets(decls), Lawful(d)
  PROVE  Aimed(d)
  <1>1. d \in decls /\ d.rule.kind \in {"github_import", "git_repository"}
    BY DEF Targets, Of
  <1>2. DeclChecked(d)
    BY <1>1 DEF Compile
  <1>3. d.rule.repo \in Slug /\ Into(d)
    <2>1. CASE d.rule.kind = "github_import"
      BY <1>2, <2>1 DEF DeclChecked, ImportChecked
    <2>2. CASE d.rule.kind = "git_repository"
      BY <1>2, <2>2 DEF DeclChecked, VendorChecked
    <2>3. QED
      BY <1>1, <2>1, <2>2
  <1>4. d.rule.kind = "git_repository" => d.rule.commit \in Sha
    BY <1>2 DEF DeclChecked, VendorChecked
  <1>5. d.rule.repo \in Repo /\ (d.rule.commit \in Sha => d.rule.commit \in Nat /\ d.rule.commit # 0)
    BY <1>3, LayoutAssumption
  <1>6. d.package \in Path /\ d.rule.into \in Path
    BY <1>1 DEF Lawful, WellFormed
  <1>7. Dest(d) \in Path /\ Dest(d) # <<>>
    BY <1>3, <1>6 DEF Dest, Into, Path
  <1>8. d.rule.kind = "github_import" => Pipe(Lowered(d.rule))
    BY WellFormedPipe DEF Lawful
  <1>9. QED
    BY <1>4, <1>5, <1>7, <1>8 DEF Aimed

-----------------------------------------------------------------------------
(* Small changes to sound trees. *)

LEMMA SoundParts ==
  ASSUME NEW t, Sound(t)
  PROVE  /\ t = [p \in DOMAIN t |-> t[p]] /\ DOMAIN t \subseteq Path /\ <<>> \notin DOMAIN t
         /\ \A p, q \in DOMAIN t : IsPrefix(p, q) => p = q
         /\ \A p \in DOMAIN t : IsContent(t[p])
  BY DEF Sound, OnPaths, IsTree

LEMMA RestrictSound ==
  ASSUME NEW t, Sound(t), NEW S, S \subseteq DOMAIN t
  PROVE  Sound(Restrict(t, S))
  <1>1. /\ DOMAIN Restrict(t, S) = S /\ \A p \in S : Restrict(t, S)[p] = t[p]
        /\ Restrict(t, S) = [p \in S |-> t[p]]
    BY DEF Restrict
  <1> DEFINE u == Restrict(t, S)
  <1>2. u = [p \in DOMAIN u |-> u[p]]
    BY <1>1
  <1> HIDE DEF u
  <1>3. QED
    BY <1>1, <1>2, SoundParts DEF Sound, OnPaths, IsTree, u

LEMMA WrittenDomain ==
  ASSUME NEW t, NEW p, NEW c
  PROVE  /\ DOMAIN Overlay(Single(p, c), t) = {p} \cup DOMAIN t
         /\ Overlay(Single(p, c), t)[p] = c
         /\ \A q \in DOMAIN t : q # p => Overlay(Single(p, c), t)[q] = t[q]
         /\ Overlay(Single(p, c), t)
              = [q \in DOMAIN Overlay(Single(p, c), t) |-> Overlay(Single(p, c), t)[q]]
  BY DEF Overlay, Single

LEMMA WriteSound ==
  ASSUME NEW t, Sound(t), NEW p \in Path, p # <<>>, NEW c, IsContent(c),
         \A q \in DOMAIN t : IsPrefix(q, p) \/ IsPrefix(p, q) => q = p
  PROVE  Sound(Overlay(Single(p, c), t))
  <1> DEFINE u == Overlay(Single(p, c), t)
  <1>1. /\ DOMAIN u = {p} \cup DOMAIN t /\ u[p] = c /\ u = [q \in DOMAIN u |-> u[q]]
        /\ \A q \in DOMAIN t : q # p => u[q] = t[q]
    BY DEF Overlay, Single
  <1> HIDE DEF u
  <1>2. OnPaths(u) /\ <<>> \notin DOMAIN u
    BY <1>1, SoundParts DEF OnPaths
  <1>3. IsTree(u)
    BY <1>1, SoundParts DEF IsTree
  <1>4. \A q \in DOMAIN u : IsContent(u[q])
    BY <1>1, SoundParts
  <1>5. QED
    BY <1>2, <1>3, <1>4 DEF Sound, u

LEMMA NewCommits ==
  ASSUME NEW S, NEW s \in Seq(S), NEW k \in Nat, NEW new, new = SubSeq(s, k + 1, Len(s)),
         new # <<>>
  PROVE  /\ Len(s) \in 1..Len(s)
         /\ Len(new) \in Nat /\ Len(new) # 0 /\ DOMAIN new = 1..Len(new)
         /\ \A i \in 1..Len(new) : new[i] \in S
         /\ Last(new) = new[Len(new)]
  <1> DEFINE n == Len(s) - k
  <1>0. Len(s) \in Nat /\ \A i \in 1..Len(s) : s[i] \in S
    OBVIOUS
  <1>1. /\ new \in Seq(S)
        /\ Len(new) = IF k + 1 <= Len(s) THEN Len(s) - (k + 1) + 1 ELSE 0
        /\ \A i \in 1..(Len(s) - (k + 1) + 1) : new[i] = s[(k + 1) + i - 1]
    <2>1. \A i \in (k + 1)..Len(s) : s[i] \in S
      BY <1>0
    <2>2. QED
      BY <1>0, <2>1, SubSeqProperties
  <1>2. n \in Nat \ {0} /\ Len(new) = n
    <2>1. Len(new) # 0
      BY <1>1, EmptySeq
    <2>2. QED
      BY <1>0, <1>1, <2>1
  <1>3. DOMAIN new = 1..n /\ \A i \in 1..n : new[i] \in S
    BY <1>1, <1>2, ElementOfSeq
  <1>4. Last(new) = new[Len(new)]
    BY DEF Last
  <1>5. Len(s) \in 1..Len(s)
    BY <1>0, <1>2
  <1>6. QED
    BY <1>2, <1>3, <1>4, <1>5

-----------------------------------------------------------------------------
(* What one reconcile of one target does. *)

LEMMA TargetIsAimed ==
  ASSUME TypeOK, NEW d \in Targets(ir)
  PROVE  d \in ir /\ Compile(ir) /\ Aimed(d)
  <1>1. d \in ir /\ Lawful(d)
    BY DEF Targets, Of, TypeOK, Lawful
  <1>2. Compile(ir)
    BY <1>1 DEF TypeOK
  <1>3. QED
    BY <1>1, <1>2, TargetsAimed

LEMMA NewestNumber ==
  ASSUME TypeOK, NEW k
  PROVE  Newest(k) \in Nat
  <1>1. ASSUME k \in DOMAIN at PROVE at[k][2] \in Nat
    <2>1. at[k][1] \in Repo /\ at[k][2] \in 1..Len(upstream[at[k][1]])
      BY <1>1 DEF TypeOK
    <2>2. Len(upstream[at[k][1]]) \in Nat
      BY <2>1 DEF TypeOK
    <2>3. QED
      BY <2>1, <2>2
  <1>2. QED
    BY <1>1 DEF Newest

LEMMA MirrorPuts ==
  ASSUME TypeOK, NEW d \in Targets(ir), ImportMirror(d)
  PROVE  /\ \E b, o : /\ Sound(b) /\ Sound(o)
                      /\ tree' = Put(b, Dest(d), o) /\ landed' = Over(Dest(d), o)
         /\ Sound(tree') /\ Leaves(tree, Dest(d), tree')
         /\ AllHiding(Pipeline(d)) => NoNewMarker(tree, tree')
         /\ \E m \in 1..Commits(d.rule.repo) :
              at' = Overlay(Single(Key(d), <<d.rule.repo, m>>), at)
  <1> DEFINE r == d.rule.repo
             s == upstream[r]
             k == Newest(Key(d))
             new == SubSeq(s, k + 1, Len(s))
             xs == Lowered(d.rule)
  <1>1. Aimed(d) /\ d.rule.kind = "github_import" /\ Sound(tree)
    BY TargetIsAimed DEF ImportMirror, TypeOK
  <1>2. r \in Repo /\ Dest(d) \in Path /\ Dest(d) # <<>> /\ Pipe(xs)
    BY <1>1 DEF Aimed
  <1>3. s \in Seq(Upstream[r])
    BY <1>2 DEF TypeOK
  <1>4. \A t \in Upstream[r] : Sound(t)
    BY <1>2, LayoutAssumption
  <1>5. /\ new # <<>> /\ tree' \in Replayed(tree, d, new)
        /\ at' = Overlay(Single(Key(d), <<r, Len(s)>>), at)
        /\ \E o \in Imported(Last(new), xs) : landed' = Over(Dest(d), o)
    BY DEF ImportMirror, Commits
  <1> DEFINE n == Len(new)
  <1>6. /\ Len(s) \in 1..Len(s) /\ n \in Nat /\ n # 0 /\ DOMAIN new = 1..n
        /\ \A i \in 1..n : new[i] \in Upstream[r]
        /\ Last(new) = new[n]
    <2>1. k \in Nat
      BY NewestNumber
    <2>2. new = SubSeq(s, k + 1, Len(s)) /\ new # <<>>
      BY <1>5
    <2>3. k \in Nat /\ s \in Seq(Upstream[r])
      BY <1>3, <2>1
    <2> HIDE DEF k, r, s, new
    <2>4. Len(s) \in 1..Len(s) /\ n \in Nat /\ n # 0
      BY <2>2, <2>3, NewCommits
    <2>5. DOMAIN new = 1..n
      BY <2>2, <2>3, NewCommits
    <2>6. \A i \in 1..n : new[i] \in Upstream[r]
      BY <2>2, <2>3, NewCommits
    <2>7. Last(new) = new[n]
      BY <2>2, <2>3, NewCommits
    <2>8. QED
      BY <2>4, <2>5, <2>6, <2>7
  <1>7. \A i \in 1..n : Sound(new[i])
    BY <1>4, <1>6
  <1> HIDE DEF n, new, xs, r, s
  <1>8. /\ \E b : \E o \in Imported(new[n], xs) :
             Sound(b) /\ Sound(o) /\ tree' = Put(b, Dest(d), o)
        /\ Sound(tree') /\ Leaves(tree, Dest(d), tree')
        /\ AllHiding(xs) => NoNewMarker(tree, tree')
    BY <1>1, <1>2, <1>5, <1>6, <1>7, ReplayedPuts DEF xs
  <1>9. PICK o \in Imported(new[n], xs) : landed' = Over(Dest(d), o)
    BY <1>5, <1>6
  <1>10. PICK b : \E q \in Imported(new[n], xs) :
           Sound(b) /\ Sound(q) /\ tree' = Put(b, Dest(d), q)
    BY <1>8
  <1>11. PICK p \in Imported(new[n], xs) : Sound(b) /\ Sound(p) /\ tree' = Put(b, Dest(d), p)
    BY <1>10
  <1>12. o = p
    <2>1. n \in 1..n
      BY <1>6
    <2>2. QED
      BY <1>2, <1>7, <1>9, <1>11, <2>1, ImportedSound
  <1>13. Pipeline(d) = xs
    BY <1>1 DEF Pipeline, xs
  <1>14. QED
    BY <1>5, <1>6, <1>8, <1>9, <1>11, <1>12, <1>13 DEF Commits, r, s

LEMMA SnapshotPuts ==
  ASSUME TypeOK, NEW d \in Targets(ir), VendorSnapshot(d)
  PROVE  /\ \E b, o : /\ Sound(b) /\ Sound(o)
                      /\ tree' = Put(b, Dest(d), o) /\ landed' = Over(Dest(d), o)
         /\ Sound(tree') /\ Leaves(tree, Dest(d), tree')
         /\ AllHiding(Pipeline(d)) => NoNewMarker(tree, tree')
         /\ \E m \in 1..Commits(d.rule.repo) :
              at' = Overlay(Single(Key(d), <<d.rule.repo, m>>), at)
  <1> DEFINE r == d.rule.repo
             pin == d.rule.commit
             c == upstream[r][pin]
  <1>1. Aimed(d) /\ d.rule.kind = "git_repository" /\ Sound(tree)
    BY TargetIsAimed DEF VendorSnapshot, TypeOK
  <1>2. r \in Repo /\ Dest(d) \in Path /\ Dest(d) # <<>> /\ pin \in Nat /\ pin # 0
    BY <1>1 DEF Aimed
  <1>3. upstream[r] \in Seq(Upstream[r])
    BY <1>2 DEF TypeOK
  <1>4. \A t \in Upstream[r] : Sound(t)
    BY <1>2, LayoutAssumption
  <1>5. /\ pin <= Len(upstream[r]) /\ tree' \in ReplayTree(tree, Dest(d), c, <<>>)
        /\ at' = Overlay(Single(Key(d), <<r, pin>>), at)
        /\ \E o \in Imported(c, <<>>) : landed' = Over(Dest(d), o)
    BY DEF VendorSnapshot, Commits
  <1>6. pin \in 1..Len(upstream[r])
    BY <1>2, <1>3, <1>5
  <1>7. Sound(c)
    BY <1>3, <1>4, <1>6
  <1>8. Pipeline(d) = <<>>
    BY <1>1 DEF Pipeline
  <1> HIDE DEF c
  <1>9. /\ \E o \in Imported(c, <<>>) : Sound(o) /\ tree' = Put(tree, Dest(d), o)
        /\ Sound(tree') /\ Leaves(tree, Dest(d), tree')
        /\ AllHiding(<<>>) => NoNewMarker(tree, tree')
    BY <1>1, <1>2, <1>5, <1>7, NoPipe, ReplayPuts
  <1>10. PICK o \in Imported(c, <<>>) : landed' = Over(Dest(d), o)
    BY <1>5
  <1>11. PICK p \in Imported(c, <<>>) : Sound(p) /\ tree' = Put(tree, Dest(d), p)
    BY <1>9
  <1>12. o = p
    BY <1>7, <1>10, <1>11, NoPipe, ImportedSound
  <1>13. QED
    BY <1>1, <1>5, <1>6, <1>8, <1>9, <1>10, <1>11, <1>12 DEF Commits

LEMMA ReconcilePuts ==
  ASSUME TypeOK, NEW d \in Targets(ir), Reconcile(d)
  PROVE  /\ \E b, o : /\ Sound(b) /\ Sound(o)
                      /\ tree' = Put(b, Dest(d), o) /\ landed' = Over(Dest(d), o)
         /\ Sound(tree') /\ Leaves(tree, Dest(d), tree')
         /\ AllHiding(Pipeline(d)) => NoNewMarker(tree, tree')
         /\ \E m \in 1..Commits(d.rule.repo) :
              at' = Overlay(Single(Key(d), <<d.rule.repo, m>>), at)
  BY MirrorPuts, SnapshotPuts DEF Reconcile

-----------------------------------------------------------------------------
(* Types. *)

LEMMA TypesInit == Init => TypeOK
  <1> SUFFICES ASSUME Init PROVE TypeOK
    OBVIOUS
  <1>1. PICK rules \in Offer[<<>>] : written = Single(<<"SRC">>, Source(rules))
    BY DEF Init
  <1>2. <<>> \in Package /\ \A r \in rules : WellFormed(r)
    BY <1>1, LayoutAssumption
  <1>3. <<"SRC">> \in Path /\ <<"SRC">> # <<>> /\ SrcOf(<<>>) = <<"SRC">>
    BY TreesAssumption DEF Path, SrcOf
  <1>4. IsContent(Source(rules))
    BY <1>2 DEF IsContent, Source
  <1>5. /\ DOMAIN written = {<<"SRC">>} /\ written = [p \in DOMAIN written |-> written[p]]
        /\ \A p \in DOMAIN written : IsContent(written[p])
    BY <1>1, <1>4 DEF Single
  <1>6. Sound(written)
    BY <1>3, <1>5 DEF Sound, OnPaths, IsTree
  <1>7. DOMAIN written \subseteq {SrcOf(p) : p \in Package} \cup PatchFile
    BY <1>2, <1>3, <1>5
  <1>8. upstream = [r \in Repo |-> upstream[r]] /\ \A r \in Repo : upstream[r] \in Seq(Upstream[r])
    BY DEF Init
  <1>9. ir = {} /\ DOMAIN at = {} /\ DOMAIN landed = {} /\ edits \in 0..MaxEdit
    BY LayoutAssumption DEF Init, Nothing
  <1>10. Sound(tree)
    BY <1>6 DEF Init
  <1>11. QED
    BY <1>5, <1>6, <1>7, <1>8, <1>9, <1>10 DEF TypeOK, Sound

LEMMA TypesUpstream ==
  ASSUME TypeOK, NEW r \in Repo, UpstreamCommit(r)
  PROVE  TypeOK'
  <1>1. PICK t \in Upstream[r] : upstream' = [upstream EXCEPT ![r] = Append(@, t)]
    BY DEF UpstreamCommit
  <1>2. UNCHANGED <<tree, ir, at, written, landed, edits>>
    BY DEF UpstreamCommit
  <1>3. /\ upstream' = [q \in Repo |-> upstream'[q]]
        /\ \A q \in Repo : upstream'[q] = IF q = r THEN Append(upstream[q], t) ELSE upstream[q]
    BY <1>1 DEF TypeOK
  <1>4. \A q \in Repo : /\ upstream[q] \in Seq(Upstream[q]) /\ upstream'[q] \in Seq(Upstream[q])
                        /\ Len(upstream[q]) \in Nat /\ Len(upstream'[q]) \in Nat
                        /\ Len(upstream[q]) <= Len(upstream'[q])
    <2> SUFFICES ASSUME NEW q \in Repo
                 PROVE  /\ upstream[q] \in Seq(Upstream[q]) /\ upstream'[q] \in Seq(Upstream[q])
                        /\ Len(upstream[q]) \in Nat /\ Len(upstream'[q]) \in Nat
                        /\ Len(upstream[q]) <= Len(upstream'[q])
      OBVIOUS
    <2>1. upstream[q] \in Seq(Upstream[q]) /\ Len(upstream[q]) \in Nat
      BY DEF TypeOK
    <2>2. CASE q = r
      <3>1. upstream'[q] = Append(upstream[q], t) /\ t \in Upstream[q]
        BY <1>1, <1>3, <2>2
      <3>2. /\ upstream'[q] \in Seq(Upstream[q])
            /\ Len(upstream'[q]) = Len(upstream[q]) + 1
        <4> DEFINE S == Upstream[q]
                   h == upstream[q]
                   g == upstream'[q]
        <4>1. h \in Seq(S) /\ t \in S /\ g = Append(h, t)
          BY <2>1, <3>1
        <4> HIDE DEF S, h, g
        <4>2. g \in Seq(S)
          BY <4>1, AppendProperties
        <4>3. Len(g) = Len(h) + 1
          BY <4>1, AppendProperties
        <4>4. QED
          BY <4>2, <4>3 DEF S, h, g
      <3>3. QED
        BY <2>1, <3>2
    <2>3. CASE q # r
      BY <1>3, <2>1, <2>3
    <2>4. QED
      BY <2>2, <2>3
  <1>5. \A k \in DOMAIN at : /\ k[2] \in Path /\ at[k][1] \in Repo
                             /\ at[k][2] \in 1..Len(upstream'[at[k][1]])
    <2> SUFFICES ASSUME NEW k \in DOMAIN at
                 PROVE  /\ k[2] \in Path /\ at[k][1] \in Repo
                        /\ at[k][2] \in 1..Len(upstream'[at[k][1]])
      OBVIOUS
    <2>1. /\ k[2] \in Path /\ at[k][1] \in Repo
          /\ at[k][2] \in 1..Len(upstream[at[k][1]])
      BY DEF TypeOK
    <2>2. QED
      BY <1>4, <2>1
  <1>6. (ir = {} \/ Compile(ir))'
    BY <1>2 DEF TypeOK
  <1>7. QED
    BY <1>2, <1>3, <1>4, <1>5, <1>6 DEF TypeOK

\* Where people write, and what.
LEMMA Writable ==
  ASSUME TypeOK
  PROVE  /\ \A pkg \in Package : SrcOf(pkg) \in Path /\ SrcOf(pkg) # <<>>
         /\ \A p \in PatchFile : p \in Path /\ p # <<>>
         /\ \A pkg \in Package : \A rules \in Offer[pkg] : IsContent(Source(rules))
         /\ IsContent(PatchText)
  <1>1. \A pkg \in Package : SrcOf(pkg) \in Path /\ SrcOf(pkg) # <<>>
    <2> SUFFICES ASSUME NEW pkg \in Package PROVE SrcOf(pkg) \in Path /\ SrcOf(pkg) # <<>>
      OBVIOUS
    <2>1. pkg \in Seq(Name) /\ "SRC" \in Name
      BY LayoutAssumption, TreesAssumption DEF Path
    <2>2. Append(pkg, "SRC") \in Seq(Name) /\ Append(pkg, "SRC") # <<>>
      BY <2>1
    <2>3. QED
      BY <2>2 DEF SrcOf, Path
  <1>2. \A p \in PatchFile : p \in Path /\ p # <<>>
    BY LayoutAssumption
  <1>3. \A pkg \in Package : \A rules \in Offer[pkg] : IsContent(Source(rules))
    BY LayoutAssumption DEF IsContent, Source
  <1>4. IsContent(PatchText)
    BY DEF IsContent, PatchText
  <1>5. QED
    BY <1>1, <1>2, <1>3, <1>4

LEMMA TypesWrite ==
  ASSUME TypeOK, NEW p \in {SrcOf(q) : q \in Package} \cup PatchFile, p \in Path, p # <<>>,
         NEW c, IsContent(c), Write(p, c)
  PROVE  TypeOK'
  <1>1. /\ tree' = Overlay(Single(p, c), tree) /\ written' = Overlay(Single(p, c), written)
        /\ edits' = edits + 1 /\ edits < MaxEdit /\ HasRoom(p)
        /\ UNCHANGED <<upstream, ir, at, landed>>
    BY DEF Write
  <1>2. Sound(tree')
    BY <1>1, WriteSound DEF TypeOK, HasRoom
  <1>3. /\ DOMAIN written' = {p} \cup DOMAIN written /\ written'[p] = c
        /\ \A q \in DOMAIN written : q # p => written'[q] = written[q]
        /\ written' = [q \in DOMAIN written' |-> written'[q]]
    BY <1>1 DEF Overlay, Single
  <1>4. OnPaths(written') /\ DOMAIN written' \subseteq {SrcOf(q) : q \in Package} \cup PatchFile
    BY <1>3 DEF TypeOK, OnPaths
  <1>5. \A q \in DOMAIN written' : IsContent(written'[q])
    BY <1>3 DEF TypeOK
  <1>6. edits' \in 0..MaxEdit
    BY <1>1, LayoutAssumption DEF TypeOK
  <1>7. (ir = {} \/ Compile(ir))'
    BY <1>1 DEF TypeOK
  <1>8. QED
    BY <1>1, <1>2, <1>4, <1>5, <1>6, <1>7 DEF TypeOK

LEMMA TypesWithdraw ==
  ASSUME TypeOK, NEW p \in DOMAIN written, Withdraw(p)
  PROVE  TypeOK'
  <1> DEFINE Rest(d) == {q \in DOMAIN landed[d] : d \o q # p}
  <1>1. /\ tree' = Restrict(tree, DOMAIN tree \ {p})
        /\ written' = Restrict(written, DOMAIN written \ {p})
        /\ landed' = [d \in DOMAIN landed |-> Restrict(landed[d], Rest(d))]
        /\ edits' = edits + 1 /\ edits < MaxEdit
        /\ UNCHANGED <<upstream, ir, at>>
    BY DEF Withdraw
  <1>2. Sound(tree')
    BY <1>1, RestrictSound DEF TypeOK
  <1>3. /\ DOMAIN written' = DOMAIN written \ {p}
        /\ \A q \in DOMAIN written' : written'[q] = written[q]
        /\ written' = [q \in DOMAIN written' |-> written'[q]]
    BY <1>1 DEF Restrict
  <1>4. /\ OnPaths(written') /\ DOMAIN written' \subseteq {SrcOf(q) : q \in Package} \cup PatchFile
        /\ \A q \in DOMAIN written' : IsContent(written'[q])
    BY <1>3 DEF TypeOK, OnPaths
  <1>5. ASSUME NEW d \in DOMAIN landed' PROVE d \in Path /\ Sound(landed'[d])
    <2>1. d \in DOMAIN landed /\ landed'[d] = Restrict(landed[d], Rest(d))
      BY <1>1, <1>5
    <2>2. d \in Path /\ Sound(landed[d]) /\ Rest(d) \subseteq DOMAIN landed[d]
      BY <2>1 DEF TypeOK
    <2> HIDE DEF Rest
    <2>3. Sound(Restrict(landed[d], Rest(d)))
      BY <2>2, RestrictSound
    <2>4. QED
      BY <2>1, <2>2, <2>3
  <1>6. edits' \in 0..MaxEdit
    BY <1>1, LayoutAssumption DEF TypeOK
  <1>7. (ir = {} \/ Compile(ir))'
    BY <1>1 DEF TypeOK
  <1>8. QED
    BY <1>1, <1>2, <1>4, <1>5, <1>6, <1>7 DEF TypeOK

LEMMA TypesLoad == TypeOK /\ Load => TypeOK'
  <1> SUFFICES ASSUME TypeOK, Load PROVE TypeOK'
    OBVIOUS
  <1>1. ir' = {} \/ (ir' = Evaluate(tree) /\ Compile(ir'))
    BY DEF Load
  <1>2. \A d \in ir' : d.package \in Path /\ WellFormed(d.rule)
    BY <1>1, EvaluatedLawful DEF TypeOK, Lawful
  <1>3. UNCHANGED <<tree, upstream, at, written, landed, edits>>
    BY DEF Load
  <1>4. (ir = {} \/ Compile(ir))'
    BY <1>1
  <1>5. QED
    BY <1>2, <1>3, <1>4 DEF TypeOK

LEMMA OverThere ==
  ASSUME NEW d, NEW o
  PROVE  d \in DOMAIN Over(d, o) /\ Over(d, o)[d] = o
  BY DEF Over, Overlay, Single

LEMMA OverElsewhere ==
  ASSUME NEW d, NEW o, NEW x \in DOMAIN Over(d, o), x # d
  PROVE  x \in DOMAIN landed /\ Apart(x, d) /\ Over(d, o)[x] = landed[x]
  BY DEF Over, Overlay, Single, Restrict, Apart

LEMMA TypesReconcile ==
  ASSUME TypeOK, NEW d \in Targets(ir), Reconcile(d)
  PROVE  TypeOK'
  <1>1. Aimed(d)
    BY TargetIsAimed
  <1>2. Sound(tree')
    BY ReconcilePuts
  <1>3. PICK o : Sound(o) /\ landed' = Over(Dest(d), o)
    BY ReconcilePuts
  <1>4. ASSUME NEW x \in DOMAIN landed' PROVE x \in Path /\ Sound(landed'[x])
    <2>1. CASE x = Dest(d)
      <3>1. landed'[x] = o
        BY <1>3, <2>1, OverThere
      <3>2. QED
        BY <1>1, <1>3, <2>1, <3>1 DEF Aimed
    <2>2. CASE x # Dest(d)
      <3>1. x \in DOMAIN Over(Dest(d), o)
        BY <1>3, <1>4
      <3>2. x \in DOMAIN landed /\ Over(Dest(d), o)[x] = landed[x]
        BY <2>2, <3>1, OverElsewhere
      <3>3. QED
        BY <1>3, <3>2 DEF TypeOK
    <2>3. QED
      BY <2>1, <2>2
  <1>5. PICK m \in 1..Commits(d.rule.repo) :
          at' = Overlay(Single(Key(d), <<d.rule.repo, m>>), at)
    BY ReconcilePuts
  <1>6. ASSUME NEW k \in DOMAIN at'
        PROVE  /\ k[2] \in Path /\ at'[k][1] \in Repo
               /\ at'[k][2] \in 1..Len(upstream[at'[k][1]])
    <2>1. CASE k = Key(d)
      <3>1. at'[k] = <<d.rule.repo, m>>
        BY <1>5, <2>1 DEF Overlay, Single
      <3>2. k[2] = Dest(d)
        BY <2>1 DEF Key
      <3>3. QED
        BY <1>1, <1>5, <3>1, <3>2 DEF Aimed, Commits
    <2>2. CASE k # Key(d)
      <3>1. k \in DOMAIN at /\ at'[k] = at[k]
        BY <1>5, <1>6, <2>2 DEF Overlay, Single
      <3>2. QED
        BY <3>1 DEF TypeOK
    <2>3. QED
      BY <2>1, <2>2
  <1>7. UNCHANGED <<upstream, ir, written, edits>>
    BY DEF Reconcile
  <1>8. (ir = {} \/ Compile(ir))'
    BY <1>7 DEF TypeOK
  <1>9. QED
    BY <1>2, <1>4, <1>6, <1>7, <1>8 DEF TypeOK

LEMMA TypesNext == TypeOK /\ [Next]_vars => TypeOK'
  <1> SUFFICES ASSUME TypeOK, [Next]_vars PROVE TypeOK'
    OBVIOUS
  <1>1. CASE UNCHANGED vars
    <2>1. (ir = {} \/ Compile(ir))'
      BY <1>1 DEF TypeOK, vars
    <2>2. QED
      BY <1>1, <2>1 DEF TypeOK, vars
  <1>2. CASE Load
    BY <1>2, TypesLoad
  <1>3. CASE \E r \in Repo : UpstreamCommit(r)
    BY <1>3, TypesUpstream
  <1>4. CASE Edit
    <2>1. CASE \E pkg \in Package : \E rules \in Offer[pkg] : Write(SrcOf(pkg), Source(rules))
      <3>0. PICK pkg \in Package : \E rules \in Offer[pkg] : Write(SrcOf(pkg), Source(rules))
        BY <2>1
      <3>1. PICK rules \in Offer[pkg] : Write(SrcOf(pkg), Source(rules))
        BY <3>0
      <3>2. SrcOf(pkg) \in {SrcOf(q) : q \in Package} \cup PatchFile
        OBVIOUS
      <3>3. SrcOf(pkg) \in Path /\ SrcOf(pkg) # <<>> /\ IsContent(Source(rules))
        BY Writable
      <3>4. QED
        BY <3>1, <3>2, <3>3, TypesWrite
    <2>2. CASE \E p \in PatchFile : Write(p, PatchText)
      <3>1. PICK p \in PatchFile : Write(p, PatchText)
        BY <2>2
      <3>2. p \in {SrcOf(q) : q \in Package} \cup PatchFile
        BY <3>1
      <3>3. p \in Path /\ p # <<>> /\ IsContent(PatchText)
        BY <3>1, Writable
      <3>4. QED
        BY <3>1, <3>2, <3>3, TypesWrite
    <2>3. CASE \E p \in DOMAIN written : Withdraw(p)
      BY <2>3, TypesWithdraw
    <2>4. QED
      BY <1>4, <2>1, <2>2, <2>3 DEF Edit
  <1>5. CASE \E d \in Targets(ir) : Reconcile(d)
    BY <1>5, TypesReconcile
  <1>6. QED
    BY <1>1, <1>2, <1>3, <1>4, <1>5 DEF Next

(***************************************************************************)
(* TypeOK: whatever upstreams and people put there, the branch stays a     *)
(* tree of files on paths, no file below another one, and what is loaded   *)
(* from it compiles (engine.rs replay_commit, vendor_snapshot).            *)
(***************************************************************************)
THEOREM LayoutTypes == Spec => []TypeOK
  BY TypesInit, TypesNext, PTL DEF Spec

-----------------------------------------------------------------------------
(* Look-ups. *)

\* A label has one declaration at most: names are unique across kinds.
LEMMA OneCandidate ==
  ASSUME NEW decls, UniqueNames(decls), NEW kind, kind # "monorepo", NEW label,
         NEW c \in Candidates(decls, kind, label), NEW d \in Candidates(decls, kind, label)
  PROVE  c = d
  <1>1. c \in decls \ Of(decls, {"monorepo"}) /\ d \in decls \ Of(decls, {"monorepo"})
    BY DEF Candidates, Of
  <1>2. Label(c) = Label(d)
    BY DEF Candidates
  <1>3. QED
    BY <1>1, <1>2 DEF UniqueNames

LEMMA CallInvokes ==
  ASSUME NEW decls, Compile(decls), NEW d \in decls, NEW c \in Calls(d)
  PROVE  \E i \in ResolveAgentInvocation(decls, c) :
           /\ ResolveAgentInvocation(decls, c) = {i}
           /\ <<i.harness.rule.runtime, i.model.rule.provider>> \in Drives
  <1>1. UniqueNames(decls) /\ CallResolves(decls, c)
    BY DEF Compile
  <1>2. PICK a \in Candidates(decls, "agent", c.agent) : TRUE
    BY <1>1 DEF CallResolves, ResolveLabel
  <1>3. PICK t \in Candidates(decls, "prompt_template", c.template) : TRUE
    BY <1>1 DEF CallResolves, ResolveLabel
  <1>4. a \in Of(decls, {"agent"})
    BY <1>2 DEF Candidates
  <1>5. AgentResolves(decls, a)
    BY <1>4 DEF Compile
  <1>6. PICK h \in Candidates(decls, "harness", a.rule.harness) : TRUE
    BY <1>5 DEF AgentResolves
  <1>7. PICK m \in Candidates(decls, "model", a.rule.model) : TRUE
    BY <1>5 DEF AgentResolves
  <1>8. <<h.rule.runtime, m.rule.provider>> \in Drives
    BY <1>5, <1>6, <1>7 DEF AgentResolves
  <1> DEFINE i == [agent |-> a, harness |-> h, model |-> m, template |-> t]
  <1>9. /\ h \in Of(decls, {"harness"}) /\ Label(h) = a.rule.harness
        /\ m \in Of(decls, {"model"}) /\ Label(m) = a.rule.model
    BY <1>6, <1>7 DEF Candidates
  <1>10. i \in ResolveAgentInvocation(decls, c)
    BY <1>2, <1>3, <1>9 DEF ResolveAgentInvocation, Invocations
  <1>11. ASSUME NEW j \in ResolveAgentInvocation(decls, c) PROVE j = i
    <2>1. PICK b \in Candidates(decls, "agent", c.agent),
               g \in Of(decls, {"harness"}), n \in Of(decls, {"model"}),
               s \in Candidates(decls, "prompt_template", c.template) :
            /\ j = [agent |-> b, harness |-> g, model |-> n, template |-> s]
            /\ Label(g) = b.rule.harness /\ Label(n) = b.rule.model
      BY <1>11 DEF ResolveAgentInvocation, Invocations
    <2>2. b = a
      BY <1>1, <1>2, <2>1, OneCandidate
    <2>3. s = t
      BY <1>1, <1>3, <2>1, OneCandidate
    <2>4. /\ g \in Candidates(decls, "harness", a.rule.harness)
          /\ n \in Candidates(decls, "model", a.rule.model)
      BY <2>1, <2>2 DEF Candidates
    <2>5. g = h
      BY <1>1, <1>6, <2>4, OneCandidate
    <2>6. n = m
      BY <1>1, <1>7, <2>4, OneCandidate
    <2>7. QED
      BY <2>1, <2>2, <2>3, <2>5, <2>6
  <1>12. ResolveAgentInvocation(decls, c) = {i}
    BY <1>10, <1>11
  <1>13. <<i.harness.rule.runtime, i.model.rule.provider>> \in Drives
    BY <1>8
  <1> HIDE DEF i
  <1>14. QED
    BY <1>10, <1>12, <1>13

(***************************************************************************)
(* AcceptedResolves: what an agent's run is made of is found, and found    *)
(* once, whenever a process looks it up in declarations that compiled      *)
(* (ir.rs compile, reconcile.rs resolve_agent_invocation).                 *)
(***************************************************************************)
THEOREM LookupsResolve == Spec => []AcceptedResolves
  <1>1. TypeOK => AcceptedResolves
    <2>1. CASE ir = {}
      BY <2>1 DEF AcceptedResolves
    <2>2. CASE Compile(ir)
      BY <2>2, CallInvokes DEF AcceptedResolves
    <2>3. QED
      BY <2>1, <2>2 DEF TypeOK
  <1>2. QED
    BY <1>1, LayoutTypes, PTL

-----------------------------------------------------------------------------
(* Order: targets do not disturb each other. *)

\* What can be put at d: the import of any commit there is.
Offered(d) == UNION {Imported(c, Pipeline(d)) : c \in Range(upstream[d.rule.repo])}

LEMMA OutcomesPut ==
  ASSUME NEW d, NEW T
  PROVE  Outcomes(d, T) = {Put(p[1], Dest(d), p[2]) : p \in T \X Offered(d)}
  <1>1. ASSUME NEW r \in Outcomes(d, T)
        PROVE  r \in {Put(p[1], Dest(d), p[2]) : p \in T \X Offered(d)}
    <2>1. PICK b \in T, c \in Range(upstream[d.rule.repo]) :
            r \in ReplayTree(b, Dest(d), c, Pipeline(d))
      BY <1>1 DEF Outcomes
    <2>2. PICK o \in Imported(c, Pipeline(d)) : r = Put(b, Dest(d), o)
      BY <2>1 DEF ReplayTree, Put
    <2>3. <<b, o>> \in T \X Offered(d)
      BY <2>1, <2>2 DEF Offered
    <2>4. QED
      BY <2>2, <2>3
  <1>2. ASSUME NEW b \in T, NEW o \in Offered(d) PROVE Put(b, Dest(d), o) \in Outcomes(d, T)
    <2>1. PICK c \in Range(upstream[d.rule.repo]) : o \in Imported(c, Pipeline(d))
      BY <1>2 DEF Offered
    <2>2. Put(b, Dest(d), o) \in ReplayTree(b, Dest(d), c, Pipeline(d))
      BY <2>1 DEF ReplayTree, Put
    <2>3. QED
      BY <1>2, <2>1, <2>2 DEF Outcomes
  <1>3. QED
    BY <1>1, <1>2

LEMMA OutcomesCommute ==
  ASSUME NEW c, NEW d, Dest(c) \in Path, Dest(d) \in Path, Apart(Dest(c), Dest(d)),
         OnPaths(tree), \A o \in Offered(c) \cup Offered(d) : OnPaths(o),
         NEW r \in Outcomes(c, Outcomes(d, {tree}))
  PROVE  r \in Outcomes(d, Outcomes(c, {tree}))
  <1>1. PICK b \in Outcomes(d, {tree}), x \in Offered(c) : r = Put(b, Dest(c), x)
    BY OutcomesPut
  <1>2. PICK y \in Offered(d) : b = Put(tree, Dest(d), y)
    BY OutcomesPut
  <1>3. r = Put(Put(tree, Dest(c), x), Dest(d), y)
    <2>1. OnPaths(x) /\ OnPaths(y)
      BY <1>1, <1>2
    <2>2. Put(Put(tree, Dest(d), y), Dest(c), x) = Put(Put(tree, Dest(c), x), Dest(d), y)
      BY <2>1, ReplaysCommute DEF Put
    <2>3. QED
      BY <1>1, <1>2, <2>2
  <1>4. <<tree, x>> \in {tree} \X Offered(c)
    BY <1>1
  <1>5. Put(tree, Dest(c), x) \in Outcomes(c, {tree})
    BY <1>4, OutcomesPut
  <1>6. <<Put(tree, Dest(c), x), y>> \in Outcomes(c, {tree}) \X Offered(d)
    BY <1>2, <1>5
  <1>7. QED
    BY <1>3, <1>6, OutcomesPut

(***************************************************************************)
(* Confluent, in every state in which the declarations compiled: the       *)
(* overlap check is all it takes for targets to be reconciled in any       *)
(* order, whatever their trees, metadata and transforms are                *)
(* (validate.rs check_destination_overlap).                                *)
(***************************************************************************)
LEMMA OverlapCheckSuffices ==
  ASSUME Compile(ir), OnPaths(tree),
         \A d \in Targets(ir) : Dest(d) \in Path /\ \A o \in Offered(d) : OnPaths(o)
  PROVE  Confluent
  <1>1. SUFFICES ASSUME NEW c \in Targets(ir), NEW d \in Targets(ir), c # d
                 PROVE  Outcomes(c, Outcomes(d, {tree})) = Outcomes(d, Outcomes(c, {tree}))
    BY DEF Confluent
  <1>2. Apart(Dest(c), Dest(d)) /\ Apart(Dest(d), Dest(c))
    BY <1>1 DEF Compile, DestinationsApart, PathsOverlap, Apart
  <1>3. \A r \in Outcomes(c, Outcomes(d, {tree})) : r \in Outcomes(d, Outcomes(c, {tree}))
    BY <1>1, <1>2, OutcomesCommute
  <1>4. \A r \in Outcomes(d, Outcomes(c, {tree})) : r \in Outcomes(c, Outcomes(d, {tree}))
    BY <1>1, <1>2, OutcomesCommute
  <1>5. QED
    BY <1>3, <1>4

LEMMA OfferedSound ==
  ASSUME TypeOK, NEW d \in Targets(ir), NEW o \in Offered(d)
  PROVE  Sound(o)
  <1>1. PICK c \in Range(upstream[d.rule.repo]) : o \in Imported(c, Pipeline(d))
    BY DEF Offered
  <1>2. Aimed(d)
    BY TargetIsAimed
  <1>3. upstream[d.rule.repo] \in Seq(Upstream[d.rule.repo])
    BY <1>2 DEF TypeOK, Aimed
  <1>4. c \in Upstream[d.rule.repo]
    BY <1>1, <1>3 DEF Range
  <1>5. Sound(c)
    BY <1>2, <1>4, LayoutAssumption DEF Aimed
  <1>6. Pipe(Pipeline(d))
    BY <1>2, NoPipe DEF Aimed, Pipeline
  <1>7. QED
    BY <1>1, <1>5, <1>6, ImportedSound

(***************************************************************************)
(* Confluent: targets that compiled can be reconciled in any order,        *)
(* whatever the upstreams' histories, the monorepo's tree and the          *)
(* transforms are (validate.rs check_destination_overlap).                 *)
(***************************************************************************)
THEOREM TargetsCommute == Spec => []Confluent
  <1>1. TypeOK => Confluent
    <2> SUFFICES ASSUME TypeOK PROVE Confluent
      OBVIOUS
    <2>1. CASE Targets(ir) = {}
      BY <2>1 DEF Confluent
    <2>2. CASE Targets(ir) # {}
      <3>1. Compile(ir)
        BY <2>2, TargetIsAimed
      <3>2. \A d \in Targets(ir) : Dest(d) \in Path
        BY TargetIsAimed DEF Aimed
      <3>3. \A d \in Targets(ir) : \A o \in Offered(d) : OnPaths(o)
        BY OfferedSound DEF Sound
      <3>4. OnPaths(tree)
        BY DEF TypeOK, Sound
      <3>5. QED
        BY <3>1, <3>2, <3>3, <3>4, OverlapCheckSuffices
    <2>3. QED
      BY <2>1, <2>2
  <1>2. QED
    BY <1>1, LayoutTypes, PTL

-----------------------------------------------------------------------------
(* What lands stays whole. *)

Free(q) == q = <<>> \/ q[1] \notin Reserved
\* At d, tree t has the files of l under names that are not reserved, where people's are not.
Holds(files, t, d, l) ==
  \A q \in Path : d \o q \notin files /\ Free(q) =>
    /\ d \o q \in DOMAIN t <=> q \in DOMAIN l
    /\ q \in DOMAIN l => t[d \o q] = l[q]

Keys(d, t) == {q \in DOMAIN t : Free(q) /\ d \o q \notin DOMAIN written}

LEMMA OwnIs ==
  ASSUME NEW d, NEW t
  PROVE  Own(d, t) = [q \in Keys(d, t) |-> t[q]]
  <1> DEFINE S == {q \in DOMAIN t \ Metadata(t) : d \o q \notin DOMAIN written}
  <1>1. S = Keys(d, t)
    BY DEF Metadata, Free, Keys
  <1>2. Own(d, t) = [q \in S |-> t[q]]
    BY DEF Own, Restrict
  <1> HIDE DEF S
  <1>3. QED
    BY <1>1, <1>2

LEMMA OwnDomain ==
  ASSUME NEW d, NEW t
  PROVE  DOMAIN Own(d, t) = Keys(d, t)
  BY OwnIs

LEMMA OwnValue ==
  ASSUME NEW d, NEW t, NEW q \in Keys(d, t)
  PROVE  Own(d, t)[q] = t[q]
  BY OwnIs

LEMMA HoldsOwn ==
  ASSUME NEW t, DOMAIN t \subseteq Path, NEW d \in Path, NEW l, DOMAIN l \subseteq Path
  PROVE  Holds(DOMAIN written, t, d, l) <=> Own(d, EntryAt(t, d)) = Own(d, l)
  <1> DEFINE e == EntryAt(t, d)
  <1>1. ASSUME NEW q \in Path
        PROVE  /\ q \in DOMAIN e <=> d \o q \in DOMAIN t
               /\ d \o q \in DOMAIN t => e[q] = t[d \o q]
    <2>1. q \in DOMAIN e <=> d \o q \in DOMAIN t
      BY EntryDomain
    <2>2. d \o q \in DOMAIN t => e[q] = t[d \o q]
      BY <2>1, EntryValues
    <2>3. QED
      BY <2>1, <2>2
  <1>2. DOMAIN e \subseteq Path
    BY EntryOnPaths DEF OnPaths
  <1> HIDE DEF e
  <1>3. ASSUME Holds(DOMAIN written, t, d, l) PROVE Own(d, e) = Own(d, l)
    <2>1. ASSUME NEW q \in Path, Free(q), d \o q \notin DOMAIN written
          PROVE  (q \in DOMAIN e <=> q \in DOMAIN l) /\ (q \in DOMAIN l => e[q] = l[q])
      BY <1>1, <1>3, <2>1 DEF Holds
    <2>2. Keys(d, e) = Keys(d, l)
      BY <1>2, <2>1 DEF Keys
    <2>3. \A q \in Keys(d, l) : e[q] = l[q]
      BY <2>1 DEF Keys
    <2>4. [q \in Keys(d, e) |-> e[q]] = [q \in Keys(d, l) |-> l[q]]
      BY <2>2, <2>3
    <2>5. QED
      BY <2>4, OwnIs
  <1>4. ASSUME Own(d, e) = Own(d, l) PROVE Holds(DOMAIN written, t, d, l)
    <2> SUFFICES ASSUME NEW q \in Path, d \o q \notin DOMAIN written, Free(q)
                 PROVE  /\ d \o q \in DOMAIN t <=> q \in DOMAIN l
                        /\ q \in DOMAIN l => t[d \o q] = l[q]
      BY DEF Holds
    <2>1. Keys(d, e) = Keys(d, l)
      BY <1>4, OwnDomain
    <2>2. q \in DOMAIN e <=> q \in DOMAIN l
      BY <2>1 DEF Keys
    <2>3. ASSUME q \in DOMAIN l PROVE e[q] = l[q]
      <3>1. q \in Keys(d, e) /\ q \in Keys(d, l)
        BY <2>1, <2>3 DEF Keys
      <3>2. Own(d, e)[q] = e[q] /\ Own(d, l)[q] = l[q]
        BY <3>1, OwnValue
      <3>3. QED
        BY <1>4, <3>2
    <2>4. QED
      BY <1>1, <2>2, <2>3
  <1>5. QED
    BY <1>3, <1>4 DEF e

Whole == \A d \in DOMAIN landed : Holds(DOMAIN written, tree, d, landed[d])

LEMMA WholeLands == TypeOK => (Whole <=> LandsWhole)
  <1> SUFFICES ASSUME TypeOK PROVE Whole <=> LandsWhole
    OBVIOUS
  <1>1. ASSUME NEW d \in DOMAIN landed
        PROVE  Holds(DOMAIN written, tree, d, landed[d])
                 <=> Own(d, EntryAt(tree, d)) = Own(d, landed[d])
    <2>1. DOMAIN tree \subseteq Path /\ d \in Path /\ DOMAIN landed[d] \subseteq Path
      BY DEF TypeOK, Sound, OnPaths
    <2>2. QED
      BY <2>1, HoldsOwn
  <1>2. QED
    BY <1>1 DEF Whole, LandsWhole

LEMMA WholeWrite ==
  ASSUME TypeOK, Whole, NEW p, NEW c, Write(p, c)
  PROVE  Whole'
  <1>1. /\ tree' = Overlay(Single(p, c), tree) /\ written' = Overlay(Single(p, c), written)
        /\ UNCHANGED landed
    BY DEF Write
  <1>2. /\ DOMAIN tree' = {p} \cup DOMAIN tree /\ DOMAIN written' = {p} \cup DOMAIN written
        /\ \A q \in DOMAIN tree : q # p => tree'[q] = tree[q]
    BY <1>1 DEF Overlay, Single
  <1>3. ASSUME NEW d \in DOMAIN landed, NEW q \in Path, d \o q \notin DOMAIN written', Free(q)
        PROVE  /\ d \o q \in DOMAIN tree' <=> q \in DOMAIN landed[d]
               /\ q \in DOMAIN landed[d] => tree'[d \o q] = landed[d][q]
    <2>1. d \o q # p /\ d \o q \notin DOMAIN written
      BY <1>2, <1>3
    <2>2. /\ d \o q \in DOMAIN tree <=> q \in DOMAIN landed[d]
          /\ q \in DOMAIN landed[d] => tree[d \o q] = landed[d][q]
      BY <1>3, <2>1 DEF Whole, Holds
    <2>3. QED
      BY <1>2, <2>1, <2>2
  <1>4. QED
    BY <1>1, <1>3 DEF Whole, Holds

LEMMA WholeWithdraw ==
  ASSUME TypeOK, Whole, NEW p, Withdraw(p)
  PROVE  Whole'
  <1> DEFINE Rest(d) == {q \in DOMAIN landed[d] : d \o q # p}
  <1>1. /\ tree' = Restrict(tree, DOMAIN tree \ {p})
        /\ written' = Restrict(written, DOMAIN written \ {p})
        /\ landed' = [d \in DOMAIN landed |-> Restrict(landed[d], Rest(d))]
    BY DEF Withdraw
  <1>2. /\ DOMAIN tree' = DOMAIN tree \ {p} /\ DOMAIN written' = DOMAIN written \ {p}
        /\ \A q \in DOMAIN tree' : tree'[q] = tree[q]
    BY <1>1 DEF Restrict
  <1>3. ASSUME NEW d \in DOMAIN landed
        PROVE  /\ DOMAIN landed'[d] = Rest(d)
               /\ \A q \in Rest(d) : landed'[d][q] = landed[d][q]
    BY <1>1 DEF Restrict
  <1>4. ASSUME NEW d \in DOMAIN landed, NEW q \in Path, d \o q \notin DOMAIN written', Free(q)
        PROVE  /\ d \o q \in DOMAIN tree' <=> q \in DOMAIN landed'[d]
               /\ q \in DOMAIN landed'[d] => tree'[d \o q] = landed'[d][q]
    <2>1. CASE d \o q = p
      BY <1>2, <1>3, <2>1
    <2>2. CASE d \o q # p
      <3>1. d \o q \notin DOMAIN written
        BY <1>2, <1>4, <2>2
      <3>2. /\ d \o q \in DOMAIN tree <=> q \in DOMAIN landed[d]
            /\ q \in DOMAIN landed[d] => tree[d \o q] = landed[d][q]
        BY <1>4, <3>1 DEF Whole, Holds
      <3>3. QED
        BY <1>2, <1>3, <2>2, <3>2
    <2>3. QED
      BY <2>1, <2>2
  <1>5. DOMAIN landed' = DOMAIN landed
    BY <1>1
  <1>6. QED
    BY <1>4, <1>5 DEF Whole, Holds

LEMMA HoldsThere ==
  ASSUME NEW b, Sound(b), NEW d \in Path, NEW o, Sound(o), NEW files, Sound(Put(b, d, o))
  PROVE  Holds(files, Put(b, d, o), d, o)
  <1> DEFINE m == PreserveMetadata(b, d, o)
             u == Put(b, d, o)
  <1>1. EntryAt(u, d) = m
    BY PutThere
  <1>2. DOMAIN m \ Metadata(m) = DOMAIN o \ Metadata(o)
    BY PreservedOwn
  <1>3. \A q \in DOMAIN o \ Metadata(o) : m[q] = o[q]
    BY PreservedOwn
  <1>4. DOMAIN u \subseteq Path
    BY DEF Sound, OnPaths
  <1>5. ASSUME NEW q \in Path
        PROVE  /\ q \in DOMAIN EntryAt(u, d) <=> d \o q \in DOMAIN u
               /\ d \o q \in DOMAIN u => EntryAt(u, d)[q] = u[d \o q]
    <2> HIDE DEF u
    <2>1. q \in DOMAIN EntryAt(u, d) <=> d \o q \in DOMAIN u
      BY <1>4, EntryDomain
    <2>2. d \o q \in DOMAIN u => EntryAt(u, d)[q] = u[d \o q]
      BY <1>4, <2>1, EntryValues
    <2>3. QED
      BY <2>1, <2>2
  <1> HIDE DEF m, u
  <1>6. ASSUME NEW q \in Path, Free(q)
        PROVE  /\ d \o q \in DOMAIN u <=> q \in DOMAIN o
               /\ q \in DOMAIN o => u[d \o q] = o[q]
    <2>1. q \notin Metadata(m) /\ q \notin Metadata(o)
      BY <1>6, Reserving DEF Free
    <2>2. q \in DOMAIN m <=> q \in DOMAIN o
      BY <1>2, <2>1
    <2>3. q \in DOMAIN o => m[q] = o[q]
      BY <1>3, <2>1
    <2>4. QED
      BY <1>1, <1>5, <2>2, <2>3
  <1>7. Holds(files, u, d, o)
    BY <1>6 DEF Holds
  <1>8. QED
    BY <1>7 DEF u

LEMMA WholeReconcile ==
  ASSUME TypeOK, Whole, NEW d \in Targets(ir), Reconcile(d)
  PROVE  Whole'
  <1> DEFINE D == Dest(d)
  <1>0. D \in Path /\ DOMAIN tree \subseteq Path /\ UNCHANGED written
    BY TargetIsAimed DEF Aimed, TypeOK, Sound, OnPaths, Reconcile
  <1>1. PICK b, o : /\ Sound(b) /\ Sound(o)
                    /\ tree' = Put(b, D, o) /\ landed' = Over(D, o)
    BY ReconcilePuts
  <1>2. Sound(tree') /\ Leaves(tree, D, tree')
    BY ReconcilePuts
  <1> HIDE DEF D
  <1>3. ASSUME NEW x \in DOMAIN landed' PROVE Holds(DOMAIN written, tree', x, landed'[x])
    <2>1. CASE x = D
      <3>1. landed'[x] = o
        BY <1>1, <2>1, OverThere
      <3>2. Holds(DOMAIN written, Put(b, D, o), D, o)
        BY <1>0, <1>1, <1>2, HoldsThere
      <3>3. QED
        BY <1>1, <2>1, <3>1, <3>2
    <2>2. CASE x # D
      <3>1. x \in DOMAIN Over(D, o)
        BY <1>1, <1>3
      <3>2. x \in DOMAIN landed /\ Apart(x, D) /\ landed'[x] = landed[x]
        BY <1>1, <2>2, <3>1, OverElsewhere
      <3>3. x \in Path
        BY <3>2 DEF TypeOK
      <3>4. ASSUME NEW q \in Path
            PROVE  /\ x \o q \in DOMAIN tree' <=> x \o q \in DOMAIN tree
                   /\ x \o q \in DOMAIN tree => tree'[x \o q] = tree[x \o q]
        <4>1. x \o q \in Path /\ Apart(D, x \o q)
          BY <1>0, <3>2, <3>3, Joined, ApartBelow
        <4>2. QED
          BY <1>2, <4>1 DEF Leaves
      <3>5. Holds(DOMAIN written, tree, x, landed[x])
        BY <3>2 DEF Whole
      <3>6. QED
        BY <3>2, <3>4, <3>5 DEF Holds
    <2>3. QED
      BY <2>1, <2>2
  <1>4. QED
    BY <1>0, <1>3 DEF Whole

LEMMA WholeNext == TypeOK /\ Whole /\ [Next]_vars => Whole'
  <1> SUFFICES ASSUME TypeOK, Whole, [Next]_vars PROVE Whole'
    OBVIOUS
  <1>1. CASE UNCHANGED vars
    BY <1>1 DEF Whole, vars
  <1>2. CASE Load
    BY <1>2 DEF Whole, Load
  <1>3. CASE \E r \in Repo : UpstreamCommit(r)
    BY <1>3 DEF Whole, UpstreamCommit
  <1>4. CASE Edit
    BY <1>4, WholeWrite, WholeWithdraw DEF Edit
  <1>5. CASE \E d \in Targets(ir) : Reconcile(d)
    BY <1>5, WholeReconcile
  <1>6. QED
    BY <1>1, <1>2, <1>3, <1>4, <1>5 DEF Next

(***************************************************************************)
(* LandsWhole: a destination holds what its transforms made of the         *)
(* upstream commit and nothing else, but for CapyFun's own entries and     *)
(* what people changed since, until something is put over it (engine.rs    *)
(* replay_commit, vendor_snapshot, dest_subtree_preserving_metadata).      *)
(***************************************************************************)
THEOREM LandsAsMade == Spec => []LandsWhole
  <1>1. Init => Whole
    BY DEF Init, Whole, Nothing
  <1>2. Spec => [](TypeOK /\ Whole)
    BY <1>1, TypesInit, TypesNext, WholeNext, PTL DEF Spec
  <1>3. QED
    BY <1>2, WholeLands, PTL

-----------------------------------------------------------------------------
(* What people wrote stays, and nobody else declares anything. *)

\* No rule that people may write moves or copies something to the name of a SRC file.
Decent(r) == r.kind = "github_import" => \A x \in Range(r.transforms) : Hiding(x)
OffersHide == \A pkg \in Package : \A rules \in Offer[pkg] : \A r \in rules : Decent(r)

Stays == \A p \in DOMAIN written : ~Buried(p) => p \in DOMAIN tree /\ tree[p] = written[p]
Peoples == \A p \in Marked(tree, "SRC") : p \in DOMAIN written /\ written[p] = tree[p]
Offers ==
  /\ \A p \in DOMAIN written : \A r \in written[p].rules : Decent(r)
  /\ \A d \in ir : Decent(d.rule)

LEMMA StaysWrite ==
  ASSUME NEW p, NEW c, Write(p, c)
  PROVE  /\ Stays => Stays'
         /\ Peoples => Peoples'
         /\ Offers /\ (\A r \in c.rules : Decent(r)) => Offers'
  <1>1. /\ tree' = Overlay(Single(p, c), tree) /\ written' = Overlay(Single(p, c), written)
        /\ UNCHANGED <<at, ir>>
    BY DEF Write
  <1>2. /\ DOMAIN tree' = {p} \cup DOMAIN tree /\ tree'[p] = c
        /\ \A q \in DOMAIN tree : q # p => tree'[q] = tree[q]
        /\ DOMAIN written' = {p} \cup DOMAIN written /\ written'[p] = c
        /\ \A q \in DOMAIN written : q # p => written'[q] = written[q]
    BY <1>1 DEF Overlay, Single
  <1>3. Stays => Stays'
    BY <1>1, <1>2 DEF Stays, Buried
  <1>4. Peoples => Peoples'
    BY <1>2 DEF Peoples, Marked
  <1>5. Offers /\ (\A r \in c.rules : Decent(r)) => Offers'
    BY <1>1, <1>2 DEF Offers
  <1>6. QED
    BY <1>3, <1>4, <1>5

LEMMA StaysWithdraw ==
  ASSUME NEW p, Withdraw(p)
  PROVE  /\ Stays => Stays'
         /\ Peoples => Peoples'
         /\ Offers => Offers'
  <1>1. /\ tree' = Restrict(tree, DOMAIN tree \ {p})
        /\ written' = Restrict(written, DOMAIN written \ {p})
        /\ UNCHANGED <<at, ir>>
    BY DEF Withdraw
  <1>2. /\ DOMAIN tree' = DOMAIN tree \ {p} /\ \A q \in DOMAIN tree' : tree'[q] = tree[q]
        /\ DOMAIN written' = DOMAIN written \ {p}
        /\ \A q \in DOMAIN written' : written'[q] = written[q]
    BY <1>1 DEF Restrict
  <1>3. Stays => Stays'
    BY <1>1, <1>2 DEF Stays, Buried
  <1>4. Peoples => Peoples'
    BY <1>2 DEF Peoples, Marked
  <1>5. Offers => Offers'
    BY <1>1, <1>2 DEF Offers
  <1>6. QED
    BY <1>3, <1>4, <1>5

LEMMA OffersLoad ==
  ASSUME Peoples, Offers, Load
  PROVE  Offers'
  <1>1. ir' \subseteq Evaluate(tree) /\ UNCHANGED written
    BY DEF Load
  <1>2. ASSUME NEW d \in Evaluate(tree) PROVE Decent(d.rule)
    <2>1. PICK p \in Marked(tree, "SRC") : d \in EvalSrc(tree, p)
      BY <1>2 DEF Evaluate, DiscoverSrcFiles
    <2>2. p \in DOMAIN written /\ d.rule \in written[p].rules
      BY <2>1 DEF Peoples, EvalSrc
    <2>3. QED
      BY <2>2 DEF Offers
  <1>3. QED
    BY <1>1, <1>2 DEF Offers

LEMMA DecentHides ==
  ASSUME NEW r, Decent(r), WellFormed(r), r.kind = "github_import"
  PROVE  AllHiding(Lowered(r))
  <1> DEFINE xs == Lowered(r)
  <1>1. xs \in Seq(Range(r.transforms))
    BY DEF WellFormed
  <1> HIDE DEF xs
  <1>2. \A i \in 1..Len(xs) : xs[i] \in Range(r.transforms)
    BY <1>1
  <1>3. AllHiding(xs)
    BY <1>2 DEF AllHiding, Decent
  <1>4. QED
    BY <1>3 DEF xs

LEMMA NothingHides == AllHiding(<<>>)
  BY DEF AllHiding

LEMMA StaysReconcile ==
  ASSUME TypeOK, NEW d \in Targets(ir), Reconcile(d)
  PROVE  /\ Stays => Stays'
         /\ Peoples /\ Offers => Peoples'
         /\ Offers => Offers'
  <1> DEFINE D == Dest(d)
  <1>1. UNCHANGED <<ir, written>>
    BY DEF Reconcile
  <1>2. /\ Leaves(tree, D, tree') /\ DOMAIN written \subseteq Path
        /\ AllHiding(Pipeline(d)) => NoNewMarker(tree, tree')
    BY ReconcilePuts DEF TypeOK, OnPaths
  <1>3. PICK m : at' = Overlay(Single(Key(d), <<d.rule.repo, m>>), at)
    BY ReconcilePuts
  <1>4. DOMAIN at' = {Key(d)} \cup DOMAIN at /\ Key(d)[2] = D
    BY <1>3 DEF Overlay, Single, Key
  <1> HIDE DEF D
  <1>5. ASSUME Stays, NEW p \in DOMAIN written, ~Buried(p)'
        PROVE  p \in DOMAIN tree' /\ tree'[p] = written[p]
    <2>1. \A k \in DOMAIN at' : IsPrefix(k[2], p) \/ IsPrefix(p, k[2]) => IsMetadata(k[2], p)
      BY <1>5 DEF Buried
    <2>2. ~Buried(p)
      BY <1>4, <2>1 DEF Buried
    <2>3. Apart(D, p) \/ IsMetadata(D, p)
      BY <1>4, <2>1 DEF Apart
    <2>4. p \in DOMAIN tree /\ tree[p] = written[p]
      BY <1>5, <2>2 DEF Stays
    <2>5. QED
      BY <1>2, <2>3, <2>4 DEF Leaves
  <1>6. Stays => Stays'
    BY <1>1, <1>5 DEF Stays
  <1>7. ASSUME Offers PROVE AllHiding(Pipeline(d))
    <2>1. d \in ir
      BY TargetIsAimed
    <2>2. Decent(d.rule) /\ WellFormed(d.rule)
      BY <1>7, <2>1 DEF Offers, TypeOK
    <2>3. QED
      BY <2>2, DecentHides, NothingHides DEF Pipeline
  <1>8. Peoples /\ Offers => Peoples'
    BY <1>1, <1>2, <1>7 DEF Peoples, NoNewMarker, Marked
  <1>9. Offers => Offers'
    BY <1>1 DEF Offers
  <1>10. QED
    BY <1>6, <1>8, <1>9

LEMMA StaysInit == Init => Stays /\ Peoples
  BY DEF Init, Stays, Peoples, Marked

LEMMA OffersInit ==
  ASSUME OffersHide
  PROVE  Init => Offers
  <1> SUFFICES ASSUME Init PROVE Offers
    OBVIOUS
  <1>1. PICK rules \in Offer[<<>>] : written = Single(<<"SRC">>, Source(rules))
    BY DEF Init
  <1>2. \A r \in rules : Decent(r)
    BY <1>1, LayoutAssumption DEF OffersHide
  <1>3. \A p \in DOMAIN written : written[p].rules = rules
    BY <1>1 DEF Single, Source
  <1>4. ir = {}
    BY DEF Init
  <1>5. QED
    BY <1>2, <1>3, <1>4 DEF Offers

LEMMA StaysNext == TypeOK /\ Stays /\ [Next]_vars => Stays'
  <1> SUFFICES ASSUME TypeOK, Stays, [Next]_vars PROVE Stays'
    OBVIOUS
  <1>1. CASE UNCHANGED vars
    BY <1>1 DEF Stays, Buried, vars
  <1>2. CASE Load
    BY <1>2 DEF Stays, Buried, Load
  <1>3. CASE \E r \in Repo : UpstreamCommit(r)
    BY <1>3 DEF Stays, Buried, UpstreamCommit
  <1>4. CASE Edit
    BY <1>4, StaysWrite, StaysWithdraw DEF Edit
  <1>5. CASE \E d \in Targets(ir) : Reconcile(d)
    BY <1>5, StaysReconcile
  <1>6. QED
    BY <1>1, <1>2, <1>3, <1>4, <1>5 DEF Next

LEMMA PeoplesNext ==
  ASSUME OffersHide
  PROVE  TypeOK /\ Peoples /\ Offers /\ [Next]_vars => Peoples' /\ Offers'
  <1> SUFFICES ASSUME TypeOK, Peoples, Offers, [Next]_vars PROVE Peoples' /\ Offers'
    OBVIOUS
  <1>1. CASE UNCHANGED vars
    BY <1>1 DEF Peoples, Offers, vars
  <1>2. CASE Load
    <2>1. Peoples'
      BY <1>2 DEF Peoples, Load
    <2>2. QED
      BY <1>2, <2>1, OffersLoad
  <1>3. CASE \E r \in Repo : UpstreamCommit(r)
    BY <1>3 DEF Peoples, Offers, UpstreamCommit
  <1>4. CASE Edit
    <2>1. CASE \E pkg \in Package : \E rules \in Offer[pkg] : Write(SrcOf(pkg), Source(rules))
      <3>1. PICK pkg \in Package : \E rules \in Offer[pkg] : Write(SrcOf(pkg), Source(rules))
        BY <2>1
      <3>2. PICK rules \in Offer[pkg] : Write(SrcOf(pkg), Source(rules))
        BY <3>1
      <3>3. \A r \in Source(rules).rules : Decent(r)
        BY DEF OffersHide, Source
      <3>4. QED
        BY <3>2, <3>3, StaysWrite
    <2>2. CASE \E p \in PatchFile : Write(p, PatchText)
      <3>1. \A r \in PatchText.rules : Decent(r)
        BY DEF PatchText
      <3>2. QED
        BY <2>2, <3>1, StaysWrite
    <2>3. CASE \E p \in DOMAIN written : Withdraw(p)
      BY <2>3, StaysWithdraw
    <2>4. QED
      BY <1>4, <2>1, <2>2, <2>3 DEF Edit
  <1>5. CASE \E d \in Targets(ir) : Reconcile(d)
    BY <1>5, StaysReconcile
  <1>6. QED
    BY <1>1, <1>2, <1>3, <1>4, <1>5 DEF Next

LEMMA PeoplesDeclare == Peoples => Evaluate(tree) \subseteq Evaluate(written)
  <1> SUFFICES ASSUME Peoples, NEW d \in Evaluate(tree) PROVE d \in Evaluate(written)
    OBVIOUS
  <1>1. PICK p \in DiscoverSrcFiles(tree) : d \in EvalSrc(tree, p)
    BY DEF Evaluate
  <1>2. p \in DOMAIN written /\ written[p] = tree[p] /\ p \in DiscoverSrcFiles(written)
    BY <1>1 DEF Peoples, DiscoverSrcFiles, Marked
  <1>3. d \in EvalSrc(written, p)
    BY <1>1, <1>2 DEF EvalSrc
  <1>4. QED
    BY <1>2, <1>3 DEF Evaluate

(***************************************************************************)
(* What people wrote stays where no destination covers it, whatever their  *)
(* transforms do: the second part of MetadataIsPeoples                     *)
(* (engine.rs dest_subtree_preserving_metadata, splice_into).              *)
(***************************************************************************)
THEOREM PeoplesFilesStay == Spec => []Stays
  <1>1. Init => Stays
    BY StaysInit
  <1>2. QED
    BY <1>1, TypesInit, TypesNext, StaysNext, PTL DEF Spec

(***************************************************************************)
(* MetadataIsPeoples: the declarations of the monorepo are people's own,   *)
(* whatever upstreams have in their trees, as long as people's transforms  *)
(* make no SRC files: those run after upstream's are renamed               *)
(* (engine.rs replay_commit, rename_src_markers).                          *)
(***************************************************************************)
THEOREM DeclarationsArePeoples ==
  ASSUME OffersHide
  PROVE  Spec => []MetadataIsPeoples
  <1>1. Init => TypeOK /\ Stays /\ Peoples /\ Offers
    BY TypesInit, StaysInit, OffersInit
  <1>2. /\ TypeOK /\ Stays /\ Peoples /\ Offers /\ [Next]_vars
        => (TypeOK /\ Stays /\ Peoples /\ Offers)'
    BY TypesNext, StaysNext, PeoplesNext
  <1>3. TypeOK /\ Stays /\ Peoples /\ Offers => MetadataIsPeoples
    BY PeoplesDeclare DEF MetadataIsPeoples, Stays
  <1>4. QED
    BY <1>1, <1>2, <1>3, PTL DEF Spec

=============================================================================
